-------------------------- MODULE WithdrawalProofs ---------------------------
(***************************************************************************)
(* Proofs of what a session still owes when it has changed its mind: a     *)
(* tractor that was told to steer is told to stop (WithdrawalIsOwed), and  *)
(* an implement that asked for power keeps it, until TIM is told that it   *)
(* ends (PowerIsHeld).                                                     *)
(*                                                                         *)
(* The first is about the order of the frames in the driver's queue: the   *)
(* invariant follows the last command to steer through the plugin, TIM's   *)
(* pending frames, the queue and the bus.  The second compares the time    *)
(* the plugin counts in its ticks with real time.                          *)
(***************************************************************************)
EXTENDS SessionProofs

\* Most leaves are first-order; those with arithmetic or sequences cite SMT.
USE Zenon

-----------------------------------------------------------------------------
(* What the tractor was last told.                                         *)

Frame == {"steer", "idle", "go", "halt"} \cup TimCommand

\* After the frames in q, sent on top of what is on the bus, the tractor has
\* been told to stop steering; or a transport error has lost that.
Settled(q, onBus, dropped) ==
  /\ \A i \in DOMAIN q : q[i] = "steer" => \E j \in DOMAIN q : j > i /\ q[j] = "idle"
  /\ onBus = "steer" => dropped \/ \E j \in DOMAIN q : q[j] = "idle"

\* b is not silently idle where a was not.
Owes(a, b) ==
  /\ AdFields \subseteq DOMAIN b
  /\ ~IsActive(b) /\ ~b.dirty => ~IsActive(a) /\ ~a.dirty

\* A stop is told.
LEMMA StopOwes ==
  ASSUME NEW a, AdFields \subseteq DOMAIN a
  PROVE  Owes(a, Stop(a)) /\ Owes(a, TripAndStop(a))
<1>1. AdFields \subseteq DOMAIN Stop(a) /\ Stop(a).dirty = TRUE
  BY DEF Stop, enter_safe_state, AdFields
<1> QED  BY <1>1 DEF Owes, TripAndStop

\* No frame, event or application call ends the activity without telling.
LEMMA CallsOwe ==
  ASSUME NEW a, AdFields \subseteq DOMAIN a
  PROVE  /\ \A permit : Owes(a, OnShortcutButton(a, permit))
         /\ \A f : Owes(a, OnFacilities(a, f))
         /\ \A info : Owes(a, OnMachineInfo(a, info))
         /\ \A events : Owes(a, AutoDriveOnEvents(a, events))
         /\ Owes(a, clear_stop(a)) /\ Owes(a, arm(a)) /\ Owes(a, engage(a))
         /\ \A c : Owes(a, command(a, c))
<1>1. ASSUME NEW permit PROVE Owes(a, OnShortcutButton(a, permit))
  <2> DEFINE b == [a EXCEPT !.isbSeen = 0, !.isbAsserted = ~permit]
  <2>1. Owes(a, b)
    BY DEF Owes, AdFields, IsActive
  <2>2. Owes(b, TripAndStop(b))
    BY <2>1, StopOwes DEF Owes
  <2>3. OnShortcutButton(a, permit) \in {b, TripAndStop(b)}
    BY DEF OnShortcutButton
  <2> HIDE DEF b
  <2> QED  BY <2>1, <2>2, <2>3 DEF Owes
<1>2. ASSUME NEW f PROVE Owes(a, OnFacilities(a, f))
  <2> DEFINE b == [a EXCEPT !.facilities = f]
  <2>1. Owes(a, b)
    BY DEF Owes, AdFields, IsActive
  <2>2. Owes(b, TripAndStop(b))
    BY <2>1, StopOwes DEF Owes
  <2>3. OnFacilities(a, f) \in {b, TripAndStop(b)}
    BY DEF OnFacilities
  <2> HIDE DEF b
  <2> QED  BY <2>1, <2>2, <2>3 DEF Owes
<1>3. ASSUME NEW info PROVE Owes(a, OnMachineInfo(a, info))
  <2> DEFINE b == [a EXCEPT !.fit = info \notin Violation, !.lastInfo = 0,
                            !.linkAlive = TRUE]
             d == [b EXCEPT !.status = StatusOfLimit[info]]
  <2>1. Owes(a, b)
    BY DEF Owes, AdFields, IsActive
  <2>2. Owes(b, TripAndStop(b))
    BY <2>1, StopOwes DEF Owes
  <2>3. \/ OnMachineInfo(a, info) \in {b, TripAndStop(b)}
        \/ OnMachineInfo(a, info) = d /\ info \in DOMAIN StatusOfLimit
    BY DEF OnMachineInfo
  <2>4. ASSUME info \in DOMAIN StatusOfLimit PROVE StatusOfLimit[info] \in Active
    BY <2>4 DEF StatusOfLimit, Active
  <2>5. info \in DOMAIN StatusOfLimit => Owes(a, d)
    <3> HIDE DEF b
    <3> QED  BY <2>1, <2>4 DEF Owes, AdFields, IsActive
  <2> HIDE DEF b, d
  <2> QED  BY <2>1, <2>2, <2>3, <2>5 DEF Owes
<1>4. ASSUME NEW events PROVE Owes(a, AutoDriveOnEvents(a, events))
  <2> DEFINE b == Observe(a, events)
  <2>1. Owes(a, b)
    BY DEF Observe, Owes, AdFields, IsActive
  <2>2. Owes(b, TripAndStop(b))
    BY <2>1, StopOwes DEF Owes
  <2>3. AutoDriveOnEvents(a, events) \in {b, TripAndStop(b)}
    BY DEF AutoDriveOnEvents
  <2> HIDE DEF b
  <2> QED  BY <2>1, <2>2, <2>3 DEF Owes
<1>5. Owes(a, clear_stop(a)) /\ Owes(a, arm(a))
  BY DEF Owes, clear_stop, arm, set_status, IsActive, Active, AdFields
<1>6. Owes(a, engage(a))
  <2> DEFINE b == set_status(a, "ActiveNotLimited")
  <2>1. AdFields \subseteq DOMAIN b
    BY DEF set_status, AdFields
  <2> HIDE DEF b
  <2>2. AdFields \subseteq DOMAIN engage(a) /\ engage(a).dirty = TRUE
    BY <2>1 DEF engage, b, AdFields
  <2> QED  BY <2>2 DEF Owes
<1>7. ASSUME NEW c PROVE Owes(a, command(a, c))
  BY DEF command, Owes, AdFields, IsActive
<1> QED  BY <1>1, <1>2, <1>3, <1>4, <1>5, <1>6, <1>7

\* Neither does a watchdog.
LEMMA WatchdogsOwe ==
  ASSUME NEW a, AdFields \subseteq DOMAIN a
  PROVE  Owes(a, Watched(a))
<1>1. ASSUME NEW b, AdFields \subseteq DOMAIN b PROVE Owes(b, WatchLink(b))
  <2> DEFINE alive == b.lastInfo # Never /\ millis_since(b.lastInfo) < LinkTimeout
             c == [b EXCEPT !.linkAlive = alive]
  <2>1. Owes(b, c)
    BY <1>1 DEF Owes, AdFields, IsActive
  <2>2. Owes(c, Stop(c))
    BY <2>1, StopOwes DEF Owes
  <2>3. WatchLink(b) \in {c, Stop(c)}
    BY DEF WatchLink
  <2> HIDE DEF c
  <2> QED  BY <2>1, <2>2, <2>3 DEF Owes
<1>2. ASSUME NEW b, AdFields \subseteq DOMAIN b PROVE Owes(b, WatchButton(b))
  <2> DEFINE on == b.isbAsserted \/ Elapsed(b.isbSeen, IsbTimeout)
             c == [b EXCEPT !.isbAsserted = on]
  <2>1. Owes(b, c)
    BY <1>2 DEF Owes, AdFields, IsActive
  <2>2. Owes(c, TripAndStop(c))
    BY <2>1, StopOwes DEF Owes
  <2>3. WatchButton(b) \in {c, TripAndStop(c)}
    BY DEF WatchButton
  <2> HIDE DEF c
  <2> QED  BY <2>1, <2>2, <2>3 DEF Owes
<1>3. ASSUME NEW b, AdFields \subseteq DOMAIN b PROVE Owes(b, WatchCommands(b))
  <2> DEFINE c == [b EXCEPT !.commanded = FALSE,
                            !.seqChanged = IF b.commanded THEN 0 ELSE @]
  <2>1. Owes(b, c)
    BY <1>3 DEF Owes, AdFields, IsActive
  <2>2. Owes(c, TripAndStop(c))
    BY <2>1, StopOwes DEF Owes
  <2>3. WatchCommands(b) \in {c, TripAndStop(c)}
    BY DEF WatchCommands
  <2> HIDE DEF c
  <2> QED  BY <2>1, <2>2, <2>3 DEF Owes
<1>4. Owes(a, WatchLink(a))
  BY <1>1
<1>5. Owes(WatchLink(a), WatchButton(WatchLink(a)))
  BY <1>2, <1>4 DEF Owes
<1>6. Owes(WatchButton(WatchLink(a)), Watched(a))
  BY <1>3, <1>5 DEF Owes, Watched
<1> QED  BY <1>4, <1>5, <1>6 DEF Owes

Quiet(q) == \A i \in DOMAIN q : q[i] # "steer"
Halts(q) == \E i \in DOMAIN q : q[i] = "idle"

\* A pump that sends a command to stop steering has no debt left, and one
\* that sends none keeps it.
LEMMA TickOwes ==
  ASSUME NEW a, AdFields \subseteq DOMAIN a, NEW claimed \in BOOLEAN
  PROVE  LET r == AutoDriveOnTick(a, claimed)
         IN  /\ AdFields \subseteq DOMAIN r.ad /\ r.tx \in Seq(Frame)
             /\ \/ r.tx = << >> /\ Owes(a, r.ad)
                \/ /\ claimed
                   /\ IsActive(r.ad) \/ (Quiet(r.tx) /\ Halts(r.tx))
<1> DEFINE w == Watched(a)
           v == [w EXCEPT !.lastTx = 0, !.dirty = FALSE]
           r == AutoDriveOnTick(a, claimed)
<1>1. Owes(a, w)
  BY WatchdogsOwe
<1>2. CASE ~(claimed /\ Due(w))
  <2>1. r.ad = w /\ r.tx = << >>
    BY <1>2 DEF AutoDriveOnTick
  <2>2. << >> \in Seq(Frame)
    BY SMT
  <2> HIDE DEF w, r
  <2> QED  BY <1>1, <2>1, <2>2 DEF Owes, r
<1>3. CASE claimed /\ Due(w)
  <2> DEFINE intent == IF IsActive(w) THEN "steer" ELSE "idle"
             speed == CASE w.setpoint.speed = "none" -> << >>
                        [] w.setpoint.speed = "fast" -> <<"go">>
                        [] OTHER -> <<"halt">>
  <2>1. r.ad = v /\ r.tx = <<intent>> \o speed
    BY <1>3 DEF AutoDriveOnTick, CommandFrames
  <2>2. AdFields \subseteq DOMAIN v /\ (IsActive(v) <=> IsActive(w))
    <3> HIDE DEF w
    <3> QED  BY <1>1 DEF Owes, AdFields, IsActive
  <2>3. speed \in {<< >>, <<"go">>, <<"halt">>}
    OBVIOUS
  <2>4. intent \in {"steer", "idle"} /\ (~IsActive(w) => intent = "idle")
    OBVIOUS
  <2> HIDE DEF w, v, r, intent, speed
  <2>5. /\ speed \in Seq(Frame) /\ <<intent>> \in Seq(Frame)
        /\ \A i \in DOMAIN speed : speed[i] # "steer"
    <3>1. {"steer", "idle", "go", "halt"} \subseteq Frame
      BY DEF Frame
    <3>2. <<"go">> \in Seq(Frame) /\ <<"halt">> \in Seq(Frame) /\ << >> \in Seq(Frame)
      BY SMT, <3>1
    <3>3. <<intent>> \in Seq(Frame)
      BY SMT, <2>4, <3>1
    <3>4. CASE speed = << >>
      BY SMT, <3>2, <3>3, <3>4
    <3>5. CASE speed = <<"go">>
      BY SMT, <3>2, <3>3, <3>5
    <3>6. CASE speed = <<"halt">>
      BY SMT, <3>2, <3>3, <3>6
    <3> QED  BY <2>3, <3>4, <3>5, <3>6
  <2>6. /\ r.tx \in Seq(Frame) /\ 1 \in DOMAIN r.tx /\ r.tx[1] = intent
        /\ \A i \in DOMAIN r.tx : i = 1 \/ (i - 1 \in DOMAIN speed /\ r.tx[i] = speed[i - 1])
    BY SMT, <2>1, <2>5
  <2>7. intent = "idle" => Quiet(r.tx) /\ Halts(r.tx)
    BY <2>5, <2>6 DEF Quiet, Halts
  <2> QED  BY <1>3, <2>1, <2>2, <2>4, <2>6, <2>7 DEF r
<1> QED  BY <1>2, <1>3

\* Frames that follow in the queue.
LEMMA SettledQueue ==
  ASSUME NEW q \in Seq(Frame), NEW t \in Seq(Frame), NEW onBus, NEW dropped,
         Quiet(t), Settled(q, onBus, dropped) \/ Halts(t)
  PROVE  Settled(q \o t, onBus, dropped)
<1> DEFINE u == q \o t
<1>1. /\ u \in Seq(Frame) /\ Len(u) = Len(q) + Len(t)
      /\ \A i \in DOMAIN q : i \in DOMAIN u /\ u[i] = q[i]
      /\ \A i \in DOMAIN t : Len(q) + i \in DOMAIN u /\ u[Len(q) + i] = t[i]
      /\ \A i \in DOMAIN u : \/ i \in DOMAIN q
                             \/ i > Len(q) /\ i - Len(q) \in DOMAIN t
                                /\ u[i] = t[i - Len(q)]
  BY SMT
<1> HIDE DEF u
<1>2. ASSUME NEW i \in DOMAIN u, u[i] = "steer"
      PROVE  i \in DOMAIN q /\ q[i] = "steer" /\ i <= Len(q)
  BY SMT, <1>1, <1>2 DEF Quiet
<1>3. CASE Halts(t)
  <2>1. PICK j \in DOMAIN t : t[j] = "idle"
    BY <1>3 DEF Halts
  <2>2. Len(q) + j \in DOMAIN u /\ u[Len(q) + j] = "idle"
    BY <1>1, <2>1
  <2>3. \A i \in DOMAIN u : u[i] = "steer" => Len(q) + j > i
    BY SMT, <1>2, <2>1
  <2> QED  BY <2>2, <2>3 DEF Settled, u
<1>4. CASE Settled(q, onBus, dropped)
  <2>1. ASSUME NEW i \in DOMAIN u, u[i] = "steer"
        PROVE  \E j \in DOMAIN u : j > i /\ u[j] = "idle"
    <3>1. PICK j \in DOMAIN q : j > i /\ q[j] = "idle"
      BY <1>2, <1>4, <2>1 DEF Settled
    <3> QED  BY <1>1, <3>1
  <2>2. ASSUME onBus = "steer", ~dropped PROVE \E j \in DOMAIN u : u[j] = "idle"
    <3>1. PICK j \in DOMAIN q : q[j] = "idle"
      BY <1>4, <2>2 DEF Settled
    <3> QED  BY <1>1, <3>1
  <2> QED  BY <2>1, <2>2 DEF Settled, u
<1> QED  BY <1>3, <1>4

\* What is transmitted, refused and kept of a queue.
LEMMA SettledBus ==
  ASSUME NEW q \in Seq(Frame), NEW k \in Nat, k <= Len(q), NEW h,
         HistFields \subseteq DOMAIN h, Settled(q, h.onBus, h.dropped)
  PROVE  Settled(Kept(q, k), Transmitted(h, q, k).onBus, Transmitted(h, q, k).dropped)
<1> DEFINE s == Sent(q, k)
           r == Kept(q, k)
           last == LastOf(s, Intents)
           refused == k < Len(q) /\ q[k + 1] \in Intents
           onBus == IF last = "none" THEN h.onBus ELSE last
           dropped == refused \/ (h.dropped /\ last = "none")
<1>1. Transmitted(h, q, k).onBus = onBus /\ Transmitted(h, q, k).dropped = dropped
  <2> HIDE DEF last, refused
  <2> QED  BY DEF Transmitted, HistFields, last, refused
<1>2. Len(q) \in Nat /\ DOMAIN q = 1 .. Len(q)
  BY SMT
<1>3. s \in Seq(Frame) /\ DOMAIN s = 1 .. k /\ \A i \in 1 .. k : s[i] = q[i]
  BY SMT DEF Sent
<1>r. DOMAIN r = 1 .. (Len(q) - (k + 1)) /\ \A i \in DOMAIN r : r[i] = q[i + (k + 1)]
  BY SMT, <1>2 DEF Kept
<1> HIDE DEF r
<1>4. \A j \in DOMAIN q : j > k + 1 =>
        j - (k + 1) \in DOMAIN r /\ r[j - (k + 1)] = q[j]
  BY SMT, <1>2, <1>r
<1>5. \A i \in DOMAIN r : i + (k + 1) \in DOMAIN q /\ r[i] = q[i + (k + 1)] /\ i \in Nat \ {0}
  BY SMT, <1>2, <1>r
<1> HIDE DEF s
<1>6. "none" \notin Intents
  BY DEF Intents
<1>7. \/ last = "none" /\ \A i \in DOMAIN s : s[i] \notin Intents
      \/ /\ last \in Intents
         /\ \E i \in DOMAIN s : /\ last = s[i]
                                 /\ \A j \in DOMAIN s : s[j] \in Intents => j <= i
  BY <1>3, <1>6, LastIsOne
<1> HIDE DEF last
<1>8. ASSUME NEW i \in DOMAIN r, r[i] = "steer"
      PROVE  \E j \in DOMAIN r : j > i /\ r[j] = "idle"
  <2>1. PICK j \in DOMAIN q : j > i + (k + 1) /\ q[j] = "idle"
    BY <1>5, <1>8 DEF Settled
  <2>2. j - (k + 1) \in DOMAIN r /\ r[j - (k + 1)] = "idle" /\ j - (k + 1) > i
    BY SMT, <1>2, <1>4, <1>5, <2>1
  <2> QED  BY <2>2
<1>9. ASSUME NEW j \in DOMAIN q, q[j] = "idle", j > k
      PROVE  refused \/ \E i \in DOMAIN r : r[i] = "idle"
  <2>1. CASE j = k + 1
    BY SMT, <1>2, <1>9, <2>1 DEF Intents
  <2>2. CASE j > k + 1
    BY <1>4, <1>9, <2>2
  <2> QED  BY SMT, <1>2, <1>9, <2>1, <2>2
<1> HIDE DEF refused
<1>10. ASSUME onBus = "steer" PROVE dropped \/ \E j \in DOMAIN r : r[j] = "idle"
  <2>1. CASE last = "none" /\ \A i \in DOMAIN s : s[i] \notin Intents
    <3>1. h.dropped \/ \E j \in DOMAIN q : q[j] = "idle"
      BY <1>10, <2>1 DEF Settled
    <3>2. ASSUME NEW j \in DOMAIN q, q[j] = "idle" PROVE j > k
      BY SMT, <1>2, <1>3, <2>1, <3>2 DEF Intents
    <3> QED  BY <1>9, <2>1, <3>1, <3>2
  <2>2. CASE last \in Intents
    <3>1. last = "steer"
      BY <1>6, <1>10, <2>2
    <3>2. PICK i \in DOMAIN s : /\ s[i] = "steer"
                                /\ \A j \in DOMAIN s : s[j] \in Intents => j <= i
      BY <1>6, <1>7, <2>2, <3>1
    <3>3. i \in DOMAIN q /\ q[i] = "steer"
      BY SMT, <1>2, <1>3, <3>2
    <3>4. PICK j \in DOMAIN q : j > i /\ q[j] = "idle"
      BY <3>3 DEF Settled
    <3>5. j > k
      BY SMT, <1>2, <1>3, <3>2, <3>4 DEF Intents
    <3> QED  BY <1>9, <3>4, <3>5
  <2> QED  BY <1>7, <2>1, <2>2
<1> QED  BY <1>1, <1>8, <1>10 DEF Settled, r

\* AutoDrive, TIM, the queue and the history: an idle AutoDrive with nothing
\* more to say has said so.
Owing(a, t, q, h) ==
  /\ AdFields \subseteq DOMAIN a /\ TimFields \subseteq DOMAIN t
  /\ HistFields \subseteq DOMAIN h
  /\ q \in Seq(Frame) /\ t.pending \in Seq(TimCommand)
  /\ ~IsActive(a) /\ ~a.dirty => Settled(q, h.onBus, h.dropped)

Owed == Owing(ad, tim, outbound, hist)

\* The commands of TIM do not steer.
LEMMA TimIsQuiet ==
  ASSUME NEW s \in Seq(TimCommand) PROVE s \in Seq(Frame) /\ Quiet(s)
<1>1. TimCommand \subseteq Frame /\ "steer" \notin TimCommand
  BY DEF TimCommand, Frame
<1> QED  BY SMT, <1>1 DEF Quiet

\* The dispatch of events, and the flush of what the call has to send.
LEMMA FlushOwes ==
  ASSUME Owed, NEW a, NEW t, NEW events, NEW tx \in Seq(Frame), NEW now, NEW h,
         AdFields \subseteq DOMAIN a, TimFields \subseteq DOMAIN t,
         HistFields \subseteq DOMAIN h, t.pending \in Seq(TimCommand),
         ~IsActive(a) /\ ~a.dirty =>
           /\ Quiet(tx)
           /\ \/ Settled(outbound, h.onBus, h.dropped)
              \/ now = "Claimed" /\ Halts(tx),
         Dispatch(a, t, events)
  PROVE  Owing(ad', tim', Flushed(t, events, tx, now), h)
<1> DEFINE c == AutoDriveOnEvents(a, events)
           u == TimOnEvents(t, events)
           v == [t EXCEPT !.safe = TRUE, !.pending = << >>]
           more == IF Has("Tim") THEN u.tx ELSE << >>
<1>1. /\ ad' = IF Has("AutoDrive") THEN c ELSE a
      /\ tim' = IF Has("Tim") THEN u.tim ELSE t
      /\ Flushed(t, events, tx, now) =
           IF now # "Claimed" THEN outbound ELSE outbound \o tx \o more
  BY DEF Dispatch, Flushed
<1>2. Owes(a, c)
  BY CallsOwe
<1>3. \/ u.tim = t /\ u.tx = << >>
      \/ u.tim = v /\ u.tx = t.pending
  BY DEF TimOnEvents
<1>4. TimFields \subseteq DOMAIN v /\ v.pending = << >>
  BY DEF TimFields
<1>5. << >> \in Seq(TimCommand)
  BY SMT
<1> HIDE DEF c, u, v
<1>6. TimFields \subseteq DOMAIN tim' /\ tim'.pending \in Seq(TimCommand)
  BY <1>1, <1>3, <1>4, <1>5
<1>7. more \in Seq(TimCommand)
  BY <1>3, <1>5
<1> HIDE DEF more
<1>8. more \in Seq(Frame) /\ Quiet(more)
  BY <1>7, TimIsQuiet
<1>9. AdFields \subseteq DOMAIN ad' /\ (~IsActive(ad') /\ ~ad'.dirty => ~IsActive(a) /\ ~a.dirty)
  BY <1>1, <1>2 DEF Owes
<1>10. outbound \in Seq(Frame) /\ outbound \o tx \in Seq(Frame)
       /\ outbound \o tx \o more \in Seq(Frame)
  BY SMT, <1>8 DEF Owed, Owing
<1>11. ASSUME ~IsActive(a), ~a.dirty
       PROVE  Settled(IF now # "Claimed" THEN outbound ELSE outbound \o tx \o more,
                      h.onBus, h.dropped)
  <2>1. CASE now # "Claimed"
    BY <1>11, <2>1
  <2>2. CASE now = "Claimed"
    <3>1. Settled(outbound \o tx, h.onBus, h.dropped)
      BY <1>10, <1>11, SettledQueue
    <3> HIDE <1>3
    <3>2. Settled((outbound \o tx) \o more, h.onBus, h.dropped)
      BY <1>8, <1>10, <3>1, SettledQueue
    <3> QED  BY <2>2, <3>2
  <2> QED  BY <2>1, <2>2
<1> QED  BY <1>1, <1>6, <1>9, <1>10, <1>11 DEF Owing

\* A history that knows the same of the bus.
LEMMA SameDebt ==
  ASSUME NEW a, NEW t, NEW q, NEW h, Owing(a, t, q, h),
         NEW b, Owes(a, b), NEW u, TimFields \subseteq DOMAIN u,
         u.pending \in Seq(TimCommand),
         NEW g, DOMAIN g = DOMAIN h, g.onBus = h.onBus, g.dropped = h.dropped
  PROVE  Owing(b, u, q, g)
BY DEF Owing, Owes

\* A frame that is fed.
LEMMA FeedOwes ==
  ASSUME Owed, Feed PROVE Owed'
<1>0. /\ AdFields \subseteq DOMAIN ad /\ TimFields \subseteq DOMAIN tim
      /\ HistFields \subseteq DOMAIN hist
      /\ outbound \in Seq(Frame) /\ tim.pending \in Seq(TimCommand)
      /\ ~IsActive(ad) /\ ~ad.dirty => Settled(outbound, hist.onBus, hist.dropped)
  BY DEF Owed, Owing
<1>1. DOMAIN hist' = DOMAIN hist /\ hist'.onBus = hist.onBus /\ hist'.dropped = hist.dropped
  <2>1. hist' \in {hist, [hist EXCEPT !.info = 0], [hist EXCEPT !.keepalive = 0],
                   [hist EXCEPT !.power = 0], [hist EXCEPT !.lost = 0]}
    BY DEF Feed, FeedShortcutButton, FeedFacilities, FeedMachineInfo, FeedPosition,
           FeedTim, FeedPowerRequest, FeedKeyOff, FeedClaim, FeedBeat
  <2> QED  BY <1>0, <2>1 DEF HistFields
<1>2. ASSUME NEW a, NEW t, NEW events, NEW tx \in Seq(TimCommand), NEW now, Owes(ad, a),
             TimFields \subseteq DOMAIN t, t.pending \in Seq(TimCommand),
             Fed(a, t, events, tx, now)
      PROVE  Owed'
  <2>1. PICK all : Dispatch(a, t, all) /\ outbound' = Flushed(t, all, tx, now)
    BY <1>2 DEF Fed
  <2>2. tx \in Seq(Frame) /\ Quiet(tx)
    BY TimIsQuiet
  <2>3. Owing(ad', tim', Flushed(t, all, tx, now), hist')
    BY <1>0, <1>1, <1>2, <2>1, <2>2, FlushOwes DEF Owes
  <2> QED  BY <2>1, <2>3 DEF Owed
<1>3. << >> \in Seq(TimCommand) /\ Owes(ad, ad)
  BY SMT, <1>0 DEF Owes
<1>4. ASSUME NEW a, Owes(ad, a), FeedAutoDrive(a) PROVE Owed'
  BY <1>0, <1>2, <1>3, <1>4 DEF FeedAutoDrive
<1>5. CASE FeedShortcutButton
  BY <1>0, <1>4, <1>5, CallsOwe DEF FeedShortcutButton
<1>6. CASE FeedFacilities
  BY <1>0, <1>4, <1>6, CallsOwe DEF FeedFacilities
<1>7. CASE FeedMachineInfo
  BY <1>0, <1>4, <1>7, CallsOwe DEF FeedMachineInfo
<1>8. CASE FeedTim
  <2> DEFINE u == [tim EXCEPT !.since = 0, !.pending = << >>]
  <2>1. Fed(ad, u, << >>, tim.pending, claim)
    BY <1>8 DEF FeedTim, TimOnFrame
  <2>2. TimFields \subseteq DOMAIN u /\ u.pending = << >>
    BY <1>0 DEF TimFields
  <2> HIDE DEF u
  <2> QED  BY <1>0, <1>2, <1>3, <2>1, <2>2
<1>9. ASSUME NEW events, NEW now, Fed(ad, tim, events, << >>, now) PROVE Owed'
  BY <1>0, <1>2, <1>3, <1>9
<1> QED
  BY <1>5, <1>6, <1>7, <1>8, <1>9
  DEF Feed, FeedPosition, FeedPowerRequest, FeedKeyOff, FeedClaim, FeedBeat

\* A pump of the driver.
LEMMA PumpOwes ==
  ASSUME Owed, Pump PROVE Owed'
<1>0. /\ AdFields \subseteq DOMAIN ad /\ TimFields \subseteq DOMAIN tim
      /\ HistFields \subseteq DOMAIN hist
      /\ outbound \in Seq(Frame) /\ tim.pending \in Seq(TimCommand)
      /\ ~IsActive(ad) /\ ~ad.dirty => Settled(outbound, hist.onBus, hist.dropped)
  BY DEF Owed, Owing
<1>1. PICK k \in 0 .. Len(outbound) + 2 + MaxPending : \E health, now : Tick(health, now, k)
  BY DEF Pump
<1> PICK health, now : Tick(health, now, k)
  BY <1>1
<1> DEFINE r == AutoDriveOnTick(ad, now = "Claimed")
           a == IF Has("AutoDrive") THEN r ELSE [ad |-> ad, tx |-> << >>]
           t == TimOnTick(tim, advance_millis(polled))
           tx == a.tx \o t.tx
           events == TickEvents(health, now)
           queue == Flushed(t.tim, events, tx, now)
<1>2. /\ k <= Len(queue) /\ Dispatch(a.ad, t.tim, events)
      /\ outbound' = Kept(queue, k) /\ hist' = Transmitted(hist, queue, k)
  BY DEF Tick
<1>3. k \in Nat
  BY SMT, <1>0, TimAssumption
<1>4. /\ AdFields \subseteq DOMAIN a.ad /\ a.tx \in Seq(Frame)
      /\ \/ a.tx = << >> /\ Owes(ad, a.ad)
         \/ /\ now = "Claimed"
            /\ IsActive(a.ad) \/ (Quiet(a.tx) /\ Halts(a.tx))
  <2>1. CASE Has("AutoDrive")
    <3>1. (now = "Claimed") \in BOOLEAN
      OBVIOUS
    <3>2. a = r
      BY <2>1
    <3> QED  BY <1>0, <3>1, <3>2, TickOwes
  <2>2. CASE ~Has("AutoDrive")
    <3>1. a.ad = ad /\ a.tx = << >>
      BY <2>2
    <3>2. << >> \in Seq(Frame)
      BY SMT
    <3> HIDE DEF a
    <3> QED  BY <1>0, <3>1, <3>2 DEF Owes
  <2> QED  BY <2>1, <2>2
<1>5. TimFields \subseteq DOMAIN t.tim /\ t.tim.pending = << >> /\ t.tx = tim.pending
  BY <1>0 DEF TimOnTick, TimFields
<1> HIDE DEF a, t
<1>6. t.tim.pending \in Seq(TimCommand) /\ t.tx \in Seq(Frame) /\ Quiet(t.tx)
  BY SMT, <1>0, <1>5, TimIsQuiet
<1>7. /\ tx \in Seq(Frame)
      /\ a.tx = << >> => Quiet(tx)
      /\ Quiet(a.tx) => Quiet(tx)
      /\ Halts(a.tx) => Halts(tx)
  <2>1. /\ tx \in Seq(Frame)
        /\ \A i \in DOMAIN a.tx : i \in DOMAIN tx /\ tx[i] = a.tx[i]
        /\ \A i \in DOMAIN tx :
             \/ i \in DOMAIN a.tx /\ tx[i] = a.tx[i]
             \/ i - Len(a.tx) \in DOMAIN t.tx /\ tx[i] = t.tx[i - Len(a.tx)]
    <3> DEFINE x == a.tx
               y == t.tx
    <3>1. x \in Seq(Frame) /\ y \in Seq(Frame)
      BY <1>4, <1>6
    <3> HIDE DEF x, y
    <3>2. /\ x \o y \in Seq(Frame)
          /\ \A i \in DOMAIN x : i \in DOMAIN (x \o y) /\ (x \o y)[i] = x[i]
          /\ \A i \in DOMAIN (x \o y) :
               \/ i \in DOMAIN x /\ (x \o y)[i] = x[i]
               \/ i - Len(x) \in DOMAIN y /\ (x \o y)[i] = y[i - Len(x)]
      BY SMT, <3>1
    <3> QED  BY <3>2, Zenon DEF x, y
  <2>2. a.tx = << >> => Quiet(a.tx)
    BY SMT DEF Quiet
  <2> HIDE DEF tx
  <2> QED  BY <1>6, <2>1, <2>2 DEF Quiet, Halts
<1>8. ~IsActive(a.ad) /\ ~a.ad.dirty =>
        /\ Quiet(tx)
        /\ \/ Settled(outbound, hist.onBus, hist.dropped)
           \/ now = "Claimed" /\ Halts(tx)
  <2> HIDE DEF tx
  <2> QED  BY <1>0, <1>4, <1>7 DEF Owes
<1> HIDE DEF tx, events
<1>9. Owing(ad', tim', queue, hist)
  BY <1>0, <1>2, <1>4, <1>5, <1>6, <1>7, <1>8, FlushOwes
<1> HIDE DEF queue
<1>10. HistFields \subseteq DOMAIN hist'
  <2> DEFINE last == LastOf(Sent(queue, k), Intents)
             bus1 == IF last = "none" THEN hist.onBus ELSE last
             drop == (k < Len(queue) /\ queue[k + 1] \in Intents)
                       \/ (hist.dropped /\ last = "none")
  <2>1. hist' = [hist EXCEPT !.onBus = bus1, !.dropped = drop]
    BY <1>2 DEF Transmitted
  <2> HIDE DEF bus1, drop
  <2> QED  BY <1>0, <2>1 DEF HistFields
<1>11. queue \in Seq(Frame) /\ outbound' \in Seq(Frame)
  BY SMT, <1>2, <1>3, <1>9 DEF Owing, Kept
<1>12. ~IsActive(ad') /\ ~ad'.dirty => Settled(outbound', hist'.onBus, hist'.dropped)
  BY <1>0, <1>2, <1>3, <1>9, <1>11, SettledBus DEF Owing
<1> QED  BY <1>9, <1>10, <1>11, <1>12 DEF Owed, Owing

\* A call of the application.
LEMMA ApplicationOwes ==
  ASSUME Owed, Application PROVE Owed'
<1>0. /\ Owing(ad, tim, outbound, hist) /\ HistFields \subseteq DOMAIN hist
      /\ AdFields \subseteq DOMAIN ad /\ TimFields \subseteq DOMAIN tim
      /\ tim.pending \in Seq(TimCommand) /\ Owes(ad, ad)
  BY DEF Owed, Owing, Owes
<1>1. DOMAIN hist' = DOMAIN hist /\ hist'.onBus = hist.onBus /\ hist'.dropped = hist.dropped
  <2>1. hist' \in {hist, [hist EXCEPT !.command = 0], [hist EXCEPT !.keepalive = 0]}
    BY DEF Application, Arm, Engage, Disengage, Command, ClearStop,
           RequestAuthority, GrantAuthority, EndAuthority, SetInterlocks, SetSafeMode,
           GuardedCommand, TurnKey
  <2> QED  BY <1>0, <2>1 DEF HistFields
<1>2. ASSUME NEW a, Owes(ad, a), Operate(a) PROVE Owed'
  BY <1>0, <1>1, <1>2, SameDebt DEF Operate, Owed
<1>3. CASE Arm \/ Engage \/ Disengage \/ Command \/ ClearStop
  BY <1>0, <1>2, <1>3, CallsOwe, StopOwes
  DEF Arm, Engage, Disengage, disengage, Command, ClearStop
<1>4. ASSUME NEW u, TimFields \subseteq DOMAIN u, u.pending \in Seq(TimCommand), OperateTim(u)
      PROVE  Owed'
  BY <1>0, <1>1, <1>4, SameDebt DEF OperateTim, Owed
<1>5. ASSUME NEW u, DOMAIN u = DOMAIN tim, u.pending = tim.pending, OperateTim(u)
      PROVE  Owed'
  BY <1>0, <1>4, <1>5
<1>6. CASE RequestAuthority \/ GrantAuthority
  <2>1. \A o : DOMAIN request(tim, o) = DOMAIN tim /\ request(tim, o).pending = tim.pending
    BY <1>0 DEF request, TimFields
  <2>2. DOMAIN grant(tim) = DOMAIN tim /\ grant(tim).pending = tim.pending
    BY <1>0 DEF grant, TimFields
  <2> QED  BY <1>5, <1>6, <2>1, <2>2 DEF RequestAuthority, GrantAuthority
<1>7. CASE EndAuthority
  <2>1. PICK state : OperateTim([tim EXCEPT !.state = state])
    BY <1>7 DEF EndAuthority
  <2> DEFINE u == [tim EXCEPT !.state = state]
  <2>2. DOMAIN u = DOMAIN tim /\ u.pending = tim.pending
    BY <1>0 DEF TimFields
  <2> HIDE DEF u
  <2> QED  BY <1>5, <2>1, <2>2 DEF u
<1>8. CASE SetInterlocks
  <2>1. \A b : /\ DOMAIN set_interlocks(tim, b) = DOMAIN tim
              /\ set_interlocks(tim, b).pending = tim.pending
    BY <1>0 DEF set_interlocks, TimFields
  <2> QED  BY <1>5, <1>8, <2>1 DEF SetInterlocks
<1>9. CASE SetSafeMode
  <2>1. PICK safe : OperateTim([tim EXCEPT !.safe = safe])
    BY <1>9 DEF SetSafeMode
  <2> DEFINE u == [tim EXCEPT !.safe = safe]
  <2>2. DOMAIN u = DOMAIN tim /\ u.pending = tim.pending
    BY <1>0 DEF TimFields
  <2> HIDE DEF u
  <2> QED  BY <1>5, <2>1, <2>2 DEF u
<1>10. CASE GuardedCommand
  <2>1. PICK c \in TimCommand : OperateTim([tim EXCEPT !.pending = Append(@, c)])
    BY <1>10 DEF GuardedCommand
  <2> DEFINE u == [tim EXCEPT !.pending = Append(@, c)]
  <2>2. TimFields \subseteq DOMAIN u /\ u.pending = Append(tim.pending, c)
    BY <1>0 DEF TimFields
  <2>3. Append(tim.pending, c) \in Seq(TimCommand)
    BY SMT, <1>0
  <2> HIDE DEF u
  <2> QED  BY <1>4, <2>1, <2>2, <2>3 DEF u
<1>11. CASE TurnKey
  BY <1>11 DEF TurnKey, Owed
<1> QED
  BY <1>3, <1>6, <1>7, <1>8, <1>9, <1>10, <1>11 DEF Application

\* What goes on outside the session.
LEMMA WorldOwes ==
  ASSUME Owed, World PROVE Owed'
<1>0. /\ Owing(ad, tim, outbound, hist) /\ HistFields \subseteq DOMAIN hist
      /\ AdFields \subseteq DOMAIN ad /\ TimFields \subseteq DOMAIN tim
      /\ tim.pending \in Seq(TimCommand) /\ Owes(ad, ad)
  BY DEF Owed, Owing, Owes
<1>1. outbound' = outbound /\ tim' = tim
  BY DEF World, LoseBeat, PeerSignals, PeerRestarts, Elapse, ClockJumps
<1>2. DOMAIN hist' = DOMAIN hist /\ hist'.onBus = hist.onBus /\ hist'.dropped = hist.dropped
  <2>1. CASE LoseBeat
    <3>1. PICK l, c : hist' = [hist EXCEPT !.lost = l, !.clean = c]
      BY <2>1 DEF LoseBeat
    <3> QED  BY <1>0, <3>1 DEF HistFields
  <2>2. CASE PeerSignals
    BY <1>0, <2>2 DEF PeerSignals, HistFields
  <2>3. CASE PeerRestarts \/ ClockJumps
    BY <2>3 DEF PeerRestarts, ClockJumps
  <2>4. CASE Elapse
    <3>1. PICK c, i, k, p : hist' = [hist EXCEPT !.command = c, !.info = i,
                                                 !.keepalive = k, !.power = p]
      BY <2>4 DEF Elapse
    <3> QED  BY <1>0, <3>1 DEF HistFields
  <2> QED  BY <2>1, <2>2, <2>3, <2>4 DEF World
<1>3. Owes(ad, ad')
  <2>1. CASE LoseBeat \/ PeerSignals \/ PeerRestarts
    BY <1>0, <2>1 DEF LoseBeat, PeerSignals, PeerRestarts
  <2>2. ASSUME NEW i, NEW x, NEW s, NEW b,
               ad' = [ad EXCEPT !.lastInfo = i, !.lastTx = x, !.seqChanged = s, !.isbSeen = b]
        PROVE  Owes(ad, ad')
    BY <1>0, <2>2 DEF Owes, AdFields, IsActive
  <2>3. CASE Elapse
    BY <2>2, <2>3 DEF Elapse, AutoDriveOlder
  <2>4. CASE ClockJumps
    <3>1. PICK d : ad' = AutoDriveRewound(ad, d)
      BY <2>4 DEF ClockJumps
    <3> QED  BY <2>2, <3>1 DEF AutoDriveRewound
  <2> QED  BY <2>1, <2>3, <2>4 DEF World
<1> QED  BY <1>0, <1>1, <1>2, <1>3, SameDebt DEF Owed

\* The debt is kept by every step of a session.
THEOREM DebtsAreKept == Spec => []Owed
<1>1. Init => Owed
  <2> SUFFICES ASSUME Init PROVE Owed
    OBVIOUS
  <2>1. /\ AdFields \subseteq DOMAIN ad /\ TimFields \subseteq DOMAIN tim
        /\ HistFields \subseteq DOMAIN hist /\ hist.onBus = "none"
        /\ outbound = << >> /\ tim.pending = << >>
    BY DEF Init, NewAutoDrive, NewTim, NewHistory, AdFields, TimFields, HistFields
  <2>2. outbound \in Seq(Frame) /\ tim.pending \in Seq(TimCommand)
    BY SMT, <2>1
  <2>3. Settled(outbound, hist.onBus, hist.dropped)
    BY SMT, <2>1 DEF Settled
  <2> QED  BY <2>1, <2>2, <2>3 DEF Owed, Owing
<1>2. Owed /\ [Next]_vars => Owed'
  <2> SUFFICES ASSUME Owed, [Next]_vars PROVE Owed'
    OBVIOUS
  <2>1. CASE UNCHANGED vars
    BY <2>1 DEF vars, Owed
  <2> QED  BY <2>1, FeedOwes, PumpOwes, ApplicationOwes, WorldOwes DEF Next
<1> QED  BY <1>1, <1>2, PTL DEF Spec

\* Whatever stops AutoDrive, and whatever happens to the address and to the
\* queue, the tractor is told, or a transport error has eaten it.
THEOREM WithdrawalsAreOwed == Spec => []WithdrawalIsOwed
<1>1. Owed => WithdrawalIsOwed
  BY DEF Owed, Owing, Settled, WithdrawalIsOwed, Range
<1> QED  BY <1>1, DebtsAreKept, PTL

-----------------------------------------------------------------------------
(* The power an implement asked for.                                       *)

\* The time since the last request is counted from the poll before it, so it
\* runs ahead by one interval of the pump at most; and a power-off that was
\* reported is past, but for a shutdown that has just begun.
Powering(p, pol, power) ==
  /\ PowerFields \subseteq DOMAIN p /\ p.state \in PowerState
  /\ p.shutdown \in Nat /\ p.maintain \in Nat /\ power \in Int /\ pol \in Int
  /\ \/ power = Never \/ power >= MaintainTime
     \/ p.maintain + advance_millis(pol) <= power + TickGap
  /\ p.told = "PowerOff" =>
       \/ p.state \in {"PowerOff", "Running"}
       \/ p.state = "ShutdownPending" /\ p.shutdown = 0 /\ p.maintain = 0

\* What update_tecu makes of the two times.
LEMMA PowerWaits ==
  ASSUME NEW p, NEW elapsed \in Nat, PowerFields \subseteq DOMAIN p, p.state \in PowerState,
         p.shutdown \in Nat, p.maintain \in Nat
  PROVE  LET x == update_tecu(p, elapsed)
         IN  /\ PowerFields \subseteq DOMAIN x /\ x.state \in PowerState /\ x.told = p.told
             /\ x.shutdown \in Nat /\ x.maintain \in Nat
             /\ x.maintain <= p.maintain + elapsed
             /\ x.shutdown <= p.shutdown + elapsed
             /\ x.state = "PowerOff" /\ p.state # "PowerOff" =>
                  /\ x.maintain >= MaintainTime \/ x.shutdown >= MaxExtension
                  /\ p.state \in {"ShutdownPending", "Maintaining"}
                  /\ p.state = "ShutdownPending" =>
                       x.maintain >= MaintainTime /\ x.shutdown >= ShutdownMin
<1> DEFINE sh == AtMost(p.shutdown + elapsed, MaxExtension)
           ma == AtMost(p.maintain + elapsed, MaintainTime)
           w == [p EXCEPT !.shutdown = sh, !.maintain = ma]
           x == update_tecu(p, elapsed)
<1>1. /\ sh \in Nat /\ ma \in Nat /\ sh <= p.shutdown + elapsed /\ ma <= p.maintain + elapsed
  BY SMT, MaintainPowerAssumption DEF AtMost
<1> HIDE DEF sh, ma
<1>2. /\ PowerFields \subseteq DOMAIN w /\ w.state = p.state /\ w.told = p.told
      /\ w.shutdown = sh /\ w.maintain = ma
  BY DEF PowerFields
<1> HIDE DEF w
<1>3. ASSUME NEW st \in PowerState
      PROVE  LET v == [w EXCEPT !.state = st]
             IN  /\ PowerFields \subseteq DOMAIN v /\ v.state = st /\ v.told = p.told
                 /\ v.shutdown = sh /\ v.maintain = ma
  BY <1>2 DEF PowerFields
<1>4. \/ x = p /\ p.state \in {"Running", "PowerOff"}
      \/ x = w /\ p.state = "ShutdownPending"
      \/ \E st \in PowerState :
           /\ x = [w EXCEPT !.state = st]
           /\ \/ p.state = "ShutdownPending" /\ sh >= ShutdownMin
                /\ (st = "PowerOff" => ma >= MaintainTime)
              \/ p.state = "Maintaining"
                /\ (st = "PowerOff" => ma >= MaintainTime \/ sh >= MaxExtension)
  <2>1. CASE p.state \in {"Running", "PowerOff"}
    BY <2>1 DEF update_tecu
  <2>2. CASE p.state = "ShutdownPending" /\ sh >= ShutdownMin
    <3>1. ~(sh < ShutdownMin)
      BY SMT, <1>1, <2>2, MaintainPowerAssumption
    <3>2. x = [w EXCEPT !.state = IF ma >= MaintainTime THEN "PowerOff" ELSE "Maintaining"]
      BY <2>2, <3>1 DEF update_tecu, w, sh, ma
    <3> QED  BY <2>2, <3>2 DEF PowerState
  <2>3. CASE p.state = "ShutdownPending" /\ sh < ShutdownMin
    <3>1. ~(sh >= ShutdownMin)
      BY SMT, <1>1, <2>3, MaintainPowerAssumption
    <3>2. x = w
      BY <2>3, <3>1 DEF update_tecu, w, sh, ma
    <3> QED  BY <2>3, <3>2
  <2>4. CASE p.state = "Maintaining"
    <3>1. x = [w EXCEPT !.state = IF sh >= MaxExtension \/ ma >= MaintainTime
                                  THEN "PowerOff" ELSE @]
      BY <2>4 DEF update_tecu, w, sh, ma
    <3>2. x = [w EXCEPT !.state = IF sh >= MaxExtension \/ ma >= MaintainTime
                                  THEN "PowerOff" ELSE "Maintaining"]
      BY <1>2, <2>4, <3>1
    <3> QED  BY <2>4, <3>2 DEF PowerState
  <2> QED  BY SMT, <1>1, <2>1, <2>2, <2>3, <2>4, MaintainPowerAssumption DEF PowerState
<1> HIDE DEF x
<1>5. CASE x = p /\ p.state \in {"Running", "PowerOff"}
  BY SMT, <1>5 DEF x
<1>6. CASE x = w /\ p.state = "ShutdownPending"
  BY <1>1, <1>2, <1>6 DEF x
<1>7. ASSUME NEW st \in PowerState, x = [w EXCEPT !.state = st],
             \/ p.state = "ShutdownPending" /\ sh >= ShutdownMin
               /\ (st = "PowerOff" => ma >= MaintainTime)
             \/ p.state = "Maintaining"
               /\ (st = "PowerOff" => ma >= MaintainTime \/ sh >= MaxExtension)
      PROVE  /\ PowerFields \subseteq DOMAIN x /\ x.state \in PowerState /\ x.told = p.told
             /\ x.shutdown \in Nat /\ x.maintain \in Nat
             /\ x.maintain <= p.maintain + elapsed
             /\ x.shutdown <= p.shutdown + elapsed
             /\ x.state = "PowerOff" /\ p.state # "PowerOff" =>
                  /\ x.maintain >= MaintainTime \/ x.shutdown >= MaxExtension
                  /\ p.state \in {"ShutdownPending", "Maintaining"}
                  /\ p.state = "ShutdownPending" =>
                       x.maintain >= MaintainTime /\ x.shutdown >= ShutdownMin
  <2>1. /\ PowerFields \subseteq DOMAIN x /\ x.state = st /\ x.told = p.told
        /\ x.shutdown = sh /\ x.maintain = ma
    BY <1>3, <1>7
  <2> QED  BY <1>1, <1>7, <2>1
<1> QED  BY <1>4, <1>5, <1>6, <1>7 DEF x

\* A tick of the plugin.
LEMMA PowerTicks ==
  ASSUME NEW p, NEW pol, NEW power, Powering(p, pol, power),
         NEW l \in 0 .. TickGap, pol <= l
  PROVE  LET r == PowerOnTick(p, advance_millis(pol))
         IN  /\ Powering(r.mp, Advanced(pol), power)
             /\ p.state # "PowerOff" /\ r.mp.state = "PowerOff" =>
                  /\ \/ power = Never \/ power >= MaintainTime - TickGap
                     \/ r.mp.shutdown >= MaxExtension
                  /\ TickGap < ShutdownMin \/ TickGap < MaintainTime =>
                       Some(r.events, SafeModeEvent)
<1> DEFINE e == advance_millis(pol)
           x == update_tecu(p, e)
           r == PowerOnTick(p, e)
<1>0. TickGap \in Nat /\ MaintainTime \in Nat /\ ShutdownMin \in Nat /\ MaxExtension \in Nat
  BY SessionAssumption, MaintainPowerAssumption
<1>1. pol \in Int /\ e \in 0 .. TickGap
  BY SMT, <1>0 DEF Powering, advance_millis, millis_since
<1>2. advance_millis(Advanced(pol)) = 0 /\ Advanced(pol) \in Int
  BY SMT, <1>1 DEF Advanced, advance_millis, millis_since, Never
<1> HIDE DEF e
<1>3. /\ PowerFields \subseteq DOMAIN x /\ x.state \in PowerState /\ x.told = p.told
      /\ x.shutdown \in Nat /\ x.maintain \in Nat
      /\ x.maintain <= p.maintain + e
      /\ x.shutdown <= p.shutdown + e
      /\ x.state = "PowerOff" /\ p.state # "PowerOff" =>
           /\ x.maintain >= MaintainTime \/ x.shutdown >= MaxExtension
           /\ p.state \in {"ShutdownPending", "Maintaining"}
           /\ p.state = "ShutdownPending" =>
                x.maintain >= MaintainTime /\ x.shutdown >= ShutdownMin
  BY SMT, <1>1, PowerWaits DEF Powering
<1> HIDE DEF x
<1>4. /\ r.mp = [x EXCEPT !.told = x.state]
      /\ r.events = IF x.told # x.state /\ x.state = "PowerOff"
                      THEN <<"PowerOff">> ELSE << >>
  BY DEF PowerOnTick, Tell, x
<1> HIDE DEF r
<1>5. /\ PowerFields \subseteq DOMAIN r.mp /\ r.mp.state = x.state /\ r.mp.told = x.state
      /\ r.mp.shutdown = x.shutdown /\ r.mp.maintain = x.maintain
  BY <1>3, <1>4 DEF PowerFields
<1>6. \/ power = Never \/ power >= MaintainTime \/ x.maintain <= power + TickGap
  BY SMT, <1>0, <1>1, <1>3 DEF Powering, e
<1>7. Powering(r.mp, Advanced(pol), power)
  BY SMT, <1>0, <1>2, <1>3, <1>5, <1>6 DEF Powering
<1>8. ASSUME p.state # "PowerOff", x.state = "PowerOff"
      PROVE  power = Never \/ power >= MaintainTime - TickGap \/ x.shutdown >= MaxExtension
  BY SMT, <1>0, <1>3, <1>6, <1>8 DEF Powering
<1>9. ASSUME p.state # "PowerOff", x.state = "PowerOff",
             TickGap < ShutdownMin \/ TickGap < MaintainTime
      PROVE  Some(r.events, SafeModeEvent)
  <2>1. p.told # "PowerOff"
    <3> SUFFICES ASSUME p.told = "PowerOff" PROVE FALSE
      OBVIOUS
    <3>1. p.state = "ShutdownPending" /\ p.shutdown = 0 /\ p.maintain = 0
      BY <1>3, <1>9 DEF Powering
    <3> QED  BY SMT, <1>0, <1>1, <1>3, <1>9, <3>1
  <2>2. r.events = <<"PowerOff">>
    BY <1>3, <1>4, <1>9, <2>1
  <2> QED  BY SMT, <2>2 DEF Some, SafeModeEvent
<1> QED  BY <1>5, <1>7, <1>8, <1>9 DEF r, e

\* The events of a tick reach TIM.
LEMMA PumpTells ==
  ASSUME Inv, NEW health, NEW now, NEW k, Tick(health, now, k), Has("Tim"),
         Some(PowerOnTick(mp, advance_millis(polled)).events, SafeModeEvent)
  PROVE  tim'.safe
<1> DEFINE elapsed == advance_millis(polled)
           t == TimOnTick(tim, elapsed).tim
           fail == IF health # bus /\ health = "FailSafe" THEN <<"FailSafe">>
                   ELSE << >>
           g == GnssOnTick(gn)
           h == HeartbeatOnTick(hb, elapsed)
           p == PowerOnTick(mp, elapsed).events
           lost == ClaimEvents(now)
           before == fail \o ClockEvents \o g.events \o h.events
           events == before \o p \o lost
<1>1. tim' = TimOnEvents(t, events).tim
  BY DEF Tick, TickEvents, Dispatch
<1>2. TimFields \subseteq DOMAIN t
  BY DEF TimOnTick, Inv, TimFields
<1>3. Tells(gn, g)
  BY GnssTickTells DEF Inv
<1>4. /\ Silent(fail) /\ Silent(ClockEvents) /\ Silent(h.events)
      /\ Silent(p) /\ Silent(lost)
  BY OthersAreSilent DEF PowerOnTick
<1> HIDE DEF t, fail, g, h, p, lost
<1>5. before \in Seq(EventName) /\ p \in Seq(EventName) /\ lost \in Seq(EventName)
  <2>1. /\ fail \in Seq(EventName) /\ ClockEvents \in Seq(EventName)
        /\ g.events \in Seq(EventName) /\ h.events \in Seq(EventName)
        /\ p \in Seq(EventName) /\ lost \in Seq(EventName)
    BY <1>3, <1>4 DEF Tells, Silent
  <2> QED  BY ONLY SMT, <2>1
<1>6. Some(p, SafeModeEvent)
  BY DEF p
<1> HIDE DEF before
<1>7. before \o p \in Seq(EventName) /\ Some(before \o p, SafeModeEvent)
  BY <1>5, <1>6, SomeOfBoth
<1>8. Some(events, SafeModeEvent)
  BY <1>5, <1>7, SomeOfBoth
<1> HIDE DEF events
<1> QED  BY <1>1, <1>2, <1>8 DEF TimOnEvents, Some, TimFields

\* The driver pumps at least every TickGap, and has polled no longer ago.
Polling == lag \in 0 .. TickGap /\ polled \in Int /\ polled <= lag

\* The pump keeps to its interval.
LEMMA StepPolls ==
  ASSUME Polling, [Next]_vars PROVE Polling'
<1>0. TickGap \in Nat /\ lag \in Nat
  BY SMT, SessionAssumption DEF Polling
<1>1. CASE UNCHANGED <<lag, polled>>
  BY <1>1 DEF Polling
<1>2. CASE Feed
  <2>1. UNCHANGED <<lag, polled>>
    BY <1>2 DEF Feed, FeedShortcutButton, FeedFacilities, FeedMachineInfo, FeedPosition,
                FeedTim, FeedPowerRequest, FeedKeyOff, FeedClaim, FeedBeat, FeedAutoDrive, Fed
  <2> QED  BY <1>1, <2>1
<1>3. CASE Pump
  <2>1. PICK health, now, k : Tick(health, now, k)
    BY <1>3 DEF Pump
  <2>2. lag' = 0 /\ polled' = Advanced(polled)
    BY <2>1 DEF Tick
  <2> QED  BY SMT, <1>0, <2>2 DEF Polling, Advanced
<1>4. CASE Application
  <2>1. UNCHANGED <<lag, polled>>
    BY <1>4 DEF Application, Arm, Engage, Disengage, Command, ClearStop, Operate,
                RequestAuthority, GrantAuthority, EndAuthority, SetInterlocks, SetSafeMode,
                GuardedCommand, OperateTim, TurnKey
  <2> QED  BY <1>1, <2>1
<1>5. CASE LoseBeat \/ PeerSignals \/ PeerRestarts
  BY <1>1, <1>5 DEF LoseBeat, PeerSignals, PeerRestarts
<1>6. CASE Elapse
  <2>1. lag' = lag + 1 /\ lag < TickGap /\ \E limit : polled' = Older(polled, limit)
    BY <1>6 DEF Elapse
  <2> QED  BY SMT, <1>0, <2>1 DEF Polling, Older, Never
<1>7. CASE ClockJumps
  <2>1. PICK d \in 1 .. MaxBack : polled' = Rewound(polled, d)
    BY <1>7 DEF ClockJumps
  <2>2. lag' = lag
    BY <1>7 DEF ClockJumps
  <2> QED  BY SMT, <1>0, <2>1, <2>2, ClockAssumption DEF Polling, Rewound, Never
<1> QED  BY <1>1, <1>2, <1>3, <1>4, <1>5, <1>6, <1>7 DEF Next, World, vars

Powered == Polling /\ Powering(mp, polled, hist.power)

\* Only a pump cuts the power: the other steps keep the account.
LEMMA OthersPower ==
  ASSUME Owed, Powered, [Next]_vars, ~Pump
  PROVE  Powered' /\ (mp'.state = "PowerOff" => mp.state = "PowerOff")
<1>0. /\ HistFields \subseteq DOMAIN hist /\ lag \in 0 .. TickGap /\ polled <= lag
      /\ polled \in Int /\ TickGap \in Nat /\ MaintainTime \in Nat
      /\ PowerFields \subseteq DOMAIN mp /\ mp.maintain \in Nat
  BY SessionAssumption, MaintainPowerAssumption
  DEF Owed, Owing, Powered, Polling, Powering
<1>p. Polling'
  BY StepPolls DEF Powered
<1>1. ASSUME mp' = mp, polled' = polled, hist'.power = hist.power
      PROVE  Powered' /\ (mp'.state = "PowerOff" => mp.state = "PowerOff")
  BY <1>1, <1>p DEF Powered
<1>2. CASE FeedPowerRequest
  <2> DEFINE x == handle_message(mp)
             r == PowerOnFrame(mp).mp
  <2>1. mp' = r /\ polled' = polled /\ hist'.power = 0
    BY <1>0, <1>2 DEF FeedPowerRequest, HistFields
  <2>2. /\ PowerFields \subseteq DOMAIN x /\ x.state = mp.state /\ x.shutdown = mp.shutdown
        /\ x.maintain = 0
    BY <1>0 DEF handle_message, PowerFields
  <2>3. r = [x EXCEPT !.told = x.state]
    BY DEF PowerOnFrame, Tell
  <2> HIDE DEF x, r
  <2>4. /\ PowerFields \subseteq DOMAIN r /\ r.state = mp.state /\ r.shutdown = mp.shutdown
        /\ r.maintain = 0 /\ r.told = mp.state
    BY <2>2, <2>3 DEF PowerFields
  <2>5. advance_millis(polled) <= TickGap /\ advance_millis(polled) \in Nat
    BY SMT, <1>0 DEF advance_millis, millis_since
  <2>6. mp.state \in PowerState /\ mp.shutdown \in Nat
    BY DEF Powered, Powering
  <2>7. Powering(r, polled, 0)
    BY SMT, <1>0, <2>4, <2>5, <2>6, MaintainPowerAssumption DEF Powering
  <2>8. r.state = "PowerOff" => mp.state = "PowerOff"
    BY <2>4
  <2> QED  BY ONLY <2>1, <2>7, <2>8, <1>p DEF Powered
<1>3. CASE Feed /\ ~FeedPowerRequest
  <2>1. mp' = mp /\ polled' = polled
    BY <1>3 DEF Feed, FeedShortcutButton, FeedFacilities, FeedMachineInfo, FeedPosition,
                FeedTim, FeedKeyOff, FeedClaim, FeedBeat, FeedAutoDrive
  <2>2. hist' \in {hist, [hist EXCEPT !.info = 0], [hist EXCEPT !.keepalive = 0],
                   [hist EXCEPT !.lost = 0]}
    BY <1>3 DEF Feed, FeedShortcutButton, FeedFacilities, FeedMachineInfo, FeedPosition,
                FeedTim, FeedKeyOff, FeedClaim, FeedBeat
  <2>3. hist'.power = hist.power
    BY <1>0, <2>2 DEF HistFields
  <2> QED  BY <1>1, <2>1, <2>3
<1>4. CASE TurnKey
  <2>1. mp' \in {key_off(mp), key_on(mp)} /\ polled' = polled /\ hist' = hist
    BY <1>4 DEF TurnKey
  <2>2. CASE mp' = mp
    BY <1>1, <2>1, <2>2
  <2>3. CASE mp.state = "Running" /\ mp' = [mp EXCEPT !.state = "ShutdownPending",
                                                    !.shutdown = 0, !.maintain = 0]
    <3>1. /\ PowerFields \subseteq DOMAIN mp' /\ mp'.state = "ShutdownPending"
          /\ mp'.shutdown = 0 /\ mp'.maintain = 0 /\ mp'.told = mp.told
      BY <1>0, <2>3 DEF PowerFields
    <3>2. advance_millis(polled) \in Int
      BY SMT, <1>0 DEF advance_millis, millis_since
    <3> QED  BY SMT, <1>0, <2>1, <3>1, <3>2, <1>p DEF Powered, Powering, PowerState
  <2>4. CASE mp' = [mp EXCEPT !.state = "Running", !.shutdown = 0]
    <3>1. /\ PowerFields \subseteq DOMAIN mp' /\ mp'.state = "Running"
          /\ mp'.shutdown = 0 /\ mp'.maintain = mp.maintain /\ mp'.told = mp.told
      BY <1>0, <2>4 DEF PowerFields
    <3> QED  BY SMT, <2>1, <3>1, <1>p DEF Powered, Powering, PowerState
  <2> QED  BY <2>1, <2>2, <2>3, <2>4 DEF key_off, key_on
<1>5. CASE Application /\ ~TurnKey
  <2>1. mp' = mp /\ polled' = polled
    BY <1>5 DEF Application, Arm, Engage, Disengage, Command, ClearStop, Operate,
                RequestAuthority, GrantAuthority, EndAuthority, SetInterlocks, SetSafeMode,
                GuardedCommand, OperateTim
  <2>2. hist' \in {hist, [hist EXCEPT !.command = 0], [hist EXCEPT !.keepalive = 0]}
    BY <1>5 DEF Application, Arm, Engage, Disengage, Command, ClearStop,
                RequestAuthority, GrantAuthority, EndAuthority, SetInterlocks, SetSafeMode,
                GuardedCommand
  <2>3. hist'.power = hist.power
    BY <1>0, <2>2 DEF HistFields
  <2> QED  BY <1>1, <2>1, <2>3
<1>6. CASE LoseBeat \/ PeerSignals \/ PeerRestarts
  <2>1. mp' = mp /\ polled' = polled
    BY <1>6 DEF LoseBeat, PeerSignals, PeerRestarts
  <2>2. \/ \E l, c : hist' = [hist EXCEPT !.lost = l, !.clean = c]
        \/ hist' = [hist EXCEPT !.clean = FALSE] \/ hist' = hist
    BY <1>6 DEF LoseBeat, PeerSignals, PeerRestarts
  <2>3. hist'.power = hist.power
    BY <1>0, <2>2 DEF HistFields
  <2> QED  BY <1>1, <2>1, <2>3
<1>7. CASE Elapse
  <2>1. mp' = mp /\ \E limit : polled' = Older(polled, limit)
    BY <1>7 DEF Elapse
  <2>2. PICK limit : polled' = Older(polled, limit)
    BY <2>1
  <2>3. hist'.power = Older(hist.power, MaintainTime)
    <3>1. PICK c, i, k : hist' = [hist EXCEPT !.command = c, !.info = i, !.keepalive = k,
                                              !.power = Older(@, MaintainTime)]
      BY <1>7 DEF Elapse
    <3> QED  BY <1>0, <3>1 DEF HistFields
  <2>4. /\ polled' \in Int /\ advance_millis(polled') \in Nat /\ advance_millis(polled) \in Nat
        /\ advance_millis(polled') <= advance_millis(polled) + 1
    BY SMT, <1>0, <2>2 DEF Older, advance_millis, millis_since, Never
  <2>5. /\ hist.power \in Int /\ hist'.power \in Int
        /\ \/ hist'.power = Never \/ hist'.power >= MaintainTime
           \/ hist'.power = hist.power + 1 /\ hist.power # Never
              /\ ~(hist.power >= MaintainTime)
    BY SMT, <1>0, <2>3 DEF Older, Powered, Powering
  <2>6. \/ hist'.power = Never \/ hist'.power >= MaintainTime
        \/ mp.maintain + advance_millis(polled') <= hist'.power + TickGap
    BY SMT, <1>0, <2>4, <2>5 DEF Powered, Powering
  <2> QED  BY <2>1, <2>4, <2>5, <2>6, <1>p DEF Powered, Powering
<1>8. CASE ClockJumps
  <2>1. PICK d \in 1 .. MaxBack : polled' = Rewound(polled, d)
    BY <1>8 DEF ClockJumps
  <2>2. mp' = mp /\ hist' = hist
    BY <1>8 DEF ClockJumps
  <2>3. /\ polled' \in Int /\ advance_millis(polled') \in Nat /\ advance_millis(polled) \in Nat
        /\ advance_millis(polled') <= advance_millis(polled)
    BY SMT, <1>0, <2>1, ClockAssumption DEF Rewound, advance_millis, millis_since, Never
  <2> QED  BY SMT, <1>0, <2>2, <2>3, <1>p DEF Powered, Powering
<1>9. CASE UNCHANGED vars
  BY <1>1, <1>9 DEF vars
<1> QED
  BY <1>2, <1>3, <1>4, <1>5, <1>6, <1>7, <1>8, <1>9 DEF Next, World

\* A pump: power ends only when nobody has asked for it of late or the
\* longest extension is over, and then TIM is told in the same pump.
LEMMA PumpPowers ==
  ASSUME Inv, Owed, Powered, Pump
  PROVE  /\ Powered'
         /\ mp.state # "PowerOff" /\ mp'.state = "PowerOff" =>
              /\ \/ hist.power = Never \/ hist.power >= MaintainTime - TickGap
                 \/ mp'.shutdown >= MaxExtension
              /\ TickGap < ShutdownMin \/ TickGap < MaintainTime =>
                   (Has("Tim") => tim'.safe)
<1>1. PICK health, now, k : Tick(health, now, k)
  BY DEF Pump
<1>2. /\ mp' = PowerOnTick(mp, advance_millis(polled)).mp /\ polled' = Advanced(polled)
      /\ \E onBus, dropped : hist' = [hist EXCEPT !.onBus = onBus, !.dropped = dropped]
  BY <1>1 DEF Tick, Transmitted
<1>3. /\ HistFields \subseteq DOMAIN hist /\ lag \in 0 .. TickGap /\ polled <= lag
      /\ Polling'
  <2>1. Polling /\ HistFields \subseteq DOMAIN hist
    BY DEF Owed, Owing, Powered
  <2>2. [Next]_vars
    BY DEF Next
  <2>3. Polling'
    BY ONLY <2>1, <2>2, StepPolls
  <2> QED  BY ONLY <2>1, <2>3 DEF Polling
<1>4. hist'.power = hist.power
  BY <1>2, <1>3 DEF HistFields
<1>5. /\ Powering(mp', polled', hist.power)
      /\ mp.state # "PowerOff" /\ mp'.state = "PowerOff" =>
           /\ \/ hist.power = Never \/ hist.power >= MaintainTime - TickGap
              \/ mp'.shutdown >= MaxExtension
           /\ TickGap < ShutdownMin \/ TickGap < MaintainTime =>
                Some(PowerOnTick(mp, advance_millis(polled)).events, SafeModeEvent)
  BY <1>2, <1>3, PowerTicks DEF Powered
<1>6. Some(PowerOnTick(mp, advance_millis(polled)).events, SafeModeEvent) /\ Has("Tim") =>
        tim'.safe
  BY <1>1, PumpTells
<1> QED  BY <1>3, <1>4, <1>5, <1>6 DEF Powered

\* Power is held as long as it was asked for, and its end sends TIM into safe
\* mode, on a host that pumps more often than a shutdown takes.
THEOREM PowerStaysOn ==
  ASSUME TickGap < ShutdownMin \/ TickGap < MaintainTime
  PROVE  Spec => PowerIsHeld
<1>1. Init => Powered
  <2> SUFFICES ASSUME Init PROVE Powered
    OBVIOUS
  <2>1. /\ PowerFields \subseteq DOMAIN mp /\ mp.state = "Running" /\ mp.shutdown = 0
        /\ mp.maintain = 0 /\ mp.told = "Running" /\ polled = Never /\ hist.power = Never
    BY DEF Init, NewPower, NewHistory, PowerFields
  <2>2. Polling
    BY SMT, <2>1, SessionAssumption DEF Init, Polling, Never
  <2> QED  BY SMT, <2>1, <2>2 DEF Powered, Powering, PowerState, Never
<1>2. Inv /\ Owed /\ Powered /\ [Next]_vars =>
        /\ Powered'
        /\ [mp.state # "PowerOff" /\ mp'.state = "PowerOff" =>
              /\ \/ hist.power = Never \/ hist.power >= MaintainTime - TickGap
                 \/ mp'.shutdown >= MaxExtension
              /\ Has("Tim") => tim'.safe]_vars
  BY PumpPowers, OthersPower
<1> QED  BY <1>1, <1>2, Invariance, DebtsAreKept, PTL DEF Spec, PowerIsHeld
==============================================================================
