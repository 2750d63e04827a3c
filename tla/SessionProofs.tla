---------------------------- MODULE SessionProofs ----------------------------
(***************************************************************************)
(* Proof that a session implements SafeStop (SafelyStops), for every set   *)
(* of plugins, every traffic and all timing constants; and that a lost     *)
(* address and a faulty heartbeat stop it in the call that finds them.     *)
(*                                                                         *)
(* The invariant is about AutoDrive, its mirror of the GNSS hazards, and   *)
(* the GNSS plugin.  That a mirror is exact needs the events of a call in  *)
(* their order: the first lemmas are about sequences of events.            *)
(***************************************************************************)
EXTENDS SessionShapes, WellFoundedInduction, TLAPS

\* Most leaves are first-order; those with arithmetic or sequences cite SMT.
USE Zenon

-----------------------------------------------------------------------------
(* Sequences of events.                                                    *)

EventName == StopEvent \cup {"FixRestored", "Position", "PowerOff"}

\* A nonempty set of positions has a largest one.
LEMMA LargestPosition ==
  ASSUME NEW n \in Nat, NEW S \in SUBSET (1 .. n), S # {}
  PROVE  Max(S) \in S /\ \A j \in S : Max(S) >= j
<1> DEFINE T == {n - i : i \in S}
<1>1. T \subseteq Nat /\ T # {}
  <2>1. \A i \in S : n - i \in Nat
    BY SMT
  <2>2. PICK i \in S : TRUE
    OBVIOUS
  <2>3. n - i \in T
    OBVIOUS
  <2> QED  BY <2>1, <2>3
<1>2. PICK x \in T : \A y \in T : ~(<<y, x>> \in OpToRel(<, Nat))
  BY <1>1, NatLessThanWellFounded, WFMin, Zenon
<1>3. \A y \in T : x <= y
  <2> SUFFICES ASSUME NEW y \in T, y < x PROVE FALSE
    BY SMT, <1>1
  <2>1. <<y, x>> \in Nat \X Nat /\ <<y, x>>[1] < <<y, x>>[2]
    BY <1>1
  <2>2. <<y, x>> \in OpToRel(<, Nat)
    BY <2>1 DEF OpToRel
  <2> QED  BY <1>2, <2>2
<1>4. \A j \in S : n - x >= j
  <2> TAKE j \in S
  <2>1. x <= n - j
    BY <1>3
  <2>2. x \in Nat /\ j \in Nat
    BY SMT, <1>1
  <2> HIDE DEF T
  <2> QED  BY SMT, <2>1, <2>2
<1>5. n - x \in S
  BY SMT, <1>1
<1>6. \E i \in S : \A j \in S : i >= j
  BY <1>4, <1>5
<1>7. Max(S) = CHOOSE i \in S : \A j \in S : i >= j
  BY Zenon DEF Max
<1> QED  BY <1>6, <1>7, Zenon

\* A batch has an event of a kind.
Some(s, K) == \E i \in DOMAIN s : s[i] \in K

\* A batch of events followed by another.
LEMMA SomeOfBoth ==
  ASSUME NEW s \in Seq(EventName), NEW t \in Seq(EventName), NEW K
  PROVE  /\ s \o t \in Seq(EventName)
         /\ Some(s \o t, K) <=> Some(s, K) \/ Some(t, K)
<1>1. s \o t \in Seq(EventName)
  BY SMT
<1>2. ASSUME Some(s, K) PROVE Some(s \o t, K)
  BY SMT, <1>2 DEF Some
<1>3. ASSUME Some(t, K) PROVE Some(s \o t, K)
  <2>1. PICK i \in DOMAIN t : t[i] \in K
    BY <1>3 DEF Some
  <2>2. Len(s) + i \in DOMAIN (s \o t) /\ (s \o t)[Len(s) + i] = t[i]
    BY SMT
  <2> QED  BY <2>1, <2>2 DEF Some
<1>4. ASSUME Some(s \o t, K), ~Some(s, K) PROVE Some(t, K)
  <2>1. PICK i \in DOMAIN (s \o t) : (s \o t)[i] \in K
    BY <1>4 DEF Some
  <2>2. i \in DOMAIN s => (s \o t)[i] = s[i]
    BY SMT
  <2>3. i \notin DOMAIN s
    BY <1>4, <2>1, <2>2 DEF Some
  <2>4. i - Len(s) \in DOMAIN t /\ (s \o t)[i] = t[i - Len(s)]
    BY SMT, <2>3
  <2> QED  BY <2>1, <2>4 DEF Some
<1> QED  BY <1>1, <1>2, <1>3, <1>4

\* The last event of a kind is one of the batch.
LEMMA LastIsOne ==
  ASSUME NEW E, NEW s \in Seq(E), NEW K, "none" \notin K
  PROVE  \/ /\ LastOf(s, K) = "none"
            /\ \A i \in DOMAIN s : s[i] \notin K
         \/ /\ LastOf(s, K) \in K
            /\ \E i \in DOMAIN s :
                 /\ LastOf(s, K) = s[i]
                 /\ \A j \in DOMAIN s : s[j] \in K => j <= i
<1> DEFINE at == {i \in DOMAIN s : s[i] \in K}
<1>1. CASE at = {}
  BY <1>1 DEF LastOf
<1>2. CASE at # {}
  <2>1. at \in SUBSET (1 .. Len(s)) /\ Len(s) \in Nat
    BY SMT
  <2>2. Max(at) \in at /\ \A j \in at : Max(at) >= j
    BY <1>2, <2>1, LargestPosition
  <2>3. LastOf(s, K) = s[Max(at)]
    BY <1>2 DEF LastOf
  <2> QED  BY <2>1, <2>2, <2>3
<1> QED  BY <1>1, <1>2

\* The last event of a kind in two batches.
LEMMA LastOfBoth ==
  ASSUME NEW s \in Seq(EventName), NEW t \in Seq(EventName),
         NEW K \in SUBSET EventName, "none" \notin K
  PROVE  LastOf(s \o t, K) =
           IF LastOf(t, K) # "none" THEN LastOf(t, K) ELSE LastOf(s, K)
<1> DEFINE u == s \o t
<1>1. /\ u \in Seq(EventName) /\ Len(u) = Len(s) + Len(t)
      /\ \A i \in DOMAIN s : i \in DOMAIN u /\ u[i] = s[i]
      /\ \A i \in DOMAIN t : Len(s) + i \in DOMAIN u /\ u[Len(s) + i] = t[i]
      /\ \A i \in DOMAIN u : \/ i \in DOMAIN s
                             \/ i > Len(s) /\ i - Len(s) \in DOMAIN t
  BY SMT
<1> HIDE DEF u
<1>2. CASE LastOf(t, K) # "none"
  <2>1. LastOf(t, K) \in K
    BY <1>2, LastIsOne
  <2>2. PICK i \in DOMAIN t : /\ LastOf(t, K) = t[i]
                              /\ \A j \in DOMAIN t : t[j] \in K => j <= i
    BY <1>2, LastIsOne
  <2>3. u[Len(s) + i] \in K /\ Len(s) + i \in DOMAIN u
    BY <1>1, <2>1, <2>2
  <2>4. LastOf(u, K) # "none"
    BY <1>1, <2>3, LastIsOne
  <2>5. PICK k \in DOMAIN u : /\ LastOf(u, K) = u[k]
                              /\ \A j \in DOMAIN u : u[j] \in K => j <= k
    BY <1>1, <2>4, LastIsOne
  <2>6. u[k] \in K
    BY <1>1, <2>4, <2>5, LastIsOne
  <2>7. k >= Len(s) + i
    BY <2>3, <2>5
  <2>8. k - Len(s) \in DOMAIN t /\ u[k] = t[k - Len(s)]
    <3>1. k \notin DOMAIN s
      BY SMT, <2>7
    <3>2. k - Len(s) \in DOMAIN t
      BY <1>1, <3>1
    <3>3. Len(s) + (k - Len(s)) = k
      BY SMT, <1>1
    <3> QED  BY <1>1, <3>2, <3>3
  <2>9. k - Len(s) <= i
    BY <2>2, <2>6, <2>8
  <2>10. k - Len(s) = i
    BY SMT, <2>7, <2>9, <1>1
  <2> QED  BY <1>2, <2>2, <2>5, <2>8, <2>10 DEF u
<1>3. CASE LastOf(t, K) = "none"
  <2>1. \A i \in DOMAIN t : t[i] \notin K
    BY <1>3, LastIsOne
  <2>2. \A i \in DOMAIN u : u[i] \in K => i \in DOMAIN s
    <3> SUFFICES ASSUME NEW i \in DOMAIN u, i \notin DOMAIN s PROVE u[i] \notin K
      OBVIOUS
    <3>1. i - Len(s) \in DOMAIN t /\ Len(s) + (i - Len(s)) = i
      BY SMT, <1>1
    <3> QED  BY <1>1, <2>1, <3>1
  <2>3. {i \in DOMAIN u : u[i] \in K} = {i \in DOMAIN s : s[i] \in K}
    BY <1>1, <2>2
  <2>4. \A m \in {i \in DOMAIN s : s[i] \in K} : u[m] = s[m]
    BY <1>1
  <2>5. LastOf(u, K) = LastOf(s, K)
    <3> DEFINE at == {i \in DOMAIN s : s[i] \in K}
    <3>1. CASE at = {}
      BY <2>3, <3>1 DEF LastOf
    <3>2. CASE at # {}
      <4>1. at \in SUBSET (1 .. Len(s)) /\ Len(s) \in Nat
        BY SMT
      <4>2. Max(at) \in at
        BY <3>2, <4>1, LargestPosition
      <4>3. LastOf(s, K) = s[Max(at)] /\ LastOf(u, K) = u[Max(at)]
        BY <2>3, <3>2 DEF LastOf
      <4> QED  BY <2>4, <4>2, <4>3
    <3> QED  BY <3>1, <3>2
  <2> QED  BY <1>3, <2>5 DEF u
<1> QED  BY <1>2, <1>3

-----------------------------------------------------------------------------
(* AutoDrive.                                                              *)

\* The latch and the status agree, and a latched stop is a halt.
Sound(a) ==
  /\ AdFields \subseteq DOMAIN a
  /\ a.stop \in BOOLEAN /\ a.isbAsserted \in BOOLEAN
  /\ a.positionStale \in BOOLEAN /\ a.fixDegraded \in BOOLEAN
  /\ a.stop <=> a.status = "Fault"
  /\ a.stop => a.setpoint = Halt

\* b is a, stopped; or as active as a and with no new reason to stop.
Follows(a, b) ==
  /\ Sound(b)
  /\ b.positionStale = a.positionStale /\ b.fixDegraded = a.fixDegraded
  /\ \/ b.stop
     \/ /\ ~a.stop
        /\ IsActive(b) <=> IsActive(a)
        /\ b.isbAsserted => a.isbAsserted

\* Follows is reflexive.
LEMMA FollowsItself ==
  ASSUME NEW a, Sound(a) PROVE Follows(a, a)
BY DEF Sound, Follows

\* Follows is transitive.
LEMMA FollowsOn ==
  ASSUME NEW a, NEW b, NEW c, Follows(a, b), Follows(b, c) PROVE Follows(a, c)
BY DEF Follows

\* Stop and TripAndStop set the flag, and change no hazard.
LEMMA StopFollows ==
  ASSUME NEW a, Sound(a)
  PROVE  /\ Follows(a, Stop(a)) /\ Stop(a).stop
         /\ Follows(a, TripAndStop(a)) /\ TripAndStop(a).stop
         /\ Stop(a).isbAsserted = a.isbAsserted
         /\ TripAndStop(a).isbAsserted = a.isbAsserted
BY DEF Sound, Follows, Stop, enter_safe_state, TripAndStop, AdFields

\* A report of the shortcut button: without permission it stops.
LEMMA ButtonFollows ==
  ASSUME NEW a, Sound(a), NEW permit \in BOOLEAN
  PROVE  Follows(a, OnShortcutButton(a, permit))
<1> DEFINE seen == [a EXCEPT !.isbSeen = 0, !.isbAsserted = ~permit]
<1>1. /\ Sound(seen) /\ seen.isbAsserted = ~permit
      /\ seen.positionStale = a.positionStale
      /\ seen.fixDegraded = a.fixDegraded
      /\ seen.stop = a.stop /\ seen.status = a.status
  BY DEF Sound, AdFields
<1>2. OnShortcutButton(a, permit) = IF permit THEN seen ELSE TripAndStop(seen)
  BY DEF OnShortcutButton
<1> HIDE DEF seen
<1>3. CASE permit
  BY <1>1, <1>2, <1>3 DEF Follows, Sound, IsActive
<1>4. CASE ~permit
  <2>1. Follows(seen, TripAndStop(seen)) /\ TripAndStop(seen).stop
    BY <1>1, StopFollows
  <2> QED  BY <1>1, <1>2, <1>4, <2>1 DEF Follows
<1> QED  BY <1>3, <1>4

\* A facilities report: it stops when the tractor offers no guidance.
LEMMA FacilitiesFollow ==
  ASSUME NEW a, Sound(a), NEW f
  PROVE  Follows(a, OnFacilities(a, f))
<1> DEFINE told == [a EXCEPT !.facilities = f]
<1>1. Follows(a, told) /\ Sound(told)
  BY DEF Sound, AdFields, Follows, IsActive
<1>2. OnFacilities(a, f) \in {told, TripAndStop(told)}
  BY DEF OnFacilities
<1> HIDE DEF told
<1>3. Follows(told, TripAndStop(told))
  BY <1>1, StopFollows
<1> QED  BY SMT, <1>1, <1>2, <1>3, FollowsOn

\* A machine info report: it stops on a violation and on an override.
LEMMA InfoFollows ==
  ASSUME NEW a, Sound(a), NEW info
  PROVE  Follows(a, OnMachineInfo(a, info))
<1> DEFINE heard == [a EXCEPT !.fit = info \notin Violation, !.lastInfo = 0,
                              !.linkAlive = TRUE]
           limited == [heard EXCEPT !.status = StatusOfLimit[info]]
<1>1. Follows(a, heard) /\ Sound(heard) /\ heard.stop = a.stop
  BY DEF Sound, AdFields, Follows, IsActive
<1>2. \/ OnMachineInfo(a, info) \in {heard, TripAndStop(heard)}
      \/ /\ OnMachineInfo(a, info) = limited
         /\ IsActive(a) /\ info \in DOMAIN StatusOfLimit
  BY DEF OnMachineInfo
<1>3. Follows(heard, TripAndStop(heard))
  BY <1>1, StopFollows
<1>4. ASSUME IsActive(a), info \in DOMAIN StatusOfLimit PROVE Follows(a, limited)
  <2>1. StatusOfLimit[info] \in Active
    BY <1>4 DEF StatusOfLimit, Active
  <2>2. ~a.stop /\ StatusOfLimit[info] # "Fault"
    BY <1>4, <2>1 DEF Sound, IsActive, Active
  <2> QED  BY <1>1, <1>4, <2>1, <2>2 DEF Follows, Sound, AdFields, IsActive
<1> HIDE DEF heard, limited
<1> QED  BY SMT, <1>1, <1>2, <1>3, <1>4, FollowsOn

\* The watchdogs of on_tick.
LEMMA WatchedFollows ==
  ASSUME NEW a, Sound(a)
  PROVE  Follows(a, Watched(a))
<1>1. ASSUME NEW b, Sound(b) PROVE Follows(b, WatchLink(b))
  <2> DEFINE alive == b.lastInfo # Never /\ millis_since(b.lastInfo) < LinkTimeout
             kept == [b EXCEPT !.linkAlive = alive]
  <2>1. Follows(b, kept) /\ Sound(kept)
    BY <1>1 DEF Sound, AdFields, Follows, IsActive
  <2>2. WatchLink(b) \in {kept, Stop(kept)}
    BY DEF WatchLink
  <2> HIDE DEF kept
  <2> QED  BY SMT, <2>1, <2>2, StopFollows, FollowsOn
<1>2. ASSUME NEW b, Sound(b) PROVE Follows(b, WatchButton(b))
  <2> DEFINE asserted == b.isbAsserted \/ Elapsed(b.isbSeen, IsbTimeout)
             kept == [b EXCEPT !.isbAsserted = asserted]
  <2>1. /\ Sound(kept) /\ kept.isbAsserted = asserted
        /\ kept.positionStale = b.positionStale
        /\ kept.fixDegraded = b.fixDegraded
        /\ kept.stop = b.stop /\ kept.status = b.status
    BY <1>2 DEF Sound, AdFields
  <2>2. WatchButton(b) = IF asserted THEN TripAndStop(kept) ELSE kept
    BY DEF WatchButton
  <2> HIDE DEF kept, asserted
  <2>3. Follows(kept, TripAndStop(kept)) /\ TripAndStop(kept).stop
    BY <2>1, StopFollows
  <2>4. CASE asserted
    BY <2>1, <2>2, <2>3, <2>4 DEF Follows
  <2>5. CASE ~asserted
    BY <1>2, <2>1, <2>2, <2>5 DEF Follows, Sound, IsActive
  <2> QED  BY <2>4, <2>5
<1>3. ASSUME NEW b, Sound(b) PROVE Follows(b, WatchCommands(b))
  <2> DEFINE kept == [b EXCEPT !.commanded = FALSE,
                               !.seqChanged = IF b.commanded THEN 0 ELSE @]
  <2>1. Follows(b, kept) /\ Sound(kept)
    BY <1>3 DEF Sound, AdFields, Follows, IsActive
  <2>2. WatchCommands(b) \in {kept, TripAndStop(kept)}
    BY DEF WatchCommands
  <2> HIDE DEF kept
  <2> QED  BY SMT, <2>1, <2>2, StopFollows, FollowsOn
<1> DEFINE b == WatchLink(a)
           c == WatchButton(b)
<1>4. Follows(a, b) /\ Sound(b)
  BY <1>1 DEF Follows
<1> HIDE DEF b
<1>5. Follows(b, c) /\ Sound(c)
  BY <1>2, <1>4 DEF Follows
<1> HIDE DEF c
<1>6. Follows(c, WatchCommands(c))
  BY <1>3, <1>5
<1>7. Follows(a, WatchCommands(c))
  BY <1>4, <1>5, <1>6, FollowsOn
<1> QED  BY <1>7 DEF Watched, b, c

\* A tick: it stops on a lost address, a silent tractor and a stale command.
LEMMA TickFollows ==
  ASSUME NEW a, Sound(a), NEW claimed
  PROVE  Follows(a, AutoDriveOnTick(a, claimed).ad)
<1> DEFINE w == Watched(a)
           sent == [w EXCEPT !.lastTx = 0, !.dirty = FALSE]
<1>1. Follows(a, w) /\ Sound(w)
  BY WatchedFollows DEF Follows
<1>2. AutoDriveOnTick(a, claimed).ad \in {w, sent}
  BY DEF AutoDriveOnTick
<1> HIDE DEF w
<1>3. Follows(w, sent)
  BY <1>1 DEF Follows, Sound, AdFields, IsActive
<1> QED  BY SMT, <1>1, <1>2, <1>3, FollowsOn

-----------------------------------------------------------------------------
(* Events.                                                                 *)

FixEvent == {"FixDegraded", "FixRestored"}
PositionEvent == {"PositionStale", "Position"}

\* A hazard flag after a batch of events, as Observe computes it.
FixAfter(flag, events) ==
  IF LastOf(events, FixEvent) = "none" THEN flag
  ELSE LastOf(events, FixEvent) = "FixDegraded"
PositionAfter(flag, events) ==
  IF LastOf(events, PositionEvent) = "none" THEN flag
  ELSE LastOf(events, PositionEvent) = "PositionStale"

\* What a batch of events makes of AutoDrive: no hazard is left standing
\* without a stop.
LEMMA EventsFollow ==
  ASSUME NEW a, Sound(a), HazardLive(a) => a.stop,
         NEW events \in Seq(EventName)
  PROVE  LET c == AutoDriveOnEvents(a, events)
         IN  /\ Sound(c)
             /\ c.fixDegraded = FixAfter(a.fixDegraded, events)
             /\ c.positionStale = PositionAfter(a.positionStale, events)
             /\ HazardLive(c) => c.stop
             /\ DemandsStop(events) => c.stop
             /\ c.stop \/ (~a.stop /\ (IsActive(c) <=> IsActive(a)))
<1> DEFINE o == Observe(a, events)
           c == AutoDriveOnEvents(a, events)
<1>1. /\ o.fixDegraded = FixAfter(a.fixDegraded, events)
      /\ o.positionStale = PositionAfter(a.positionStale, events)
      /\ o.isbAsserted = a.isbAsserted
      /\ o.stop = a.stop /\ o.status = a.status /\ Sound(o)
  BY DEF Observe, Sound, AdFields, FixAfter, PositionAfter, FixEvent, PositionEvent
<1>2. c = IF DemandsStop(events) THEN TripAndStop(o) ELSE o
  BY DEF AutoDriveOnEvents
<1> HIDE DEF o, c
<1>3. CASE DemandsStop(events)
  <2>1. Follows(o, TripAndStop(o)) /\ TripAndStop(o).stop
    BY <1>1, StopFollows
  <2>2. c.stop /\ Sound(c) /\ c.fixDegraded = o.fixDegraded
        /\ c.positionStale = o.positionStale
    BY <1>2, <1>3, <2>1 DEF Follows
  <2> QED  BY <1>1, <2>2 DEF c
<1>4. CASE ~DemandsStop(events)
  <2>1. /\ \A i \in DOMAIN events : events[i] # "FixDegraded"
        /\ \A i \in DOMAIN events : events[i] # "PositionStale"
    BY <1>4 DEF DemandsStop, StopEvent
  <2>2. LastOf(events, FixEvent) # "FixDegraded"
    <3>1. FixEvent \in SUBSET EventName /\ "none" \notin FixEvent
      BY DEF FixEvent, EventName, StopEvent
    <3> QED  BY <2>1, <3>1, LastIsOne
  <2>3. LastOf(events, PositionEvent) # "PositionStale"
    <3>1. PositionEvent \in SUBSET EventName /\ "none" \notin PositionEvent
      BY DEF PositionEvent, EventName, StopEvent
    <3> QED  BY <2>1, <3>1, LastIsOne
  <2>4. c = o
    BY <1>2, <1>4
  <2>5. /\ o.fixDegraded => a.fixDegraded
        /\ o.positionStale => a.positionStale
    BY <1>1, <2>2, <2>3 DEF FixAfter, PositionAfter
  <2>6. HazardLive(c) => c.stop
    BY <1>1, <2>4, <2>5 DEF HazardLive
  <2>7. c.stop \/ (~a.stop /\ (IsActive(c) <=> IsActive(a)))
    BY <1>1, <2>4 DEF IsActive
  <2>8. /\ Sound(c)
        /\ c.fixDegraded = FixAfter(a.fixDegraded, events)
        /\ c.positionStale = PositionAfter(a.positionStale, events)
    BY <1>1, <2>4
  <2> QED  BY <1>4, <2>6, <2>7, <2>8 DEF c
<1> QED  BY <1>3, <1>4

\* A call that raises no event of the GNSS plugin.
Silent(s) ==
  s \in Seq(EventName) /\ \A i \in DOMAIN s : s[i] \notin FixEvent \cup PositionEvent

\* A silent batch has no last event of the GNSS plugin.
LEMMA SilentLast ==
  ASSUME NEW s, Silent(s), NEW K, K = FixEvent \/ K = PositionEvent
  PROVE  LastOf(s, K) = "none"
<1>1. K \in SUBSET EventName /\ "none" \notin K /\ K \subseteq FixEvent \cup PositionEvent
  BY DEF FixEvent, PositionEvent, EventName, StopEvent
<1> QED  BY <1>1, LastIsOne DEF Silent

\* Two silent batches make a silent one.
LEMMA SilentBoth ==
  ASSUME NEW s, NEW t, Silent(s), Silent(t) PROVE Silent(s \o t)
<1>1. s \o t \in Seq(EventName)
  BY SMT DEF Silent
<1>2. ASSUME NEW i \in DOMAIN (s \o t)
      PROVE  (s \o t)[i] \notin FixEvent \cup PositionEvent
  <2>1. CASE i \in DOMAIN s
    BY SMT, <2>1 DEF Silent
  <2>2. CASE i \notin DOMAIN s
    <3>1. i - Len(s) \in DOMAIN t /\ (s \o t)[i] = t[i - Len(s)]
      BY SMT, <2>2 DEF Silent
    <3> QED  BY <3>1 DEF Silent
  <2> QED  BY <2>1, <2>2
<1> QED  BY <1>1, <1>2 DEF Silent

\* Batches of at most one event.
LEMMA ShortBatch ==
  /\ << >> \in Seq(EventName)
  /\ \A e \in EventName : <<e>> \in Seq(EventName)
  /\ {"FixDegraded", "FixRestored", "Position", "PositionStale"} \subseteq EventName
<1>1. /\ << >> \in Seq(EventName)
      /\ \A e \in EventName : <<e>> \in Seq(EventName)
  BY SMT
<1>2. {"FixDegraded", "FixRestored", "Position", "PositionStale"} \subseteq EventName
  BY DEF EventName, StopEvent
<1> QED  BY <1>1, <1>2

\* The last event of a batch of at most one.
LEMMA ShortLast ==
  ASSUME NEW K \in SUBSET EventName, "none" \notin K, NEW e \in EventName
  PROVE  /\ LastOf(<< >>, K) = "none"
         /\ LastOf(<<e>>, K) = IF e \in K THEN e ELSE "none"
<1>1. << >> \in Seq(EventName) /\ <<e>> \in Seq(EventName)
  BY SMT
<1>2. DOMAIN <<e>> = {1} /\ <<e>>[1] = e /\ DOMAIN << >> = {}
  BY SMT
<1>3. LastOf(<< >>, K) = "none"
  BY <1>1, <1>2, LastIsOne
<1>4. LastOf(<<e>>, K) = IF e \in K THEN e ELSE "none"
  <2> DEFINE s == <<e>>
  <2>1. s \in Seq(EventName) /\ \A i \in DOMAIN s : s[i] = e
    BY <1>1, <1>2
  <2>2. 1 \in DOMAIN s
    BY SMT
  <2> HIDE DEF s
  <2>3. LastOf(s, K) = IF e \in K THEN e ELSE "none"
    BY SMT, <2>1, <2>2, LastIsOne
  <2> QED  BY <2>3 DEF s
<1> QED  BY <1>3, <1>4

GnOK(g) ==
  /\ GnFields \subseteq DOMAIN g
  /\ g.positionStale \in BOOLEAN /\ g.fixDegraded \in BOOLEAN
  /\ g.qualityStale \in BOOLEAN /\ g.steerable \in BOOLEAN

\* The events of the GNSS plugin tell its flags.
Tells(g, r) ==
  /\ r.events \in Seq(EventName) /\ GnOK(r.gn)
  /\ r.gn.fixDegraded = FixAfter(g.fixDegraded, r.events)
  /\ r.gn.positionStale = PositionAfter(g.positionStale, r.events)

\* A position tells the hazards it changes.
LEMMA PositionTells ==
  ASSUME NEW g, GnOK(g), NEW withQuality \in BOOLEAN, NEW steerable \in BOOLEAN
  PROVE  Tells(g, GnssOnPosition(g, withQuality, steerable))
<1> DEFINE stale == g.qualityStale /\ ~withQuality
           fix == IF withQuality THEN steerable ELSE g.steerable
           usable == ~stale /\ fix
           r == GnssOnPosition(g, withQuality, steerable)
           first == IF ~usable /\ ~g.fixDegraded THEN <<"FixDegraded">>
                    ELSE IF usable /\ g.fixDegraded THEN <<"FixRestored">>
                    ELSE << >>
           last == <<"Position">>
<1>1. stale \in BOOLEAN /\ fix \in BOOLEAN /\ usable \in BOOLEAN
  BY DEF GnOK
<1>2. /\ GnOK(r.gn) /\ r.gn.fixDegraded = ~usable /\ r.gn.positionStale = FALSE
      /\ r.events = first \o last
  <2>1. r.gn.fixDegraded = ~usable /\ r.gn.positionStale = FALSE
        /\ r.gn.qualityStale = stale /\ r.gn.steerable = fix
        /\ DOMAIN r.gn = DOMAIN g
    BY DEF GnssOnPosition, GnOK, GnFields
  <2>2. GnOK(r.gn)
    BY <1>1, <2>1 DEF GnOK
  <2>3. r.events = first \o last
    BY <1>1 DEF GnssOnPosition
  <2> QED  BY <2>1, <2>2, <2>3
<1> HIDE DEF r, usable, stale, fix
<1>3. /\ FixEvent \in SUBSET EventName /\ "none" \notin FixEvent
      /\ PositionEvent \in SUBSET EventName /\ "none" \notin PositionEvent
  BY DEF FixEvent, PositionEvent, EventName, StopEvent
<1>4. first \in Seq(EventName) /\ last \in Seq(EventName)
  BY ShortBatch
<1>5. LastOf(last, FixEvent) = "none"
  BY <1>3, ShortLast DEF FixEvent, EventName, StopEvent
<1>6. LastOf(last, PositionEvent) = "Position"
  BY <1>3, ShortLast DEF PositionEvent, EventName, StopEvent
<1>7. LastOf(first, FixEvent) =
        IF ~usable /\ ~g.fixDegraded THEN "FixDegraded"
        ELSE IF usable /\ g.fixDegraded THEN "FixRestored" ELSE "none"
  <2>1. LastOf(<<"FixDegraded">>, FixEvent) = "FixDegraded"
    BY SMT, <1>3, ShortLast DEF FixEvent, EventName, StopEvent
  <2>2. LastOf(<<"FixRestored">>, FixEvent) = "FixRestored"
    BY <1>3, ShortLast DEF FixEvent, EventName, StopEvent
  <2>3. LastOf(<< >>, FixEvent) = "none"
    BY <1>3, ShortLast DEF EventName, StopEvent
  <2> QED  BY <2>1, <2>2, <2>3
<1> HIDE DEF first, last
<1>8. LastOf(r.events, FixEvent) = LastOf(first, FixEvent)
  BY SMT, <1>2, <1>3, <1>4, <1>5, LastOfBoth
<1>9. LastOf(r.events, PositionEvent) = "Position"
  BY SMT, <1>2, <1>3, <1>4, <1>6, LastOfBoth
<1>10. r.gn.fixDegraded = FixAfter(g.fixDegraded, r.events)
  BY <1>1, <1>2, <1>7, <1>8 DEF FixAfter, GnOK
<1>11. r.gn.positionStale = PositionAfter(g.positionStale, r.events)
  BY <1>2, <1>9 DEF PositionAfter
<1>12. r.events \in Seq(EventName)
  BY SMT, <1>2, <1>4
<1> QED  BY <1>2, <1>10, <1>11, <1>12 DEF Tells, r

\* A tick of the GNSS plugin tells the hazards it changes.
LEMMA GnssTickTells ==
  ASSUME NEW g, GnOK(g)
  PROVE  Tells(g, GnssOnTick(g))
<1> DEFINE lost == ~g.positionStale /\ Elapsed(g.lastPosition, PositionTimeout)
           old == ~g.qualityStale /\ Elapsed(g.lastQuality, QualityTimeout)
           r == GnssOnTick(g)
           first == IF lost THEN <<"PositionStale">> ELSE << >>
           second == IF old /\ ~g.fixDegraded THEN <<"FixDegraded">> ELSE << >>
<1>1. lost \in BOOLEAN /\ old \in BOOLEAN
  BY DEF Elapsed
<1>2. /\ r.gn.fixDegraded = (g.fixDegraded \/ old)
      /\ r.gn.positionStale = (g.positionStale \/ lost)
      /\ r.gn.qualityStale = (g.qualityStale \/ old)
      /\ r.gn.steerable = g.steerable
      /\ DOMAIN r.gn = DOMAIN g
      /\ r.events = first \o second
  BY DEF GnssOnTick, GnOK, GnFields
<1> HIDE DEF r, lost, old
<1>3. GnOK(r.gn)
  BY <1>1, <1>2 DEF GnOK
<1>4. /\ FixEvent \in SUBSET EventName /\ "none" \notin FixEvent
      /\ PositionEvent \in SUBSET EventName /\ "none" \notin PositionEvent
  BY DEF FixEvent, PositionEvent, EventName, StopEvent
<1>5. first \in Seq(EventName) /\ second \in Seq(EventName)
  BY ShortBatch
<1>6. /\ LastOf(first, FixEvent) = "none"
      /\ LastOf(first, PositionEvent) = IF lost THEN "PositionStale" ELSE "none"
  BY SMT, <1>4, ShortLast DEF FixEvent, PositionEvent, EventName, StopEvent
<1>7. /\ LastOf(second, PositionEvent) = "none"
      /\ LastOf(second, FixEvent) =
           IF old /\ ~g.fixDegraded THEN "FixDegraded" ELSE "none"
  BY SMT, <1>4, ShortLast DEF FixEvent, PositionEvent, EventName, StopEvent
<1> HIDE DEF first, second
<1>8. LastOf(r.events, FixEvent) =
        IF old /\ ~g.fixDegraded THEN "FixDegraded" ELSE "none"
  BY SMT, <1>2, <1>4, <1>5, <1>6, <1>7, LastOfBoth
<1>9. LastOf(r.events, PositionEvent) = IF lost THEN "PositionStale" ELSE "none"
  BY SMT, <1>2, <1>4, <1>5, <1>6, <1>7, LastOfBoth
<1>10. r.gn.fixDegraded = FixAfter(g.fixDegraded, r.events)
  BY <1>1, <1>2, <1>8 DEF FixAfter, GnOK
<1>11. r.gn.positionStale = PositionAfter(g.positionStale, r.events)
  BY <1>1, <1>2, <1>9 DEF PositionAfter, GnOK
<1>12. r.events \in Seq(EventName)
  BY SMT, <1>2, <1>5
<1> QED  BY <1>3, <1>10, <1>11, <1>12 DEF Tells, r

\* Events of other plugins, before or after, leave the mirror alone.
LEMMA SilentKeeps ==
  ASSUME NEW u \in Seq(EventName), NEW t, Silent(t), NEW flag
  PROVE  /\ FixAfter(flag, t) = flag /\ PositionAfter(flag, t) = flag
         /\ u \o t \in Seq(EventName) /\ t \o u \in Seq(EventName)
         /\ FixAfter(flag, u \o t) = FixAfter(flag, u)
         /\ PositionAfter(flag, u \o t) = PositionAfter(flag, u)
         /\ FixAfter(flag, t \o u) = FixAfter(flag, u)
         /\ PositionAfter(flag, t \o u) = PositionAfter(flag, u)
<1>1. t \in Seq(EventName)
  BY DEF Silent
<1>2. ASSUME NEW K, K = FixEvent \/ K = PositionEvent
      PROVE  /\ LastOf(t, K) = "none"
             /\ LastOf(u \o t, K) = LastOf(u, K)
             /\ LastOf(t \o u, K) = LastOf(u, K)
  <2>1. K \in SUBSET EventName /\ "none" \notin K
    BY <1>2 DEF FixEvent, PositionEvent, EventName, StopEvent
  <2>2. LastOf(t, K) = "none"
    BY <1>2, SilentLast
  <2> QED  BY <1>1, <2>1, <2>2, LastOfBoth
<1>3. u \o t \in Seq(EventName) /\ t \o u \in Seq(EventName)
  BY SMT, <1>1
<1> QED  BY <1>2, <1>3 DEF FixAfter, PositionAfter

\* Two batches that say the same of the receiver.
Alike(s, u) ==
  \A flag : /\ FixAfter(flag, s) = FixAfter(flag, u)
            /\ PositionAfter(flag, s) = PositionAfter(flag, u)

\* What is silent adds nothing, before another batch or after it.
LEMMA SilentAdds ==
  ASSUME NEW u \in Seq(EventName), NEW t, Silent(t)
  PROVE  Alike(u \o t, u) /\ Alike(t \o u, u)
<1> SUFFICES ASSUME NEW flag
             PROVE  /\ FixAfter(flag, u \o t) = FixAfter(flag, u)
                    /\ PositionAfter(flag, u \o t) = PositionAfter(flag, u)
                    /\ FixAfter(flag, t \o u) = FixAfter(flag, u)
                    /\ PositionAfter(flag, t \o u) = PositionAfter(flag, u)
  BY DEF Alike
<1> QED  BY SMT, SilentKeeps

\* Alike is transitive.
LEMMA AlikeThrough ==
  ASSUME NEW s, NEW u, NEW v, Alike(s, u), Alike(u, v)
  PROVE  Alike(s, v)
BY DEF Alike

\* The plugins other than Gnss, the clock and the claim are silent.
LEMMA OthersAreSilent ==
  /\ Silent(ClockEvents)
  /\ \A now : Silent(ClaimEvents(now))
  /\ \A before, byte, after : Silent(FaultEvents(before, byte, after))
  /\ \A r, elapsed : Silent(HeartbeatOnTick(r, elapsed).events)
  /\ \A p : Silent(Tell(p).events)
  /\ Silent(<< >>) /\ Silent(<<"KeyOff">>) /\ Silent(<<"FailSafe">>)
<1>1. /\ Silent(<< >>) /\ Silent(<<"ClockWentBackwards">>)
      /\ Silent(<<"ClaimLost">>) /\ Silent(<<"HeartbeatFault">>)
      /\ Silent(<<"PowerOff">>) /\ Silent(<<"KeyOff">>) /\ Silent(<<"FailSafe">>)
  <2>1. Silent(<< >>)
    BY SMT DEF Silent
  <2>2. ASSUME NEW e \in EventName \ (FixEvent \cup PositionEvent)
        PROVE  Silent(<<e>>)
    BY SMT, <2>2 DEF Silent
  <2>3. {"ClockWentBackwards", "ClaimLost", "HeartbeatFault", "PowerOff",
         "KeyOff", "FailSafe"} \subseteq EventName \ (FixEvent \cup PositionEvent)
    BY DEF EventName, StopEvent, FixEvent, PositionEvent
  <2> QED  BY <2>1, <2>2, <2>3
<1>2. Silent(ClockEvents)
  BY <1>1, Zenon DEF ClockEvents
<1>3. \A now : Silent(ClaimEvents(now))
  BY <1>1, Zenon DEF ClaimEvents
<1>4. \A before, byte, after : Silent(FaultEvents(before, byte, after))
  BY <1>1, Zenon DEF FaultEvents
<1>5. \A r, elapsed : HeartbeatOnTick(r, elapsed).events
                        \in {<< >>, <<"HeartbeatFault">>}
  BY DEF HeartbeatOnTick
<1>6. \A p : Tell(p).events \in {<< >>, <<"PowerOff">>}
  BY DEF Tell
<1> QED  BY <1>1, <1>2, <1>3, <1>4, <1>5, <1>6

-----------------------------------------------------------------------------
(* The invariant.                                                          *)

Mirrored ==
  Has("AutoDrive") =>
    /\ ad.positionStale = gn.positionStale /\ ad.fixDegraded = gn.fixDegraded
    /\ HazardLive(ad) => ad.stop

Inv ==
  /\ Sound(ad) /\ GnOK(gn) /\ Mirrored
  /\ HbFields \subseteq DOMAIN hb
  /\ TimFields \subseteq DOMAIN tim
  /\ PeerFields \subseteq DOMAIN peer /\ peer.sequence \in Nat

\* What a call of the host does: AutoDrive is stopped, or as active as it
\* was; and its hazards stop it.
HostCall ==
  /\ Sound(ad') /\ GnOK(gn') /\ Mirrored'
  /\ TimFields \subseteq DOMAIN tim'
  /\ persona' = persona
  /\ ad'.stop \/ (~ad.stop /\ (IsActive(ad') <=> IsActive(ad)))

\* Dispatching the events of a call keeps the mirror exact, and stops
\* whenever one of them is a stop event.
LEMMA Dispatched ==
  ASSUME Inv, persona' = persona,
         NEW a, Follows(ad, a), Has("AutoDrive") \/ a = ad,
         NEW t, TimFields \subseteq DOMAIN t,
         NEW events \in Seq(EventName),
         Dispatch(a, t, events),
         GnOK(gn'), gn'.fixDegraded = FixAfter(gn.fixDegraded, events),
         gn'.positionStale = PositionAfter(gn.positionStale, events)
  PROVE  /\ HostCall
         /\ Has("AutoDrive") /\ Some(events, StopEvent) => ad'.stop
         /\ Has("Tim") /\ Some(events, SafeModeEvent) => tim'.safe
<1>1. TimFields \subseteq DOMAIN tim'
      /\ (Has("Tim") /\ Some(events, SafeModeEvent) => tim'.safe)
  <2> DEFINE u == TimOnEvents(t, events).tim
  <2>1. u = IF Some(events, SafeModeEvent) /\ ~t.safe
              THEN [t EXCEPT !.safe = TRUE, !.pending = << >>] ELSE t
    BY DEF TimOnEvents, Some
  <2>2. DOMAIN u = DOMAIN t /\ (Some(events, SafeModeEvent) => u.safe)
    BY <2>1 DEF TimFields
  <2>3. tim' = IF Has("Tim") THEN u ELSE t
    BY DEF Dispatch
  <2> HIDE DEF u
  <2> QED  BY <2>2, <2>3
<1>2. CASE ~Has("AutoDrive")
  <2>1. ad' = ad
    BY <1>2 DEF Dispatch
  <2>2. Mirrored'
    BY <1>2 DEF Mirrored, Has
  <2>3. Sound(ad') /\ (ad'.stop \/ (~ad.stop /\ (IsActive(ad') <=> IsActive(ad))))
    BY <2>1 DEF Inv
  <2> QED  BY <1>1, <1>2, <2>2, <2>3 DEF HostCall
<1>3. CASE Has("AutoDrive")
  <2> DEFINE c == AutoDriveOnEvents(a, events)
  <2>1. Sound(a) /\ (HazardLive(a) => a.stop)
    BY <1>3 DEF Inv, Mirrored, Follows, HazardLive
  <2>2. /\ Sound(c)
        /\ c.fixDegraded = FixAfter(a.fixDegraded, events)
        /\ c.positionStale = PositionAfter(a.positionStale, events)
        /\ HazardLive(c) => c.stop
        /\ DemandsStop(events) => c.stop
        /\ c.stop \/ (~a.stop /\ (IsActive(c) <=> IsActive(a)))
    BY <2>1, EventsFollow
  <2> HIDE DEF c
  <2>3. ad' = c
    BY <1>3 DEF Dispatch, c
  <2>4. a.fixDegraded = gn.fixDegraded /\ a.positionStale = gn.positionStale
    BY <1>3 DEF Inv, Mirrored, Follows
  <2>5. Mirrored'
    BY <2>2, <2>3, <2>4 DEF Mirrored, HazardLive
  <2>6. c.stop \/ (~ad.stop /\ (IsActive(c) <=> IsActive(ad)))
    BY <2>2 DEF Follows
  <2>7. Some(events, StopEvent) => c.stop
    BY <2>2 DEF Some, DemandsStop
  <2> QED  BY <1>1, <2>2, <2>3, <2>5, <2>6, <2>7 DEF HostCall
<1> QED  BY <1>2, <1>3

-----------------------------------------------------------------------------
(* Calls of the host.                                                      *)

Halted ==
  /\ Has("AutoDrive") => ad'.stop
  /\ Has("Tim") => tim'.safe

ClaimStep == claim = "Claimed" /\ claim' # "Claimed" => Halted
BeatStep == hb'.state \notin {"Normal", hb.state} => Halted

\* The same for a frame that was fed.
LEMMA FedCall ==
  ASSUME Inv,
         NEW a, Follows(ad, a), Has("AutoDrive") \/ a = ad,
         NEW t, TimFields \subseteq DOMAIN t,
         NEW events \in Seq(EventName), NEW tx, NEW now,
         Fed(a, t, events, tx, now),
         GnOK(gn'), gn'.fixDegraded = FixAfter(gn.fixDegraded, events),
         gn'.positionStale = PositionAfter(gn.positionStale, events)
  PROVE  /\ HostCall /\ ClaimStep
         /\ Some(events, {"HeartbeatFault"}) => Halted
<1> DEFINE lost == ClaimEvents(now)
           all == (ClockEvents \o events) \o lost
<1>1. Silent(ClockEvents) /\ Silent(lost)
  BY OthersAreSilent
<1>2. /\ Dispatch(a, t, all) /\ persona' = persona /\ claim' = now
  BY DEF Fed
<1>3. ClockEvents \in Seq(EventName) /\ lost \in Seq(EventName)
  BY <1>1 DEF Silent
<1>4. ClockEvents \o events \in Seq(EventName) /\ all \in Seq(EventName)
  BY SMT, <1>3
<1>5. Alike(all, events)
  <2> DEFINE u == ClockEvents \o events
  <2>1. Alike(u, events)
    BY <1>1, SilentAdds
  <2>2. u \in Seq(EventName)
    BY <1>4
  <2> HIDE DEF u, lost
  <2>3. Alike(u \o lost, u)
    BY <1>1, <2>2, SilentAdds
  <2> QED  BY <2>1, <2>3, AlikeThrough DEF u
<1>6. \A K : Some(events, K) \/ Some(lost, K) => Some(all, K)
  BY <1>3, <1>4, SomeOfBoth
<1>7. claim = "Claimed" /\ now # "Claimed" =>
        Some(lost, StopEvent) /\ Some(lost, SafeModeEvent)
  BY SMT DEF ClaimEvents, Some, StopEvent, SafeModeEvent
<1>8. Some(events, {"HeartbeatFault"}) =>
        Some(events, StopEvent) /\ Some(events, SafeModeEvent)
  BY DEF Some, StopEvent, SafeModeEvent
<1> HIDE DEF all, lost
<1>9. /\ HostCall
      /\ Has("AutoDrive") /\ Some(all, StopEvent) => ad'.stop
      /\ Has("Tim") /\ Some(all, SafeModeEvent) => tim'.safe
  BY <1>2, <1>4, <1>5, Dispatched DEF Alike
<1> QED  BY <1>2, <1>6, <1>7, <1>8, <1>9 DEF ClaimStep, Halted

\* What a step must do: keep the invariant, implement SafeStop, and halt
\* when the address or the peer's heartbeat is lost.
GoodStep ==
  /\ Inv'
  /\ [Promise!Next]_<<Mode, Hazard>>
  /\ ClaimStep /\ BeatStep

\* A call that does what the host promises keeps the invariant.
LEMMA CallIsGood ==
  ASSUME Inv, HostCall, ClaimStep, BeatStep,
         HbFields \subseteq DOMAIN hb',
         PeerFields \subseteq DOMAIN peer', peer'.sequence \in Nat
  PROVE  GoodStep
<1>1. Inv'
  BY DEF Inv, HostCall
<1>2. Hazard \in BOOLEAN /\ Hazard' \in BOOLEAN
  BY DEF Hazard
<1>3. CASE ad'.stop
  <2>1. Mode' = "stopped"
    BY <1>3 DEF Mode
  <2> QED  BY <1>1, <1>2, <2>1 DEF GoodStep, Promise!Next, Promise!Stop
<1>4. CASE ~ad'.stop
  <2>1. Mode' = Mode
    BY <1>4 DEF HostCall, Mode
  <2>2. Hazard' = FALSE
    BY <1>4 DEF HostCall, Hazard, Mirrored, HazardLive, Has
  <2> QED  BY <1>1, <2>1, <2>2 DEF GoodStep, Promise!Next, Promise!Pass
<1> QED  BY <1>3, <1>4

\* A frame for AutoDrive alone.
LEMMA FeedAutoDriveIsGood ==
  ASSUME Inv, NEW a, Follows(ad, a), FeedAutoDrive(a)
  PROVE  GoodStep
<1>1. /\ Has("AutoDrive") /\ Fed(a, tim, << >>, << >>, claim)
      /\ gn' = gn /\ hb' = hb /\ peer' = peer
  BY DEF FeedAutoDrive
<1> DEFINE nothing == << >>
<1>2. Silent(nothing) /\ nothing \in Seq(EventName)
  BY OthersAreSilent DEF Silent
<1> HIDE DEF nothing
<1>3. \A flag : FixAfter(flag, nothing) = flag /\ PositionAfter(flag, nothing) = flag
  BY SMT, <1>2, SilentKeeps
<1>4. HostCall /\ ClaimStep
  BY <1>1, <1>2, <1>3, FedCall DEF Inv, nothing
<1>5. BeatStep
  BY <1>1 DEF BeatStep
<1> QED  BY <1>1, <1>4, <1>5, CallIsGood DEF Inv

\* A frame that another plugin turns into events the GNSS plugin has no
\* part in.
LEMMA FeedOtherIsGood ==
  ASSUME Inv, NEW t, TimFields \subseteq DOMAIN t, NEW events, Silent(events),
         NEW tx, NEW now,
         Fed(ad, t, events, tx, now), gn' = gn
  PROVE  HostCall /\ ClaimStep /\ (Some(events, {"HeartbeatFault"}) => Halted)
<1>1. events \in Seq(EventName)
  BY DEF Silent
<1>2. \A flag : FixAfter(flag, events) = flag /\ PositionAfter(flag, events) = flag
  BY SMT, <1>1, SilentKeeps
<1>3. Follows(ad, ad)
  BY FollowsItself DEF Inv
<1> QED  BY <1>1, <1>2, <1>3, FedCall DEF Inv

\* A GNSS position.
LEMMA FeedPositionIsGood ==
  ASSUME Inv, FeedPosition
  PROVE  GoodStep
<1>1. PICK withQuality \in BOOLEAN, steerable \in BOOLEAN :
        LET r == GnssOnPosition(gn, withQuality, steerable)
        IN  Fed(ad, tim, r.events, << >>, claim) /\ gn' = r.gn
  BY DEF FeedPosition
<1> DEFINE r == GnssOnPosition(gn, withQuality, steerable)
<1>2. Tells(gn, r)
  BY PositionTells DEF Inv
<1> HIDE DEF r
<1>3. Fed(ad, tim, r.events, << >>, claim) /\ gn' = r.gn
  BY <1>1 DEF r
<1>4. Follows(ad, ad)
  BY FollowsItself DEF Inv
<1>5. HostCall /\ ClaimStep
  BY <1>2, <1>3, <1>4, FedCall DEF Tells, Inv
<1>6. hb' = hb /\ peer' = peer
  BY DEF FeedPosition
<1> QED  BY <1>5, <1>6, CallIsGood DEF Inv, BeatStep

\* The receiver reports every byte that takes it out of order.
LEMMA BeatIsReported ==
  ASSUME NEW r, HbFields \subseteq DOMAIN r, NEW byte \in Nat
  PROVE  /\ HbFields \subseteq DOMAIN process(r, byte)
         /\ process(r, byte).state \notin {"Normal", r.state} =>
              Some(FaultEvents(r.state, byte, process(r, byte).state),
                   {"HeartbeatFault"})
<1> DEFINE after == process(r, byte)
           kept == [[r EXCEPT !.since = 0] EXCEPT !.wasShutdown = FALSE]
<1>0. INIT \in Nat /\ SENDER_ERROR = INIT + 1 /\ SHUTDOWN = INIT + 2
  BY SMT, HeartbeatAssumption DEF INIT, SENDER_ERROR, SHUTDOWN
<1>1. CASE byte = SENDER_ERROR \/ byte = SHUTDOWN
  <2>1. FaultEvents(r.state, byte, after.state) = <<"HeartbeatFault">>
    BY <1>1 DEF FaultEvents
  <2>2. HbFields \subseteq DOMAIN after
    BY <1>0, <1>1 DEF process, enter_fault, HbFields
  <2> QED  BY SMT, <2>1, <2>2 DEF Some
<1>2. CASE byte <= INIT /\ (r.state = "CommError" \/ ~r.first \/ byte = INIT)
  <2>1. /\ HbFields \subseteq DOMAIN after
        /\ after.state \in {"Normal", r.state}
    BY SMT, <1>0, <1>2 DEF process, HbFields
  <2> QED  BY <2>1
<1>3. CASE /\ byte # SENDER_ERROR /\ byte # SHUTDOWN
           /\ ~(byte <= INIT /\ (r.state = "CommError" \/ ~r.first \/ byte = INIT))
  <2>1. after = Follow(kept, byte)
    BY SMT, <1>0, <1>3 DEF process, HbFields
  <2>2. HbFields \subseteq DOMAIN kept /\ kept.state = r.state
    BY DEF HbFields
  <2> HIDE DEF kept
  <2>3. /\ HbFields \subseteq DOMAIN Follow(kept, byte)
        /\ Follow(kept, byte).state \in {"Normal", "SequenceError", r.state}
    BY <2>2 DEF Follow, HbFields
  <2>4. after.state \notin {"Normal", r.state} =>
          FaultEvents(r.state, byte, after.state) = <<"HeartbeatFault">>
    BY <2>1, <2>3 DEF FaultEvents
  <2> QED  BY SMT, <2>1, <2>3, <2>4 DEF Some
<1> QED  BY <1>1, <1>2, <1>3

\* The sender of heartbeats keeps its shape.
LEMMA PeerBeats ==
  ASSUME NEW p, PeerFields \subseteq DOMAIN p, p.sequence \in Nat
  PROVE  /\ PeerFields \subseteq DOMAIN next_sequence(p)
         /\ next_sequence(p).sequence \in Nat
BY SMT, HeartbeatAssumption DEF next_sequence, INIT, PeerFields

\* A heartbeat of the peer.
LEMMA FeedBeatIsGood ==
  ASSUME Inv, FeedBeat
  PROVE  GoodStep
<1> DEFINE byte == peer'.sequence
           r == HeartbeatOnFrame(hb, byte)
<1>1. /\ PeerFields \subseteq DOMAIN peer' /\ byte \in Nat
  BY PeerBeats DEF FeedBeat, Inv
<1>2. /\ r.hb = process(hb, byte)
      /\ r.events = FaultEvents(hb.state, byte, process(hb, byte).state)
  BY DEF HeartbeatOnFrame
<1>3. Fed(ad, tim, r.events, << >>, claim) /\ hb' = r.hb /\ gn' = gn
  BY DEF FeedBeat
<1> HIDE DEF r
<1>4. Silent(r.events)
  BY <1>2, OthersAreSilent
<1>5. HostCall /\ ClaimStep /\ (Some(r.events, {"HeartbeatFault"}) => Halted)
  BY <1>3, <1>4, FeedOtherIsGood DEF Inv
<1>6. /\ HbFields \subseteq DOMAIN hb'
      /\ hb'.state \notin {"Normal", hb.state} => Some(r.events, {"HeartbeatFault"})
  BY <1>1, <1>2, <1>3, BeatIsReported DEF Inv
<1> QED  BY <1>1, <1>5, <1>6, CallIsGood DEF BeatStep

\* Any frame that is fed.
LEMMA FeedIsGood ==
  ASSUME Inv, Feed
  PROVE  GoodStep
<1>0. Sound(ad)
  BY DEF Inv
<1>1. CASE FeedShortcutButton
  BY <1>0, <1>1, ButtonFollows, FeedAutoDriveIsGood DEF FeedShortcutButton
<1>2. CASE FeedFacilities
  BY <1>0, <1>2, FacilitiesFollow, FeedAutoDriveIsGood DEF FeedFacilities
<1>3. CASE FeedMachineInfo
  BY <1>0, <1>3, InfoFollows, FeedAutoDriveIsGood DEF FeedMachineInfo
<1>4. CASE FeedPosition
  BY <1>4, FeedPositionIsGood
<1>5. CASE FeedTim
  <2> DEFINE r == TimOnFrame(tim)
  <2>1. TimFields \subseteq DOMAIN r.tim
    BY DEF TimOnFrame, Inv, TimFields
  <2>2. Fed(ad, r.tim, << >>, r.tx, claim) /\ gn' = gn /\ hb' = hb /\ peer' = peer
    BY <1>5 DEF FeedTim
  <2> HIDE DEF r
  <2>3. HostCall /\ ClaimStep
    BY <2>1, <2>2, OthersAreSilent, FeedOtherIsGood
  <2> QED  BY <2>2, <2>3, CallIsGood DEF Inv, BeatStep
<1>6. CASE FeedPowerRequest
  <2> DEFINE r == PowerOnFrame(mp)
  <2>1. Silent(r.events)
    BY OthersAreSilent DEF PowerOnFrame
  <2>2. Fed(ad, tim, r.events, << >>, claim) /\ gn' = gn /\ hb' = hb /\ peer' = peer
    BY <1>6 DEF FeedPowerRequest
  <2> HIDE DEF r
  <2>3. HostCall /\ ClaimStep
    BY <2>1, <2>2, FeedOtherIsGood DEF Inv
  <2> QED  BY <2>2, <2>3, CallIsGood DEF Inv, BeatStep
<1>7. CASE FeedKeyOff
  <2>1. Fed(ad, tim, <<"KeyOff">>, << >>, claim) /\ gn' = gn /\ hb' = hb /\ peer' = peer
    BY <1>7 DEF FeedKeyOff
  <2>2. HostCall /\ ClaimStep
    BY <2>1, OthersAreSilent, FeedOtherIsGood DEF Inv
  <2> QED  BY <2>1, <2>2, CallIsGood DEF Inv, BeatStep
<1>8. CASE FeedClaim
  <2>1. PICK now : Fed(ad, tim, << >>, << >>, now)
    BY <1>8 DEF FeedClaim
  <2>2. gn' = gn /\ hb' = hb /\ peer' = peer
    BY <1>8 DEF FeedClaim
  <2>3. HostCall /\ ClaimStep
    BY <2>1, <2>2, OthersAreSilent, FeedOtherIsGood DEF Inv
  <2> QED  BY <2>2, <2>3, CallIsGood DEF Inv, BeatStep
<1>9. CASE FeedBeat
  BY <1>9, FeedBeatIsGood
<1> QED  BY <1>1, <1>2, <1>3, <1>4, <1>5, <1>6, <1>7, <1>8, <1>9 DEF Feed

\* Pump: the events of all plugins in one batch.
LEMMA PumpIsGood ==
  ASSUME Inv, Pump
  PROVE  GoodStep
<1>1. PICK health, now, k : Tick(health, now, k)
  BY DEF Pump
<1> DEFINE elapsed == advance_millis(polled)
           a == (IF Has("AutoDrive") THEN AutoDriveOnTick(ad, now = "Claimed")
                 ELSE [ad |-> ad, tx |-> << >>]).ad
           t == TimOnTick(tim, elapsed).tim
           fail == IF health # bus /\ health = "FailSafe" THEN <<"FailSafe">>
                   ELSE << >>
           g == GnssOnTick(gn)
           h == HeartbeatOnTick(hb, elapsed)
           p == PowerOnTick(mp, elapsed).events
           lost == ClaimEvents(now)
           b1 == fail \o ClockEvents
           b2 == b1 \o g.events
           b3 == b2 \o h.events
           b4 == b3 \o p
           events == b4 \o lost
<1>2. /\ Dispatch(a, t, events) /\ gn' = g.gn /\ hb' = h.hb
      /\ claim' = now /\ persona' = persona /\ peer' = peer
  BY <1>1 DEF Tick, TickEvents
<1>3. Follows(ad, a) /\ (Has("AutoDrive") \/ a = ad)
  BY TickFollows, FollowsItself DEF Inv
<1>4. TimFields \subseteq DOMAIN t
  BY DEF TimOnTick, Inv, TimFields
<1>5. Tells(gn, g)
  BY GnssTickTells DEF Inv
<1>6. /\ Silent(fail) /\ Silent(ClockEvents) /\ Silent(h.events)
      /\ Silent(p) /\ Silent(lost)
  BY OthersAreSilent DEF PowerOnTick
<1>7. claim = "Claimed" /\ now # "Claimed" => Some(lost, StopEvent)
                                              /\ Some(lost, SafeModeEvent)
  BY SMT DEF ClaimEvents, Some, StopEvent, SafeModeEvent
<1>8. /\ HbFields \subseteq DOMAIN h.hb
      /\ h.hb.state \notin {"Normal", hb.state} =>
           Some(h.events, StopEvent) /\ Some(h.events, SafeModeEvent)
  BY SMT DEF HeartbeatOnTick, Inv, HbFields, Some, StopEvent, SafeModeEvent
<1> HIDE DEF elapsed, a, t, fail, g, h, p, lost
<1>9. /\ Silent(b1) /\ b1 \in Seq(EventName)
  BY <1>6, SilentBoth DEF Silent
<1>10. g.events \in Seq(EventName) /\ h.events \in Seq(EventName)
       /\ p \in Seq(EventName) /\ lost \in Seq(EventName)
  BY <1>5, <1>6 DEF Tells, Silent
<1> HIDE DEF b1
<1>11. b2 \in Seq(EventName) /\ Alike(b2, g.events)
  BY SMT, <1>9, <1>10, SilentAdds
<1> HIDE DEF b2
<1>12. /\ b3 \in Seq(EventName) /\ Alike(b3, g.events)
       /\ \A K : Some(h.events, K) => Some(b3, K)
  <2>1. b3 \in Seq(EventName) /\ \A K : Some(h.events, K) => Some(b3, K)
    BY <1>10, <1>11, SomeOfBoth
  <2>2. Alike(b3, b2)
    BY <1>6, <1>11, SilentAdds
  <2> QED  BY <1>11, <2>1, <2>2, AlikeThrough
<1> HIDE DEF b3
<1>13. /\ b4 \in Seq(EventName) /\ Alike(b4, g.events)
       /\ \A K : Some(h.events, K) => Some(b4, K)
  <2>1. b4 \in Seq(EventName) /\ \A K : Some(b3, K) => Some(b4, K)
    BY <1>10, <1>12, SomeOfBoth
  <2>2. Alike(b4, b3)
    BY <1>6, <1>12, SilentAdds
  <2> QED  BY <1>12, <2>1, <2>2, AlikeThrough
<1> HIDE DEF b4
<1>14. /\ events \in Seq(EventName) /\ Alike(events, g.events)
       /\ \A K : Some(h.events, K) \/ Some(lost, K) => Some(events, K)
  <2>1. /\ events \in Seq(EventName)
        /\ \A K : Some(b4, K) \/ Some(lost, K) => Some(events, K)
    BY <1>10, <1>13, SomeOfBoth
  <2>2. Alike(events, b4)
    BY <1>6, <1>13, SilentAdds
  <2> QED  BY <1>13, <2>1, <2>2, AlikeThrough
<1> HIDE DEF events
<1>15. /\ GnOK(gn') /\ gn'.fixDegraded = FixAfter(gn.fixDegraded, events)
       /\ gn'.positionStale = PositionAfter(gn.positionStale, events)
  BY <1>2, <1>5, <1>14 DEF Tells, Alike
<1>16. /\ HostCall
       /\ Has("AutoDrive") /\ Some(events, StopEvent) => ad'.stop
       /\ Has("Tim") /\ Some(events, SafeModeEvent) => tim'.safe
  BY <1>2, <1>3, <1>4, <1>14, <1>15, Dispatched
<1>17. ClaimStep
  BY <1>2, <1>7, <1>14, <1>16 DEF ClaimStep, Halted
<1>18. BeatStep
  BY <1>2, <1>8, <1>14, <1>16 DEF BeatStep, Halted
<1> QED  BY <1>2, <1>8, <1>16, <1>17, <1>18, CallIsGood DEF Inv

-----------------------------------------------------------------------------
(* The application and the world.                                          *)

\* Steps that leave AutoDrive and the GNSS plugin as they are.
LEMMA OthersAreGood ==
  ASSUME Inv, UNCHANGED <<persona, ad, gn, claim>>,
         HbFields \subseteq DOMAIN hb', hb'.state = hb.state,
         TimFields \subseteq DOMAIN tim',
         PeerFields \subseteq DOMAIN peer', peer'.sequence \in Nat
  PROVE  GoodStep
<1>1. Inv'
  BY DEF Inv, Mirrored, Has
<1>2. UNCHANGED <<Mode, Hazard>>
  BY DEF Mode, Hazard, Has
<1> QED  BY <1>1, <1>2 DEF GoodStep, ClaimStep, BeatStep

\* A call of the application on TIM.
LEMMA TimCallIsGood ==
  ASSUME Inv, NEW t, TimFields \subseteq DOMAIN t, OperateTim(t)
  PROVE  GoodStep
<1>1. /\ UNCHANGED <<persona, ad, gn, claim, hb, peer>> /\ tim' = t
  BY DEF OperateTim
<1> QED  BY <1>1, OthersAreGood DEF Inv

\* The calls of AutoDrive: the abstract step each takes.
LEMMA DriveCallIsGood ==
  ASSUME Inv, Arm \/ Engage \/ Disengage \/ Command \/ ClearStop
  PROVE  GoodStep
<1>1. PICK b : Operate(b) /\ \/ b = arm(ad) /\ check_preconditions(ad)
                             \/ b = engage(ad) /\ check_preconditions(ad)
                             \/ b = disengage(ad)
                             \/ \E c : b = command(ad, c) /\ Accepts(ad, c)
                             \/ b = clear_stop(ad) /\ MayClear(ad)
  BY DEF Arm, Engage, Disengage, Command, ClearStop
<1>2. /\ Has("AutoDrive") /\ ad' = b
      /\ UNCHANGED <<persona, gn, claim, hb, tim, peer>>
  BY <1>1 DEF Operate
<1>3. /\ Sound(ad) /\ (HazardLive(ad) => ad.stop)
      /\ ad.positionStale = gn.positionStale /\ ad.fixDegraded = gn.fixDegraded
  BY <1>2 DEF Inv, Mirrored
<1> DEFINE SameHazards == /\ b.isbAsserted = ad.isbAsserted
                          /\ b.positionStale = ad.positionStale
                          /\ b.fixDegraded = ad.fixDegraded
<1>4. ASSUME Sound(b), SameHazards, HazardLive(b) => b.stop
      PROVE  Inv' /\ ClaimStep /\ BeatStep /\ Hazard' = Hazard
  <2>1. Mirrored'
    BY <1>2, <1>3, <1>4 DEF Mirrored
  <2>2. Hazard' = Hazard
    BY <1>2, <1>4 DEF Hazard, Has
  <2> QED  BY <1>2, <1>4, <2>1, <2>2 DEF Inv, ClaimStep, BeatStep
<1>5. CASE b = arm(ad) /\ check_preconditions(ad)
  <2>1. ~ad.stop /\ ~HazardLive(ad)
    BY <1>5 DEF check_preconditions
  <2>2. /\ Sound(b) /\ SameHazards /\ ~b.stop
        /\ ~IsActive(b) /\ (HazardLive(b) => b.stop)
    BY <1>3, <1>5, <2>1
       DEF Sound, AdFields, arm, set_status, IsActive, Active, HazardLive
  <2>3. Mode' = "idle" /\ Mode \in {"idle", "engaged"}
    BY <1>2, <2>1, <2>2 DEF Mode
  <2> QED  BY <1>4, <2>2, <2>3 DEF GoodStep, Promise!Next, Promise!Release
<1>6. CASE b = engage(ad) /\ check_preconditions(ad)
  <2>1. ~ad.stop /\ ~HazardLive(ad)
    BY <1>6 DEF check_preconditions
  <2> DEFINE c == set_status(ad, "ActiveNotLimited")
  <2>2. /\ AdFields \subseteq DOMAIN c /\ c.status = "ActiveNotLimited"
        /\ c.stop = ad.stop /\ c.isbAsserted = ad.isbAsserted
        /\ c.positionStale = ad.positionStale /\ c.fixDegraded = ad.fixDegraded
    BY <1>3 DEF Sound, AdFields, set_status
  <2>3. b = [c EXCEPT !.dirty = TRUE, !.commanded = TRUE]
    BY <1>6 DEF engage
  <2> HIDE DEF c
  <2>4. /\ Sound(b) /\ SameHazards /\ ~b.stop
        /\ IsActive(b) /\ (HazardLive(b) => b.stop)
    BY <1>3, <2>1, <2>2, <2>3 DEF Sound, AdFields, IsActive, Active, HazardLive
  <2>5. ~Hazard
    BY <1>3, <2>1 DEF Hazard, HazardLive
  <2>6. Mode' = "engaged" /\ Mode \in {"idle", "engaged"}
    BY <1>2, <2>1, <2>4 DEF Mode
  <2> QED  BY <1>4, <2>4, <2>5, <2>6 DEF GoodStep, Promise!Next, Promise!Engage
<1>7. CASE b = disengage(ad)
  <2>1. Sound(b) /\ SameHazards /\ b.stop
    BY <1>3, <1>7, StopFollows DEF disengage, Follows
  <2>2. Mode' = "stopped"
    BY <1>2, <2>1 DEF Mode
  <2>3. Hazard' \in BOOLEAN
    BY DEF Hazard
  <2> QED  BY <1>4, <2>1, <2>2, <2>3 DEF GoodStep, Promise!Next, Promise!Stop
<1>8. CASE \E c : b = command(ad, c) /\ Accepts(ad, c)
  <2>1. PICK c : b = command(ad, c) /\ Accepts(ad, c)
    BY <1>8
  <2>2. ~ad.stop
    BY <2>1 DEF Accepts
  <2>3. /\ Sound(b) /\ SameHazards /\ b.stop = ad.stop /\ b.status = ad.status
    BY <1>3, <2>1, <2>2 DEF Sound, AdFields, command
  <2>4. Mode' = Mode /\ (HazardLive(b) => b.stop)
    BY <1>2, <1>3, <2>3 DEF Mode, IsActive, HazardLive
  <2> QED  BY <1>4, <2>3, <2>4 DEF GoodStep
<1>9. CASE b = clear_stop(ad) /\ MayClear(ad)
  <2>1. ~HazardLive(ad)
    BY <1>9 DEF MayClear
  <2>2. /\ SameHazards /\ ~b.stop /\ b.status # "Fault" /\ Sound(b)
        /\ b.status = IF ad.status = "Fault" THEN "NotReady" ELSE ad.status
    BY <1>3, <1>9 DEF Sound, AdFields, clear_stop
  <2>3. ~Hazard /\ (HazardLive(b) => b.stop)
    BY <1>3, <2>1, <2>2 DEF Hazard, HazardLive
  <2>4. CASE ad.stop
    <3>1. Mode = "stopped" /\ Mode' = "idle"
      BY <1>2, <1>3, <2>2, <2>4 DEF Mode, Sound, IsActive, Active
    <3> QED  BY <1>4, <2>2, <2>3, <3>1 DEF GoodStep, Promise!Next, Promise!Clear
  <2>5. CASE ~ad.stop
    <3>1. Mode' = Mode
      BY <1>2, <1>3, <2>2, <2>5 DEF Mode, Sound, IsActive
    <3> QED  BY <1>4, <2>2, <2>3, <3>1 DEF GoodStep
  <2> QED  BY <2>4, <2>5
<1> QED  BY <1>1, <1>5, <1>6, <1>7, <1>8, <1>9

\* Time and the clock change ages only.
LEMMA TimePasses ==
  ASSUME Inv, Elapse \/ ClockJumps
  PROVE  GoodStep
<1>1. PICK d, e : /\ ad' = AutoDriveOlder(ad, d) \/ ad' = AutoDriveRewound(ad, d)
                  /\ gn' = GnssOlder(gn, e) \/ gn' = GnssRewound(gn, e)
  BY DEF Elapse, ClockJumps
<1>2. UNCHANGED <<persona, claim, hb, tim, peer>>
  BY DEF Elapse, ClockJumps
<1>3. /\ Sound(ad') /\ ad'.stop = ad.stop /\ ad'.status = ad.status
      /\ ad'.isbAsserted = ad.isbAsserted /\ ad'.positionStale = ad.positionStale
      /\ ad'.fixDegraded = ad.fixDegraded
  BY <1>1 DEF AutoDriveOlder, AutoDriveRewound, Inv, Sound, AdFields
<1>4. /\ GnOK(gn') /\ gn'.positionStale = gn.positionStale
      /\ gn'.fixDegraded = gn.fixDegraded
  BY <1>1 DEF GnssOlder, GnssRewound, Inv, GnOK, GnFields
<1>5. Inv'
  BY <1>2, <1>3, <1>4 DEF Inv, Mirrored, HazardLive, Has
<1>6. UNCHANGED <<Mode, Hazard>>
  BY <1>2, <1>3, <1>4 DEF Mode, Hazard, Has, IsActive
<1> QED  BY <1>2, <1>5, <1>6 DEF GoodStep, ClaimStep, BeatStep

\* Any call of the application.
LEMMA ApplicationIsGood ==
  ASSUME Inv, Application
  PROVE  GoodStep
<1>1. CASE Arm \/ Engage \/ Disengage \/ Command \/ ClearStop
  BY <1>1, DriveCallIsGood
<1>2. CASE RequestAuthority
  <2>1. PICK options : OperateTim(request(tim, options))
    BY <1>2 DEF RequestAuthority
  <2> QED  BY <2>1, TimCallIsGood DEF request, Inv, TimFields
<1>3. CASE GrantAuthority
  BY <1>3, TimCallIsGood DEF GrantAuthority, grant, Inv, TimFields
<1>4. CASE EndAuthority
  <2>1. PICK state : OperateTim([tim EXCEPT !.state = state])
    BY <1>4 DEF EndAuthority
  <2> QED  BY <2>1, TimCallIsGood DEF Inv, TimFields
<1>5. CASE SetInterlocks
  <2>1. PICK blocked : OperateTim(set_interlocks(tim, blocked))
    BY <1>5 DEF SetInterlocks
  <2> QED  BY <2>1, TimCallIsGood DEF set_interlocks, Inv, TimFields
<1>6. CASE SetSafeMode
  <2>1. PICK safe : OperateTim([tim EXCEPT !.safe = safe])
    BY <1>6 DEF SetSafeMode
  <2> QED  BY <2>1, TimCallIsGood DEF Inv, TimFields
<1>7. CASE GuardedCommand
  <2>1. PICK c : OperateTim([tim EXCEPT !.pending = Append(@, c)])
    BY <1>7 DEF GuardedCommand
  <2> QED  BY <2>1, TimCallIsGood DEF Inv, TimFields
<1>8. CASE TurnKey
  <2>1. UNCHANGED <<persona, ad, gn, claim, hb, tim, peer>>
    BY <1>8 DEF TurnKey
  <2> QED  BY <2>1, OthersAreGood DEF Inv
<1> QED
  BY <1>1, <1>2, <1>3, <1>4, <1>5, <1>6, <1>7, <1>8 DEF Application

\* What goes on outside the session.
LEMMA WorldIsGood ==
  ASSUME Inv, World
  PROVE  GoodStep
<1>1. CASE LoseBeat
  <2>1. UNCHANGED <<persona, ad, gn, claim, hb, tim>> /\ peer' = next_sequence(peer)
    BY <1>1 DEF LoseBeat
  <2>2. PeerFields \subseteq DOMAIN peer' /\ peer'.sequence \in Nat
    BY <2>1, PeerBeats DEF Inv
  <2> QED  BY <2>1, <2>2, OthersAreGood DEF Inv
<1>2. CASE PeerSignals
  <2>1. /\ UNCHANGED <<persona, ad, gn, claim, hb, tim>>
        /\ peer' = signal(peer, SENDER_ERROR) \/ peer' = signal(peer, SHUTDOWN)
    BY <1>2 DEF PeerSignals
  <2>2. PeerFields \subseteq DOMAIN peer' /\ peer'.sequence \in Nat
    <3>1. SENDER_ERROR \in Nat /\ SHUTDOWN \in Nat
      BY SMT, HeartbeatAssumption DEF SENDER_ERROR, SHUTDOWN
    <3> QED  BY <2>1, <3>1 DEF Inv, PeerFields, signal
  <2> QED  BY <2>1, <2>2, OthersAreGood DEF Inv
<1>3. CASE PeerRestarts
  <2>1. UNCHANGED <<persona, ad, gn, claim, hb, tim>> /\ peer' = NewSender
    BY <1>3 DEF PeerRestarts
  <2>2. PeerFields \subseteq DOMAIN peer' /\ peer'.sequence \in Nat
    BY SMT, <2>1, HeartbeatAssumption DEF PeerFields, NewSender, INIT
  <2> QED  BY <2>1, <2>2, OthersAreGood DEF Inv
<1>4. CASE Elapse \/ ClockJumps
  BY <1>4, TimePasses
<1> QED  BY <1>1, <1>2, <1>3, <1>4 DEF World

-----------------------------------------------------------------------------
(* The theorems.                                                           *)

\* A new session.
LEMMA InitIsGood ==
  ASSUME Init PROVE Inv /\ Promise!Init
<1>1. Inv
  <2>1. Mirrored /\ Sound(ad)
    BY Zenon DEF Init, Mirrored, Sound, AdFields, NewAutoDrive, NewGnss,
                    HazardLive
  <2>2. PeerFields \subseteq DOMAIN peer
    BY Zenon DEF Init, PeerFields, NewSender
  <2>5. peer.sequence \in Nat
    BY SMT, HeartbeatAssumption DEF Init, NewSender, INIT
  <2>3. GnOK(gn)
    BY Zenon DEF Init, GnOK, GnFields, NewGnss
  <2>4. HbFields \subseteq DOMAIN hb /\ TimFields \subseteq DOMAIN tim
    BY Zenon DEF Init, HbFields, TimFields, NewReceiver, NewTim
  <2> QED  BY <2>1, <2>2, <2>3, <2>4, <2>5 DEF Inv
<1>2. Promise!Init
  BY DEF Init, Promise!Init, Mode, Hazard, NewAutoDrive, NewGnss, IsActive, Active
<1> QED  BY <1>1, <1>2

\* Every step.
LEMMA StepIsGood ==
  ASSUME Inv, [Next]_vars PROVE GoodStep
<1>1. CASE Feed
  BY <1>1, FeedIsGood
<1>2. CASE Pump
  BY <1>2, PumpIsGood
<1>3. CASE Application
  BY <1>3, ApplicationIsGood
<1>4. CASE World
  BY <1>4, WorldIsGood
<1>5. CASE UNCHANGED vars
  <2>1. UNCHANGED <<persona, ad, gn, claim, hb, tim, peer>>
    BY <1>5 DEF vars
  <2> QED  BY <2>1, OthersAreGood DEF Inv
<1> QED  BY <1>1, <1>2, <1>3, <1>4, <1>5 DEF Next

\* The invariant holds throughout.
THEOREM Invariance == Spec => []Inv
<1>1. Init => Inv
  BY InitIsGood
<1>2. Inv /\ [Next]_vars => Inv'
  BY StepIsGood DEF GoodStep
<1> QED  BY <1>1, <1>2, PTL DEF Spec

\* A session implements SafeStop: a hazard stops AutoDrive in the call that
\* raises it, and no stop ends by itself.
THEOREM SessionSafelyStops == Spec => SafelyStops
<1>1. Init => Promise!Init
  BY InitIsGood
<1>2. Inv /\ [Next]_vars => [Promise!Next]_<<Mode, Hazard>>
  BY StepIsGood DEF GoodStep
<1> QED  BY <1>1, <1>2, Invariance, PTL DEF Spec, SafelyStops, Promise!Spec

\* A latched stop is a halt.
THEOREM StopIsAHalt == Spec => []StopMeansHalt
<1>1. Inv => StopMeansHalt
  BY DEF Inv, Sound, StopMeansHalt
<1> QED  BY <1>1, Invariance, PTL

\* A heartbeat that is found faulty and an address that is lost stop AutoDrive
\* and TIM in the same call.
THEOREM FaultsStopAtOnce == Spec => FaultsStop
<1>1. Inv /\ [Next]_vars =>
        [(\/ hb'.state \notin {"Normal", hb.state}
          \/ claim = "Claimed" /\ claim' # "Claimed") =>
           /\ Has("AutoDrive") => ad'.stop
           /\ Has("Tim") => tim'.safe]_vars
  BY StepIsGood DEF GoodStep, ClaimStep, BeatStep, Halted
<1> QED  BY <1>1, Invariance, PTL DEF Spec, FaultsStop
==============================================================================
