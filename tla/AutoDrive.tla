------------------------------ MODULE AutoDrive ------------------------------
(***************************************************************************)
(* The AutoDrive plugin (session/plugins/autodrive.rs): automatic steering *)
(* and speed, with the stop latch (safety.rs) and the shortcut-button      *)
(* guard (session/plugins/shortcut_button.rs) it owns.                     *)
(*                                                                         *)
(* The plugin is one record.  An application call or a callback is an      *)
(* operator on the record; a callback that transmits also returns frames.  *)
(* A stored Instant is its age: see Clock.                                 *)
(***************************************************************************)
EXTENDS Clock, Sequences, FiniteSetsExt

CONSTANTS
  LinkTimeout,   \* LINK_TIMEOUT_MS, in units of the model's time
  MinTx, MaxTx,  \* min_tx_ms, max_tx_ms
  CommandStale,  \* stale_ms
  IsbTimeout     \* ISB_TIMEOUT_MS

ASSUME AutoDriveAssumption ==
  /\ LinkTimeout \in Nat \ {0} /\ CommandStale \in Nat \ {0}
  /\ IsbTimeout \in Nat \ {0}
  /\ MinTx \in Nat \ {0} /\ MaxTx \in Nat /\ MinTx <= MaxTx

-----------------------------------------------------------------------------
(* Events of the session that demand a stop of an autonomy path.           *)

\* SafeStopTrigger::from_event.  A refused send of its own command PGNs
\* would be one more, but AutoDrive sends only with an address.  Which
\* trigger came first is kept by the latch for display and left out here.
StopEvent ==
  {"ClockWentBackwards", "FailSafe", "ClaimLost", "HeartbeatFault", "KeyOff",
   "PositionStale", "FixDegraded"}

-----------------------------------------------------------------------------
(* The plugin.                                                             *)

\* A DriveCommand as the guards of command() see it: an axis is absent, or
\* its value is zero, usable or refused by itself.  "slow" is at or below
\* the minimum speed.
Speed == {"none", "slow", "fast", "nan"}
Curvature == {"none", "zero", "turn", "range"}
NoCommand == [speed |-> "none", curvature |-> "none"]
Halt == [speed |-> "slow", curvature |-> "zero"]

Active == {"ActiveNotLimited", "ActiveLimitedHigh", "ActiveLimitedLow"}
Status == Active \cup {"NotReady", "ReadyToEnable", "Fault"}

\* GuidanceMachineInfo: a report that forbids steering, one that takes it
\* over, or a limit status.
Violation == {"MechanicalLockout", "EngageSwitchOff"}
Override == {"OperatorLimitedControlled", "NonRecoverableFault"}
StatusOfLimit ==
  [l \in {"NotLimited", "LimitedHigh", "LimitedLow"} |->
     CASE l = "LimitedHigh" -> "ActiveLimitedHigh"
       [] l = "LimitedLow"  -> "ActiveLimitedLow"
       [] OTHER             -> "ActiveNotLimited"]
MachineInfo ==
  Violation \cup Override \cup DOMAIN StatusOfLimit \cup {"NotAvailable"}

\* TractorFacilities as the plugin uses it.  Before a TECU has reported,
\* nothing is held against it.
Facilities == [guidance : BOOLEAN, speed : BOOLEAN]

\* AutoDrive::new.  `commanded` says that command_seq differs from seen_seq,
\* `fit` that the latest machine info is there and reports no violation.
NewAutoDrive ==
  [status |-> "NotReady", setpoint |-> NoCommand,
   fit |-> FALSE, lastInfo |-> Never, linkAlive |-> FALSE,
   lastTx |-> Never, dirty |-> FALSE, stop |-> FALSE,
   commanded |-> FALSE, seqChanged |-> Never,
   isbSeen |-> Never, isbAsserted |-> FALSE,
   positionStale |-> FALSE, fixDegraded |-> FALSE,
   facilities |-> [guidance |-> TRUE, speed |-> TRUE]]

IsActive(a) == a.status \in Active
HazardLive(a) == a.isbAsserted \/ a.positionStale \/ a.fixDegraded

enter_safe_state(a) ==
  [a EXCEPT !.status = "Fault", !.setpoint = Halt, !.dirty = TRUE]

\* The latch is tripped and the safe state entered, as disengage() and a
\* lost link do.
Stop(a) == [enter_safe_state(a) EXCEPT !.stop = TRUE]

\* Mutant: a tripped latch leaves the machine active.
TripOnly(a) == [a EXCEPT !.stop = TRUE]

\* Every other stop: StopLatch::trip is true once, and only then the safe
\* state is entered.
TripAndStop(a) == IF a.stop THEN a ELSE Stop(a)

set_status(a, status) ==
  IF a.status = status THEN a ELSE [a EXCEPT !.status = status, !.dirty = TRUE]

-----------------------------------------------------------------------------
(* Application calls.  A refused call changes nothing.                     *)

check_preconditions(a) ==
  /\ ~a.stop /\ ~HazardLive(a)
  /\ a.facilities.guidance
  /\ a.linkAlive /\ a.fit

arm(a) == set_status(a, "ReadyToEnable")

engage(a) ==
  [set_status(a, "ActiveNotLimited") EXCEPT !.dirty = TRUE, !.commanded = TRUE]

disengage(a) == Stop(a)

Accepts(a, c) ==
  /\ ~a.stop /\ IsActive(a)
  /\ c.curvature # "range" /\ c.speed # "nan"
  /\ c.speed # "none" => a.facilities.speed
  /\ ~(c.speed = "slow" /\ c.curvature = "turn")

command(a, c) ==
  [a EXCEPT !.dirty = @ \/ a.setpoint # c, !.setpoint = c, !.commanded = TRUE]

MayClear(a) == ~HazardLive(a)

clear_stop(a) ==
  [a EXCEPT !.stop = FALSE, !.status = IF @ = "Fault" THEN "NotReady" ELSE @]

-----------------------------------------------------------------------------
(* Frames.                                                                 *)

\* IsbGuard::observe, and what AutoDrive does with it.
OnShortcutButton(a, permit) ==
  LET seen == [a EXCEPT !.isbSeen = 0, !.isbAsserted = ~permit]
  IN  IF permit THEN seen ELSE TripAndStop(seen)

OnFacilities(a, facilities) ==
  LET told == [a EXCEPT !.facilities = facilities]
  IN  IF ~facilities.guidance /\ IsActive(a)
        THEN TripAndStop(told)
        ELSE told

OnMachineInfo(a, info) ==
  LET heard == [a EXCEPT !.fit = info \notin Violation, !.lastInfo = 0,
                         !.linkAlive = TRUE]
  IN  IF ~IsActive(a) THEN heard
      ELSE IF info \in Violation \cup Override THEN TripAndStop(heard)
      ELSE IF info \in DOMAIN StatusOfLimit
        THEN [heard EXCEPT !.status = StatusOfLimit[info]]
      ELSE heard

-----------------------------------------------------------------------------
(* Events.  AutoDrive is shown the events of one call in order: one that   *)
(* demands a stop trips the latch, and every one updates the mirror of the *)
(* GNSS hazards (GnssHazards::observe).                                    *)

\* The last event of `kinds` in the batch, or "none".
LastOf(events, kinds) ==
  LET at == {i \in DOMAIN events : events[i] \in kinds}
  IN  IF at = {} THEN "none" ELSE events[Max(at)]

Observe(a, events) ==
  LET fix == LastOf(events, {"FixDegraded", "FixRestored"})
      position == LastOf(events, {"PositionStale", "Position"})
  IN  [a EXCEPT !.fixDegraded = IF fix = "none" THEN @ ELSE fix = "FixDegraded",
                !.positionStale = IF position = "none" THEN @
                                  ELSE position = "PositionStale"]

DemandsStop(events) == \E i \in DOMAIN events : events[i] \in StopEvent

\* Mutant: the GNSS hazards are only an edge and are not remembered.
ForgetsHazards(a, events) == IF DemandsStop(events) THEN TripAndStop(a) ELSE a

AutoDriveOnEvents(a, events) ==
  IF DemandsStop(events) THEN TripAndStop(Observe(a, events))
  ELSE Observe(a, events)

-----------------------------------------------------------------------------
(* on_tick: the watchdogs, in order, then the periodic command.            *)

\* A lost link enters the safe state even when the latch was set before.
WatchLink(a) ==
  LET alive == a.lastInfo # Never /\ millis_since(a.lastInfo) < LinkTimeout
      kept == [a EXCEPT !.linkAlive = alive]
  IN  IF a.linkAlive /\ ~alive
        THEN Stop(kept)
        ELSE kept

WatchButton(a) ==
  LET asserted == a.isbAsserted \/ Elapsed(a.isbSeen, IsbTimeout)
      kept == [a EXCEPT !.isbAsserted = asserted]
  IN  IF asserted THEN TripAndStop(kept) ELSE kept

\* Mutant: the application's silence is not watched.
TrustsApplication(a) ==
  [a EXCEPT !.commanded = FALSE, !.seqChanged = IF a.commanded THEN 0 ELSE @]

WatchCommands(a) ==
  LET kept == [a EXCEPT !.commanded = FALSE,
                        !.seqChanged = IF a.commanded THEN 0 ELSE @]
  IN  IF IsActive(a) /\ Elapsed(kept.seqChanged, CommandStale)
        THEN TripAndStop(kept) ELSE kept

Watched(a) == WatchCommands(WatchButton(WatchLink(a)))

Due(a) ==
  \/ a.lastTx = Never
  \/ IF IsActive(a) THEN millis_since(a.lastTx) >= MinTx
     ELSE \/ millis_since(a.lastTx) >= MaxTx
          \/ a.dirty /\ millis_since(a.lastTx) >= MinTx

\* Guidance System Command, then Machine Selected Speed Command if the
\* setpoint has a speed.
CommandFrames(a) ==
  <<IF IsActive(a) THEN "steer" ELSE "idle">>
    \o (CASE a.setpoint.speed = "none" -> << >>
          [] a.setpoint.speed = "fast" -> <<"go">>
          [] OTHER -> <<"halt">>)

\* Mutant: the cadence advances although nothing can be sent.
TicksUnclaimed(a, claimed) ==
  LET w == Watched(a)
  IN  [ad |-> IF Due(w) THEN [w EXCEPT !.lastTx = 0, !.dirty = FALSE] ELSE w,
       tx |-> IF claimed /\ Due(w) THEN CommandFrames(w) ELSE << >>]

AutoDriveOnTick(a, claimed) ==
  LET w == Watched(a)
  IN  IF claimed /\ Due(w)
        THEN [ad |-> [w EXCEPT !.lastTx = 0, !.dirty = FALSE],
              tx |-> CommandFrames(w)]
        ELSE [ad |-> w, tx |-> << >>]

-----------------------------------------------------------------------------
(* Time and the clock.                                                     *)

\* `back` is how far the clock may still jump back.
AutoDriveOlder(a, back) ==
  [a EXCEPT !.lastInfo = Older(@, LinkTimeout + back),
            !.lastTx = Older(@, MaxTx + back),
            !.seqChanged = Older(@, CommandStale + back),
            !.isbSeen = Older(@, IsbTimeout + back)]

AutoDriveRewound(a, d) ==
  [a EXCEPT !.lastInfo = Rewound(@, d), !.lastTx = Rewound(@, d),
            !.seqChanged = Rewound(@, d), !.isbSeen = Rewound(@, d)]
==============================================================================
