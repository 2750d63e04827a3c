------------------------------- MODULE Session -------------------------------
(***************************************************************************)
(* A Session (session/mod.rs) on a machine, with the plugins that stop it: *)
(* AutoDrive, Gnss, Heartbeat, Tim and MaintainPower, in the sets that     *)
(* `Personas` lists; and the Driver (session/driver.rs) that pumps it.     *)
(*                                                                         *)
(* A call of the host is one action: Feed hands over one received frame,   *)
(* Pump ticks the session and transmits.  Both run the network manager,    *)
(* the plugins, the detection of a lost address and the dispatch of events *)
(* to the end.  Between calls the application uses its plugins, time       *)
(* passes (Elapse) and the host's clock may jump back (ClockJumps).        *)
(*                                                                         *)
(* What the network manager and a peer do is left open: an address may be  *)
(* lost and won again in any call, a peer's heartbeats may be lost.        *)
(***************************************************************************)
EXTENDS Heartbeat, Gnss, Tim, MaintainPower

CONSTANTS
  Personas,       \* the sessions: their plugins, the frames and application
                  \* calls they meet, and how often what is Bounded happens
  Commands,       \* the DriveCommands the application tries
  InfoReports,    \* the GuidanceMachineInfo and TractorFacilities reports
  FacilityReports,  \* the tractor sends
  TickGap         \* the host pumps at least this often

Bounded == {"losses", "sendErrors", "signals", "lostBeats", "jumps"}
Plugin == {"AutoDrive", "Gnss", "Heartbeat", "Tim", "MaintainPower"}
Input == {"button", "facilities", "info", "position", "tim", "power", "beat",
          "key", "bus", "drive", "authority", "switch"}

ASSUME SessionAssumption ==
  /\ Personas \subseteq [plugins : SUBSET Plugin, inputs : SUBSET Input,
                         limit : [Bounded -> Nat]]
  /\ \A p \in Personas : MaxBack * p.limit["jumps"] < -Never
  /\ Commands \subseteq [speed : Speed, curvature : Curvature]
  /\ InfoReports \subseteq MachineInfo /\ FacilityReports \subseteq Facilities
  /\ TickGap \in Nat \ {0}

VARIABLES
  persona,   \* the plugins of this session and what it meets
  claim,     \* last_claim, the claim state detect_claim saw last
  clk,       \* age of last_tick, the time of the last call
  lag,       \* time since the last Pump
  bus,       \* action of the driver's FaultConfinementMonitor
  outbound,  \* frames waiting for poll_transmit
  ad, gn, hb, tim, mp,  \* the plugins
  polled,    \* age of the Instant of Heartbeat, Tim and MaintainPower: each
             \* keeps its own, and all are moved by the same ticks
  peer,      \* the heartbeat sender of a peer
  hist,      \* history, for the properties
  used       \* how often each bounded environment action has happened

vars == <<persona, claim, clk, lag, bus, outbound, ad, gn, hb, tim, mp, polled,
          peer, hist, used>>

\* History.  Ages are wall time since the last accepted engage or command,
\* machine info, TIM frame and power request.  onBus is the last guidance
\* command transmitted; dropped says that a transport error has eaten one
\* since.  clean says that the peer has declared no fault and that no more
\* beats in a row were lost than the receiver tolerates.
NewHistory ==
  [command |-> Never, info |-> Never, keepalive |-> Never, power |-> Never,
   onBus |-> "none", dropped |-> FALSE, lost |-> 0, clean |-> TRUE]

Init ==
  /\ persona \in Personas
  /\ claim = "None" /\ clk = Never /\ lag = 0 /\ bus = "Normal"
  /\ outbound = << >>
  /\ ad = NewAutoDrive /\ gn = NewGnss /\ hb = NewReceiver /\ tim = NewTim
  /\ mp = NewPower /\ polled = Never /\ peer = NewSender
  /\ hist = NewHistory
  /\ used = [b \in Bounded |-> 0]

Has(plugin) == plugin \in persona.plugins
Meets(input) == input \in persona.inputs

\* A step that uses up one of each of the bounds in `spent`.
Spend(spent) ==
  /\ \A b \in spent : used[b] < persona.limit[b]
  /\ used' = [b \in Bounded |-> IF b \in spent THEN used[b] + 1 ELSE used[b]]

-----------------------------------------------------------------------------
(* What every call of the host has in common.                              *)

\* advance_time: the clock is compared with the time of the last call.
ClockEvents == IF clk # Never /\ clk < 0 THEN <<"ClockWentBackwards">> ELSE << >>

\* Mutant: only an address that has been given up for good is a loss.
DisconnectOnly(now) ==
  IF claim = "Claimed" /\ now = "None" THEN <<"ClaimLost">> ELSE << >>

\* detect_claim: `now` is the claim state after the call.
ClaimEvents(now) ==
  IF claim = "Claimed" /\ now # "Claimed" THEN <<"ClaimLost">> ELSE << >>

\* dispatch_events shows the events of the call to the two plugins that
\* react to any, in the state the callbacks left them in.
Dispatch(a, t, events) ==
  /\ ad' = IF Has("AutoDrive") THEN AutoDriveOnEvents(a, events) ELSE a
  /\ tim' = IF Has("Tim") THEN TimOnEvents(t, events).tim ELSE t

\* flush: the frames of the callbacks, then those of the dispatch.  Without
\* an address net.send refuses them; no plugin repeats a refused frame.
Flushed(t, events, tx, now) ==
  IF now # "Claimed" THEN outbound
  ELSE outbound \o tx \o (IF Has("Tim") THEN TimOnEvents(t, events).tx ELSE << >>)

\* Session::feed: a, t, events and tx are what on_frame made of the frame.
Fed(a, t, events, tx, now) ==
  LET all == ClockEvents \o events \o ClaimEvents(now)
  IN  /\ Dispatch(a, t, all)
      /\ outbound' = Flushed(t, all, tx, now)
      /\ claim' = now /\ clk' = 0
      /\ UNCHANGED <<persona, lag, bus>>

-----------------------------------------------------------------------------
(* Frames.                                                                 *)

FeedAutoDrive(a) ==
  /\ Has("AutoDrive")
  /\ Fed(a, tim, << >>, << >>, claim)
  /\ UNCHANGED <<gn, hb, mp, polled, peer, used>>

FeedShortcutButton ==
  /\ Meets("button")
  /\ \E permit \in BOOLEAN : FeedAutoDrive(OnShortcutButton(ad, permit))
  /\ UNCHANGED hist

FeedFacilities ==
  /\ Meets("facilities")
  /\ \E f \in FacilityReports : FeedAutoDrive(OnFacilities(ad, f))
  /\ UNCHANGED hist

FeedMachineInfo ==
  /\ Meets("info")
  /\ \E info \in InfoReports : FeedAutoDrive(OnMachineInfo(ad, info))
  /\ hist' = [hist EXCEPT !.info = 0]

FeedPosition ==
  /\ Has("Gnss") /\ Meets("position")
  /\ \E withQuality, steerable \in BOOLEAN :
       LET r == GnssOnPosition(gn, withQuality, steerable)
       IN  Fed(ad, tim, r.events, << >>, claim) /\ gn' = r.gn
  /\ UNCHANGED <<hb, mp, polled, peer, hist, used>>

\* A status or command frame of a peer that TIM subscribes to.
FeedTim ==
  /\ Has("Tim") /\ Meets("tim")
  /\ LET r == TimOnFrame(tim) IN Fed(ad, r.tim, << >>, r.tx, claim)
  /\ hist' = [hist EXCEPT !.keepalive = 0]
  /\ UNCHANGED <<gn, hb, mp, polled, peer, used>>

FeedPowerRequest ==
  /\ Has("MaintainPower") /\ Meets("power")
  /\ LET r == PowerOnFrame(mp)
     IN  Fed(ad, tim, r.events, << >>, claim) /\ mp' = r.mp
  /\ hist' = [hist EXCEPT !.power = 0]
  /\ UNCHANGED <<gn, hb, polled, peer, used>>

\* The Implement plugin's wheel-speed event with the key switch off.
FeedKeyOff ==
  /\ Meets("key")
  /\ Fed(ad, tim, <<"KeyOff">>, << >>, claim)
  /\ UNCHANGED <<gn, hb, mp, polled, peer, hist, used>>

\* A frame of the address-claim protocol, which costs this CF its address.
FeedClaim ==
  /\ claim = "Claimed"
  /\ \E now \in {"None", "Claiming"} : Fed(ad, tim, << >>, << >>, now)
  /\ Spend({"losses"})
  /\ UNCHANGED <<gn, hb, mp, polled, peer, hist>>

\* The peer's next heartbeat arrives.
FeedBeat ==
  /\ Has("Heartbeat") /\ Meets("beat")
  /\ peer' = next_sequence(peer)
  /\ LET r == HeartbeatOnFrame(hb, peer'.sequence)
     IN  Fed(ad, tim, r.events, << >>, claim) /\ hb' = r.hb
  /\ hist' = [hist EXCEPT !.lost = 0]
  /\ UNCHANGED <<gn, mp, polled, used>>

-----------------------------------------------------------------------------
(* Driver::pump_at, after the received frames have been fed: the error     *)
(* state of the bus, Session::tick, and everything outbound is sent.  An   *)
(* error of the transport ends the pump; the frame it refused is gone.     *)

\* The frames that went out, and those that stay, when sending the k-th
\* next one fails (k = Len: none does).
Sent(queue, k) == SubSeq(queue, 1, k)
Kept(queue, k) == SubSeq(queue, k + 2, Len(queue))

Intents == {"steer", "idle"}

Transmitted(h, queue, k) ==
  LET last == LastOf(Sent(queue, k), Intents)
      refused == k < Len(queue) /\ queue[k + 1] \in Intents
  IN  [h EXCEPT !.onBus = IF last = "none" THEN @ ELSE last,
                !.dropped = refused \/ (@ /\ last = "none")]

\* The events of a tick in the order they are queued.
TickEvents(health, now) ==
  (IF health # bus /\ health = "FailSafe" THEN <<"FailSafe">> ELSE << >>)
    \o ClockEvents
    \o GnssOnTick(gn).events
    \o HeartbeatOnTick(hb, advance_millis(polled)).events
    \o PowerOnTick(mp, advance_millis(polled)).events
    \o ClaimEvents(now)

Tick(health, now, k) ==
  LET a == IF Has("AutoDrive") THEN AutoDriveOnTick(ad, now = "Claimed")
           ELSE [ad |-> ad, tx |-> << >>]
      t == TimOnTick(tim, advance_millis(polled))
      events == TickEvents(health, now)
      queue == Flushed(t.tim, events, a.tx \o t.tx, now)
  IN  /\ k <= Len(queue)
      /\ Spend({b \in Bounded :
                 \/ b = "losses" /\ claim = "Claimed" /\ now # "Claimed"
                 \/ b = "sendErrors" /\ k < Len(queue)})
      /\ Dispatch(a.ad, t.tim, events)
      /\ gn' = GnssOnTick(gn).gn
      /\ hb' = HeartbeatOnTick(hb, advance_millis(polled)).hb
      /\ polled' = Advanced(polled)
      /\ mp' = PowerOnTick(mp, advance_millis(polled)).mp
      /\ claim' = now /\ clk' = 0 /\ lag' = 0 /\ bus' = health
      /\ outbound' = Kept(queue, k)
      /\ hist' = Transmitted(hist, queue, k)
      /\ UNCHANGED <<persona, peer>>

\* The network manager may win or lose the address in its update().
Pump ==
  \E health \in {"Normal"} \cup (IF Meets("bus") THEN {"Degrade", "FailSafe"} ELSE {}),
     now \in {"None", "Claiming", "Claimed"},
     k \in 0 .. Len(outbound) + 2 + MaxPending :
       /\ claim = "None" => now # "Claimed"
       /\ Tick(health, now, k)

-----------------------------------------------------------------------------
(* The application, between calls.                                         *)

Operate(a) ==
  /\ Has("AutoDrive") /\ Meets("drive")
  /\ ad' = a
  /\ UNCHANGED <<persona, claim, clk, lag, bus, outbound, gn, hb, tim, mp,
                 polled, peer, used>>

Arm == check_preconditions(ad) /\ Operate(arm(ad)) /\ UNCHANGED hist

Engage ==
  /\ check_preconditions(ad)
  /\ Operate(engage(ad))
  /\ hist' = [hist EXCEPT !.command = 0]

Disengage == Operate(disengage(ad)) /\ UNCHANGED hist

Command ==
  /\ \E c \in Commands : Accepts(ad, c) /\ Operate(command(ad, c))
  /\ hist' = [hist EXCEPT !.command = 0]

ClearStop == MayClear(ad) /\ Operate(clear_stop(ad)) /\ UNCHANGED hist

OperateTim(t) ==
  /\ Has("Tim") /\ Meets("authority")
  /\ tim' = t
  /\ UNCHANGED <<persona, claim, clk, lag, bus, outbound, ad, gn, hb, mp,
                 polled, peer, used>>

RequestAuthority ==
  /\ \E options \in SUBSET TimCommand \ {{}} : OperateTim(request(tim, options))
  /\ UNCHANGED hist

GrantAuthority ==
  /\ MayGrant(tim) /\ OperateTim(grant(tim))
  /\ hist' = [hist EXCEPT !.keepalive = 0]

EndAuthority ==
  /\ \E state \in {"Denied", "Revoked"} :
       OperateTim([tim EXCEPT !.state = state])
  /\ UNCHANGED hist

SetInterlocks ==
  /\ \E blocked \in BOOLEAN : OperateTim(set_interlocks(tim, blocked))
  /\ UNCHANGED hist

SetSafeMode ==
  /\ \E safe \in BOOLEAN : OperateTim([tim EXCEPT !.safe = safe])
  /\ UNCHANGED hist

GuardedCommand ==
  /\ Len(tim.pending) + Len(outbound) < MaxPending
  /\ \E c \in TimCommand :
       Guarded(tim, c) /\ OperateTim([tim EXCEPT !.pending = Append(@, c)])
  /\ UNCHANGED hist

TurnKey ==
  /\ Has("MaintainPower") /\ Meets("switch")
  /\ mp' \in {key_off(mp), key_on(mp)}
  /\ UNCHANGED <<persona, claim, clk, lag, bus, outbound, ad, gn, hb, tim,
                 polled, peer, hist, used>>

-----------------------------------------------------------------------------
(* The rest of the world.                                                  *)

LoseBeat ==
  /\ Has("Heartbeat") /\ Meets("beat")
  /\ peer' = next_sequence(peer)
  /\ hist' = [hist EXCEPT !.lost = IF @ < MaxJump THEN @ + 1 ELSE @,
                          !.clean = /\ @ /\ hist.lost + 1 < MaxJump
                                    /\ peer'.sequence # INIT]
  /\ Spend({"lostBeats"})
  /\ UNCHANGED <<persona, claim, clk, lag, bus, outbound, ad, gn, hb, tim, mp,
                 polled>>

\* The peer declares a fault or its shutdown.
PeerSignals ==
  /\ Has("Heartbeat")
  /\ \E special \in {SENDER_ERROR, SHUTDOWN} : peer' = signal(peer, special)
  /\ hist' = [hist EXCEPT !.clean = FALSE]
  /\ Spend({"signals"})
  /\ UNCHANGED <<persona, claim, clk, lag, bus, outbound, ad, gn, hb, tim, mp,
                 polled>>

PeerRestarts ==
  /\ Has("Heartbeat")
  /\ peer' = NewSender
  /\ Spend({"signals"})
  /\ UNCHANGED <<persona, claim, clk, lag, bus, outbound, ad, gn, hb, tim, mp,
                 polled, hist>>

Elapse ==
  /\ lag < TickGap
  /\ lag' = lag + 1
  /\ clk' = IF clk = Never THEN clk ELSE clk + 1
  /\ LET back == MaxBack * (persona.limit["jumps"] - used["jumps"])
     IN  /\ ad' = AutoDriveOlder(ad, back) /\ gn' = GnssOlder(gn, back)
         /\ polled' = Older(polled, TickGap + back)
  /\ LET lost == MaxBack * persona.limit["jumps"]
     IN  hist' = [hist EXCEPT
                    !.command = Older(@, CommandStale + 2 * TickGap + lost),
                    !.info = Older(@, LinkTimeout + TickGap + lost),
                    !.keepalive = Older(@, AuthorityTimeout + 2 * TickGap + lost),
                    !.power = Older(@, MaintainTime)]
  /\ UNCHANGED <<persona, claim, bus, outbound, hb, tim, mp, peer, used>>

\* The host's clock is set back: every stored Instant is now later than it
\* was, by the same amount.
ClockJumps ==
  /\ \E d \in 1 .. MaxBack :
       /\ clk' = Rewound(clk, d)
       /\ ad' = AutoDriveRewound(ad, d) /\ gn' = GnssRewound(gn, d)
       /\ polled' = Rewound(polled, d)
  /\ Spend({"jumps"})
  /\ UNCHANGED <<persona, claim, lag, bus, outbound, hb, tim, mp, peer, hist>>

-----------------------------------------------------------------------------

Feed ==
  \/ FeedShortcutButton \/ FeedFacilities \/ FeedMachineInfo \/ FeedPosition
  \/ FeedTim \/ FeedPowerRequest \/ FeedKeyOff \/ FeedClaim \/ FeedBeat

Application ==
  \/ Arm \/ Engage \/ Disengage \/ Command \/ ClearStop
  \/ RequestAuthority \/ GrantAuthority \/ EndAuthority \/ SetInterlocks
  \/ SetSafeMode \/ GuardedCommand \/ TurnKey

World == LoseBeat \/ PeerSignals \/ PeerRestarts \/ Elapse \/ ClockJumps

Next == Feed \/ Pump \/ Application \/ World

Spec == Init /\ [][Next]_vars

-----------------------------------------------------------------------------
(* Properties.                                                             *)

\* AutoDrive as SafeStop sees it.  The hazards of the position are those of
\* the GNSS plugin itself, not AutoDrive's copy of them.
Mode ==
  IF ad.stop THEN "stopped" ELSE IF IsActive(ad) THEN "engaged" ELSE "idle"
Hazard ==
  Has("AutoDrive") /\ (ad.isbAsserted \/ gn.positionStale \/ gn.fixDegraded)

Promise == INSTANCE SafeStop WITH mode <- Mode, hazard <- Hazard

\* A session implements SafeStop: through every order of frames, ticks,
\* application calls, bus faults and clock jumps, a hazard stops AutoDrive
\* in the call that raises it, and no stop ends by itself.  The GNSS plugin
\* reports a hazard only once; AutoDrive has to remember it.
SafelyStops == Promise!Spec

\* A latched stop is a stop: no activity, and the setpoint is a halt.
StopMeansHalt ==
  ad.stop => ad.status = "Fault" /\ ad.setpoint = Halt

\* Once AutoDrive is not active but the tractor has last been told to
\* steer, taking that back is still owed (dirty) or on its way, whatever
\* happens to the address in between; only a transport error loses it.
WithdrawalIsOwed ==
  hist.onBus = "steer" /\ ~IsActive(ad) =>
    ad.dirty \/ "idle" \in Range(outbound) \/ hist.dropped

\* An active AutoDrive hears from the machine and from its application: the
\* silence of either is bounded by its watchdog, the interval of the pump,
\* and how far the clock was set back.
SteeringIsSupervised ==
  IsActive(ad) =>
    /\ hist.info < LinkTimeout + TickGap + MaxBack * used["jumps"]
    /\ hist.command < CommandStale + 2 * TickGap + MaxBack * used["jumps"]

\* A step in which the receiver finds fault with its peer, whatever it
\* thought of it before, or in which the address is lost, whoever notices
\* it, stops AutoDrive and sends TIM into safe mode in the same call.
FaultsStop ==
  [][(\/ hb'.state \notin {"Normal", hb.state}
      \/ claim = "Claimed" /\ claim' # "Claimed") =>
       /\ Has("AutoDrive") => ad'.stop
       /\ Has("Tim") => tim'.safe]_vars

\* No false alarm: a peer that declares nothing, restarts audibly, and
\* loses fewer beats in a row than the receiver tolerates, is never found
\* out of sequence.
CleanPeerIsTrusted ==
  hist.clean => hb.state \in {"Normal", "CommError"}

\* A grant stands only while the interlocks are clear and the peer has been
\* heard within the watchdog and two intervals of the pump: the first tick
\* of a session only sets the reference of the watchdog.
GrantIsCovered ==
  tim.state = "Granted" =>
    /\ ~tim.blocked
    /\ hist.keepalive < AuthorityTimeout + 2 * TickGap + MaxBack * used["jumps"]

\* The tractor cuts power no earlier than the time an implement asked for,
\* less one interval of the pump, unless the extension is used up; and the
\* same call sends TIM into safe mode.
PowerIsHeld ==
  [][mp.state # "PowerOff" /\ mp'.state = "PowerOff" =>
       /\ \/ hist.power = Never \/ hist.power >= MaintainTime - TickGap
          \/ mp'.shutdown >= MaxExtension
       /\ Has("Tim") => tim'.safe]_vars
==============================================================================
