-------------------------------- MODULE IsoNet --------------------------------
(***************************************************************************)
(* Address claiming on a CAN segment: several stations, each one an IsoNet *)
(* (net/network_manager/iso_network_manager.rs) that hosts one internal CF *)
(* as a Session does, tracks one partner CF and runs transports from its   *)
(* address.                                                                *)
(*                                                                         *)
(* The bus is a CAN segment: a frame that is sent reaches every other      *)
(* station, in the order of sending, and never its sender.  Each station   *)
(* processes its own receive queue at its own speed, and its timers run on *)
(* its own update() calls: Tick(s).  `ticked` keeps the stations' clocks   *)
(* within one tick of each other, and `late` bounds how long a frame may   *)
(* wait.  With TimerFirst (Session::feed runs update() before it hands over *)
(* the frame) a frame waits through at most one Tick of its receiver.      *)
(* Without it the station owns its endpoints: update() ages the partners   *)
(* (BeginUpdate), drains and processes the received frames, and drives the *)
(* claimers last (Tick), so a frame waits through no Tick.                 *)
(***************************************************************************)
EXTENDS PartnerCf, FiniteSets

CONSTANTS
  Station,            \* the stations of the segment
  NameOf,             \* [Station -> Name]: the NAME a station is built with
  PreferredOf,        \* [Station -> Address]: its preferred address
  RtxdOf,             \* [Station -> 0 .. MaxRtxd]: rtxd_for_name of its NAME
  WatchedBy,          \* [Station -> SUBSET Name]: NAMEs its partner filters match
  AdoptableBy,        \* [Station -> SUBSET Name]: NAMEs it may be told to adopt
  CommandedAddresses, \* the addresses a configuration tool commands
  TimerFirst,         \* whether timers run before the frames that have arrived
  ViolationInterval,  \* ADDRESS_VIOLATION_RESPONSE_INTERVAL_MS, in ticks
  MaxStarts, MaxCommands, MaxRequests, MaxData, MaxPowerCycles, \* bounds
  Exclusive           \* kinds of environment action a behaviour has one of

ASSUME StationAssumption ==
  /\ NameOf \in [Station -> Name]
  /\ PreferredOf \in [Station -> Address]
  /\ RtxdOf \in [Station -> 0 .. MaxRtxd]
  /\ WatchedBy \in [Station -> SUBSET Name]
  /\ AdoptableBy \in [Station -> SUBSET Name]
  /\ CommandedAddresses \subseteq 0 .. BROADCAST_ADDRESS

ASSUME BusAssumption ==
  /\ TimerFirst \in BOOLEAN
  /\ ViolationInterval \in Nat \ {0}
  /\ MaxStarts \in Nat /\ MaxCommands \in Nat /\ MaxRequests \in Nat
  /\ MaxData \in Nat /\ MaxPowerCycles \in Nat
  /\ Exclusive \subseteq {"starts", "commands", "requests", "data", "cycles"}

VARIABLES
  cf,          \* internal_cfs and claimers: one CF record per station
  partner,     \* partner_cfs: one partner record per station
  violations,  \* recent_violations: pairs <<source address, age>>
  transports,  \* local addresses of TP/ETP sessions and of queued transmits
  rx,          \* frames received and not yet processed
  late,        \* how many of them were there at the station's last Tick
  updating,    \* stations in the middle of an update() that drains endpoints
  ticked,      \* stations whose clock is one tick ahead of the others
  used         \* how often each bounded environment action has happened

vars == <<cf, partner, violations, transports, rx, late, updating, ticked, used>>

Bounded == {"starts", "commands", "requests", "data", "cycles"}

Bounds == [starts |-> MaxStarts, commands |-> MaxCommands,
           requests |-> MaxRequests, data |-> MaxData, cycles |-> MaxPowerCycles]

TypeOK ==
  /\ cf \in [Station -> CFRecord]
  /\ partner \in [Station -> PartnerRecord]
  /\ violations \in [Station -> SUBSET (Claimable \X Nat)]
  /\ transports \in [Station -> SUBSET Claimable]
  /\ rx \in [Station -> Seq(Frame)]
  /\ late \in [Station -> Nat]
  /\ updating \in SUBSET Station
  /\ ticked \in SUBSET Station
  /\ used \in [Bounded -> Nat]

NewStation(s) == NewCF(NameOf[s], PreferredOf[s], RtxdOf[s])

Init ==
  /\ cf = [s \in Station |-> NewStation(s)]
  /\ partner = [s \in Station |-> NewPartner]
  /\ violations = [s \in Station |-> {}]
  /\ transports = [s \in Station |-> {}]
  /\ rx = [s \in Station |-> << >>]
  /\ late = [s \in Station |-> 0]
  /\ updating = {}
  /\ ticked = {}
  /\ used = [b \in Bounded |-> 0]

-----------------------------------------------------------------------------
(* The bus.                                                                *)

\* The receive queues after `sender` has put `frames` on the bus.
Broadcast(queues, sender, frames) ==
  [s \in Station |-> IF s = sender THEN queues[s] ELSE queues[s] \o frames]

\* The receive queues after a tool that is not a station has sent `frame`.
BroadcastAll(queues, frame) == [s \in Station |-> Append(queues[s], frame)]

\* Station s takes the first frame of its queue and answers with `frames`.
TakeAndSend(s, frames) ==
  /\ rx' = Broadcast([rx EXCEPT ![s] = Tail(@)], s, frames)
  /\ late' = [late EXCEPT ![s] = IF @ > 0 THEN @ - 1 ELSE 0]

Use(what) == /\ used[what] < Bounds[what]
             /\ what \in Exclusive => \A b \in Exclusive \ {what} : used[b] = 0
             /\ used' = [used EXCEPT ![what] = @ + 1]

-----------------------------------------------------------------------------
(* discontinue_address: what is left of a station's transports when the    *)
(* address in `vacated` stops being its own.                               *)

discontinue_address(open, vacated) == open \ {vacated}

\* The addresses the update() loop and the claim handlers treat as given up.
SurrenderedByUpdate(before, after) ==
  /\ before.address # NULL_ADDRESS
  /\ \/ after.address # before.address
     \/ before.online /\ ~after.online

\* Mutant: only a changed address counts as given up.
SurrenderedIfMoved(before, after) == after.address # before.address

SurrenderedByClaim(before, after) ==
  \/ after.address # before.address
  \/ ~after.online

-----------------------------------------------------------------------------
(* Operations of the station's owner.                                      *)

\* start_address_claiming, first and repeated: Session::start and the
\* RestartAddressClaim action of a plugin.
StartClaiming(s) ==
  LET r == start(cf[s])
  IN /\ Use("starts")
     /\ cf' = [cf EXCEPT ![s] = r.cf]
     /\ rx' = Broadcast(rx, s, r.tx)
     /\ UNCHANGED <<partner, violations, transports, late, updating, ticked>>

\* The SetName action: adopt a NAME received by NAME management and re-claim.
AdoptName(s) ==
  \E name \in AdoptableBy[s] :
    LET r == start([cf[s] EXCEPT !.name = name])
    IN /\ name # cf[s].name
       /\ Use("starts")
       /\ cf' = [cf EXCEPT ![s] = r.cf]
       /\ rx' = Broadcast(rx, s, r.tx)
       /\ UNCHANGED <<partner, violations, transports, late, updating, ticked>>

\* send_address_claim_responses: NAME management's RequestAddressClaim.
SendClaimResponses(s) ==
  LET r == handle_request_for_claim(cf[s])
  IN /\ Use("requests")
     /\ cf' = [cf EXCEPT ![s] = r.cf]
     /\ rx' = Broadcast(rx, s, r.tx)
     /\ UNCHANGED <<partner, violations, transports, late, updating, ticked>>

\* The gate at the top of IsoNet::send.
MaySend(c) == c.claim = "Claimed" /\ c.online /\ c.address <= MaxAddress

\* send of a message that fits one frame.
SendSingleFrame(s) ==
  /\ MaySend(cf[s])
  /\ Use("data")
  /\ rx' = Broadcast(rx, s, <<[kind |-> "data", source |-> cf[s].address]>>)
  /\ UNCHANGED <<cf, partner, violations, transports, late, updating, ticked>>

\* send of a longer message: a session, or a queued transmit behind one.
OpenTransport(s) ==
  /\ MaySend(cf[s])
  /\ Use("data")
  /\ transports' = [transports EXCEPT ![s] = @ \cup {cf[s].address}]
  /\ rx' = Broadcast(rx, s, <<[kind |-> "data", source |-> cf[s].address]>>)
  /\ UNCHANGED <<cf, partner, violations, late, updating, ticked>>

\* update() pumps the transport engines whatever the claim state is; whether
\* a transport has a frame to send at this update() is the engine's business.
PumpTransport(s) ==
  \E address \in transports[s] :
    /\ TimerFirst \/ s \in updating
    /\ Use("data")
    /\ rx' = Broadcast(rx, s, <<[kind |-> "data", source |-> address]>>)
    /\ UNCHANGED <<cf, partner, violations, transports, late, updating, ticked>>

\* A transport ends: completed, aborted or timed out.
FinishTransport(s) ==
  \E address \in transports[s] :
    /\ transports' = [transports EXCEPT ![s] = @ \ {address}]
    /\ UNCHANGED <<cf, partner, violations, rx, late, updating, ticked, used>>

\* The station loses power and is built again.
PowerCycle(s) ==
  /\ Use("cycles")
  /\ cf' = [cf EXCEPT ![s] = NewStation(s)]
  /\ partner' = [partner EXCEPT ![s] = NewPartner]
  /\ violations' = [violations EXCEPT ![s] = {}]
  /\ transports' = [transports EXCEPT ![s] = {}]
  /\ rx' = [rx EXCEPT ![s] = << >>]
  /\ late' = [late EXCEPT ![s] = 0]
  /\ updating' = updating \ {s}
  /\ UNCHANGED ticked

-----------------------------------------------------------------------------
(* process_frame, one action per kind of frame.                            *)

\* The guard of handle_duplicate_internal_name: another device uses our NAME
\* at an address that is not ours.
IsDuplicateName(c, frame) ==
  /\ frame.name = c.name
  /\ c.attempted
  /\ c.claim # "Failed"
  /\ frame.address # c.address

handle_duplicate_internal_name(c, frame) ==
  IF IsDuplicateName(c, frame) THEN handle_duplicate_name(c) ELSE Result(c, << >>)

\* What handle_address_claim makes of the partner.
TrackPartner(s, frame) ==
  IF frame.name \notin WatchedBy[s] THEN partner[s]
  ELSE IF frame.address = NULL_ADDRESS
  THEN note_cannot_claim_seen(partner[s], frame.name)
  ELSE note_address_claim_seen(partner[s], frame.name, frame.address)

\* handle_address_claim on a claim of a claimable address.
ReceiveClaim(s) ==
  /\ rx[s] # << >>
  /\ Head(rx[s]).kind = "claim"
  /\ Head(rx[s]).address <= MaxAddress
  /\ LET frame == Head(rx[s])
         first == handle_duplicate_internal_name(cf[s], frame)
         second == handle_claim(first.cf, frame.address, frame.name)
         kept1 == IF IsDuplicateName(cf[s], frame) /\ SurrenderedByClaim(cf[s], first.cf)
                  THEN discontinue_address(transports[s], cf[s].address)
                  ELSE transports[s]
         kept2 == IF SurrenderedByClaim(first.cf, second.cf)
                  THEN discontinue_address(kept1, first.cf.address)
                  ELSE kept1
     IN /\ cf' = [cf EXCEPT ![s] = second.cf]
        /\ transports' = [transports EXCEPT ![s] = kept2]
        /\ partner' = [partner EXCEPT ![s] = TrackPartner(s, frame)]
        /\ TakeAndSend(s, first.tx \o second.tx)
  /\ UNCHANGED <<violations, updating, ticked, used>>

\* handle_address_claim on Cannot Claim Address: only partners care.
ReceiveCannotClaim(s) ==
  /\ rx[s] # << >>
  /\ Head(rx[s]).kind = "claim"
  /\ Head(rx[s]).address > MaxAddress
  /\ partner' = [partner EXCEPT ![s] = TrackPartner(s, Head(rx[s]))]
  /\ TakeAndSend(s, << >>)
  /\ UNCHANGED <<cf, violations, transports, updating, ticked, used>>

\* handle_request_for_address_claim.
ReceiveRequest(s) ==
  /\ rx[s] # << >>
  /\ Head(rx[s]).kind = "request"
  /\ LET destination == Head(rx[s]).destination
         r == IF destination \in {BROADCAST_ADDRESS, cf[s].address}
              THEN handle_request_for_claim(cf[s]) ELSE Result(cf[s], << >>)
     IN /\ cf' = [cf EXCEPT ![s] = r.cf]
        /\ partner' = [partner EXCEPT ![s] =
             IF @.online /\ destination \in {BROADCAST_ADDRESS, @.address}
             THEN begin_claim_validation(@) ELSE @]
        /\ TakeAndSend(s, r.tx)
  /\ UNCHANGED <<violations, transports, updating, ticked, used>>

\* occupied_by_other of handle_commanded_address_message.
OccupiedByOther(s, frame) ==
  \/ /\ cf[s].address = frame.address
     /\ cf[s].name # frame.name
     /\ cf[s].claim = "Claimed"
  \/ /\ partner[s].address = frame.address
     /\ partner[s].name # frame.name
     /\ partner[s].online

\* The internal CFs handle_commanded_address_message does not skip.
AcceptsCommand(c, frame) ==
  /\ c.name = frame.name
  /\ \/ c.claim = "Failed"
     \/ c.claim = "Claimed" /\ c.online

\* Mutant: the commanded address is taken without claiming it.
TakeCommandedSilently(s, frame) ==
  LET c == cf[s]
  IN IF \/ frame.address > MaxAddress
        \/ ~AcceptsCommand(c, frame)
        \/ OccupiedByOther(s, frame)
     THEN Result(c, << >>)
     ELSE Result([c EXCEPT !.address = frame.address, !.online = TRUE,
                    !.claim = "Claimed"], << >>)

handle_commanded_address_message(s, frame) ==
  LET c == cf[s]
  IN IF frame.address > MaxAddress \/ ~AcceptsCommand(c, frame)
     THEN Result(c, << >>)
     ELSE IF OccupiedByOther(s, frame)
     THEN Result(c, IF c.claim = "Failed" THEN << >>
                    ELSE <<make_claim_frame(c.name, c.address)>>)
     ELSE Result([c EXCEPT !.address = frame.address, !.online = TRUE,
                    !.claim = "Claimed"],
                 <<make_claim_frame(c.name, frame.address)>>)

\* drain_transport_completions of a Commanded Address message.
ReceiveCommand(s) ==
  /\ rx[s] # << >>
  /\ Head(rx[s]).kind = "commanded"
  /\ LET r == handle_commanded_address_message(s, Head(rx[s]))
     IN /\ cf' = [cf EXCEPT ![s] = r.cf]
        /\ transports' = [transports EXCEPT ![s] =
             IF r.cf.address # cf[s].address
             THEN discontinue_address(@, cf[s].address) ELSE @]
        /\ TakeAndSend(s, r.tx)
  /\ UNCHANGED <<partner, violations, updating, ticked, used>>

\* check_address_violation, before any other frame is routed.
ReceiveData(s) ==
  /\ rx[s] # << >>
  /\ Head(rx[s]).kind = "data"
  /\ LET source == Head(rx[s]).source
         violated == /\ source <= MaxAddress
                     /\ \A v \in violations[s] : v[1] # source
                     /\ cf[s].claim = "Claimed"
                     /\ cf[s].address = source
         r == IF violated THEN handle_request_for_claim(cf[s]) ELSE Result(cf[s], << >>)
     IN /\ cf' = [cf EXCEPT ![s] = r.cf]
        /\ violations' = [violations EXCEPT ![s] =
             IF violated THEN @ \cup {<<source, 0>>} ELSE @]
        /\ TakeAndSend(s, r.tx)
  /\ UNCHANGED <<partner, transports, updating, ticked, used>>

-----------------------------------------------------------------------------
(* IsoNet::update for one tick of elapsed time.                            *)

AgedViolations(s) ==
  {<<v[1], v[2] + 1>> : v \in {w \in violations[s] : w[2] + 1 < ViolationInterval}}

\* update() of a station that owns its endpoints, up to the draining of them.
BeginUpdate(s) ==
  /\ ~TimerFirst
  /\ s \notin updating \cup ticked
  /\ partner' = [partner EXCEPT ![s] = update_claim_validation(@)]
  /\ violations' = [violations EXCEPT ![s] = AgedViolations(s)]
  /\ updating' = updating \cup {s}
  /\ UNCHANGED <<cf, transports, rx, late, ticked, used>>

MayTick(s) ==
  /\ s \notin ticked
  /\ IF TimerFirst THEN late[s] = 0 ELSE s \in updating /\ rx[s] = << >>

\* The claimers' part of update(); all of it when there is nothing to drain.
Tick(s) ==
  LET r == claimer_update(cf[s])
  IN /\ MayTick(s)
     /\ partner' = IF TimerFirst
                   THEN [partner EXCEPT ![s] = update_claim_validation(@)] ELSE partner
     /\ violations' = IF TimerFirst
                      THEN [violations EXCEPT ![s] = AgedViolations(s)] ELSE violations
     /\ cf' = [cf EXCEPT ![s] = r.cf]
     /\ transports' = [transports EXCEPT ![s] =
          IF SurrenderedByUpdate(cf[s], r.cf)
          THEN discontinue_address(@, cf[s].address) ELSE @]
     /\ rx' = Broadcast(rx, s, r.tx)
     /\ late' = [late EXCEPT ![s] = Len(rx[s])]
     /\ updating' = updating \ {s}
     /\ ticked' = IF ticked \cup {s} = Station THEN {} ELSE ticked \cup {s}
     /\ UNCHANGED used

-----------------------------------------------------------------------------
(* Other devices on the segment.                                           *)

\* A tool requests address claims, of everyone or of one address.
ToolRequest ==
  \E destination \in {BROADCAST_ADDRESS} \cup {PreferredOf[s] : s \in Station} :
    /\ Use("requests")
    /\ rx' = BroadcastAll(rx, [kind |-> "request", destination |-> destination])
    /\ UNCHANGED <<cf, partner, violations, transports, late, updating, ticked>>

\* A configuration tool commands the CF with some NAME to another address.
ToolCommand ==
  \E s \in Station, address \in CommandedAddresses :
    /\ Use("commands")
    /\ rx' = BroadcastAll(rx, [kind |-> "commanded", address |-> address,
                               name |-> cf[s].name])
    /\ UNCHANGED <<cf, partner, violations, transports, late, updating, ticked>>

\* process_frame on the next received frame.
Process(s) ==
  /\ TimerFirst \/ s \in updating
  /\ \/ ReceiveClaim(s) \/ ReceiveCannotClaim(s) \/ ReceiveRequest(s)
     \/ ReceiveCommand(s) \/ ReceiveData(s)

Operate(s) ==
  /\ s \notin updating
  /\ \/ StartClaiming(s) \/ AdoptName(s) \/ SendClaimResponses(s)
     \/ SendSingleFrame(s) \/ OpenTransport(s)

Next ==
  \/ \E s \in Station :
       \/ Operate(s) \/ PumpTransport(s) \/ FinishTransport(s) \/ PowerCycle(s)
       \/ BeginUpdate(s) \/ Process(s) \/ Tick(s)
  \/ ToolRequest
  \/ ToolCommand

Spec == Init /\ [][Next]_vars

\* What the owner of a station does over and over.
Drive == \E s \in Station : BeginUpdate(s) \/ Process(s) \/ Tick(s)

\* The owners of the stations keep pumping them: received frames are processed
\* and update() keeps being called.  Some station can always be driven, so this
\* is weak fairness of Drive; none is left behind by it, as their clocks stay
\* within one tick of each other and no frame waits longer than that.
FairSpec == Spec /\ []<><<Drive>>_vars

-----------------------------------------------------------------------------
(* Properties.                                                             *)

\* The claim state, the Online/Offline state and the address of a CF agree:
\* send() and is_addressed_to_us() rely on Claimed alone, the session layer on
\* the others.
ClaimConsistent == \A s \in Station : Consistent(cf[s])

Conflict(s, t) ==
  /\ s # t
  /\ cf[s].claim = "Claimed" /\ cf[t].claim = "Claimed"
  /\ cf[s].address = cf[t].address
  /\ cf[s].name # cf[t].name

\* Two control functions with different NAMEs never hold the same address:
\* the listen window and the contention guard are long enough for every
\* answer to arrive, unless an address has been commanded.
UniqueClaimedAddress ==
  used["commands"] = 0 => \A s, t \in Station : ~Conflict(s, t)

HasClaim(s, address) ==
  \E i \in 1 .. Len(rx[s]) : rx[s][i].kind = "claim" /\ rx[s][i].address = address

\* A commanded address is taken without a contention window, so then two CFs
\* can hold it, and only then; but a claim that makes one of them yield is on
\* its way.
ConflictIsContested ==
  \A s, t \in Station :
    Conflict(s, t) =>
      /\ used["commands"] > 0
      /\ HasClaim(s, cf[s].address) \/ HasClaim(t, cf[t].address)

\* No transport session or queued transmit runs on an address that its
\* station does not hold: what discontinue_address is for.
TransportOnHeldAddress ==
  \A s \in Station : \A address \in transports[s] :
    cf[s].online /\ cf[s].address = address

\* An online partner is where its station last heard it: once all received
\* frames are processed, the CF with that NAME has that address.
PartnerTracksPeer ==
  \A s, t \in Station :
    (/\ s # t /\ rx[s] = << >>
     /\ partner[s].online /\ partner[s].name = cf[t].name)
       => partner[s].address = cf[t].address

\* A CF that has given up, after a duplicate NAME or for want of an address,
\* stays off the bus until it is started again or commanded: no timer brings
\* it back.
TimersKeepFailed ==
  [][\A s \in Station :
       cf[s].claim = "Failed" /\ Tick(s) => cf'[s].claim = "Failed"]_vars

Settled(s) ==
  /\ cf[s].claim \in {"None", "Claimed"}
  /\ ~cf[s].listen /\ ~cf[s].reclaim

\* Claiming terminates: once nobody restarts or commands a CF any more, every
\* CF that has claimed holds an address for good, where the configurable range
\* has room for everyone; no two of them chase each other and none gives up.
ClaimingSettles == <>[](\A s \in Station : Settled(s))
=============================================================================
