-------------------------- MODULE SequenceControl --------------------------
(***************************************************************************)
(* ISO 11783-14 sequence control: one master (isobus/sc/master.rs) that    *)
(* plays a sequence of steps and the clients (isobus/sc/client.rs) that    *)
(* perform them, each wrapped in its session plugin.  Master and clients   *)
(* only exchange periodic status messages; acknowledgement, abort and loss *)
(* of a peer are all read off those.                                       *)
(*                                                                         *)
(* Time is counted in units of SC_STATUS_MIN_SPACING_MS.  Every station    *)
(* that has power is ticked once per unit, in any order, and has processed *)
(* the frames that reached it when it is (Session::feed comes before the   *)
(* plugins' ticks).                                                        *)
(***************************************************************************)
EXTENDS Integers, Sequences, FiniteSets

CONSTANTS
  Client,           \* the client stations
  Master,           \* the master station
  StepId,           \* the step ids the master's application may add
  RequiredClients,  \* SCMasterConfig::required_client_count()
  StatusInterval,   \* SCMasterConfig::status_interval_ms
  MinSpacing,       \* SCClientConfig::min_status_spacing_ms
  ActiveInterval,   \* SCClientConfig::active_status_interval_ms
  IdleInterval,     \* SC_STATUS_IDLE_RATE_MS, both sides
  ActiveLimit,      \* SC_STATUS_TIMEOUT_ACTIVE_MS, both sides
  ReadyLimit,       \* SC_STATUS_TIMEOUT_READY_MS, both sides
  BusyLimit,        \* SCClientConfig::busy_pause_timeout_ms
  BootTime,         \* a station is back no sooner: it claims an address first
  MaxLost,          \* how many frames the bus loses
  MaxOff,           \* how often a station loses power
  MaxOrders         \* how often applications abort, pause or change busy

Station == Client \cup {Master}

NOT_AVAILABLE == 255    \* SC_SEQUENCE_NUMBER_NOT_AVAILABLE

ASSUME StationAssumption ==
  IsFiniteSet(Client) /\ Master \notin Client /\ StepId \subseteq 0 .. 49

ASSUME CountAssumption == RequiredClients \in Nat \ {0}

ASSUME TimeAssumption ==
  /\ {StatusInterval, MinSpacing, ActiveInterval, IdleInterval,
      ActiveLimit, ReadyLimit, BusyLimit, BootTime} \subseteq Nat \ {0}
  /\ ActiveLimit <= ReadyLimit /\ BootTime <= ReadyLimit

VARIABLES
  master,   \* the SCMaster
  client,   \* the SCClient of each client station
  outbox,   \* ScClient::pending: statuses encoded and not yet sent
  rx,       \* the frames on their way to each station
  on,       \* the stations that have power
  ticked,   \* the stations that have had their tick of this time unit
  silent,   \* for how many time units each station has had no power
  played,   \* which client has performed which step since the run began
  used      \* how many frames were lost, power cuts and orders happened

vars == <<master, client, outbox, rx, on, ticked, silent, played, used>>

AtMost(bound, n) == IF n > bound THEN bound ELSE n

\* A handler's effect: the new state and the status messages it sends.
Result(s, frames) == [state |-> s, frames |-> frames]

-----------------------------------------------------------------------------
(* The status messages.                                                    *)

\* iso_sequence_state, the same on both sides.
iso_sequence_state(state) ==
  IF state \in {"Ready", "Paused"} THEN "Ready"
  ELSE IF state = "Active" THEN "PlayBack"
  ELSE IF state = "Error" THEN "Abort"
  ELSE "NotApplicable"

current_sequence_number(m) ==
  IF m.index \in DOMAIN m.steps THEN m.steps[m.index] ELSE NOT_AVAILABLE

\* What a master says; an inactive one has no sequence fields.
encode_master_status(m) ==
  [from |-> Master,
   active |-> m.state \notin {"Idle", "Complete"},
   sequence |-> iso_sequence_state(m.state),
   step |-> IF m.state \in {"Active", "Error"}
            THEN current_sequence_number(m) ELSE NOT_AVAILABLE]

\* What a client says, which restarts its transmit spacing; a disabled one
\* has no sequence fields.
encode_client_status_now(k, c) ==
  Result([c EXCEPT !.sinceStatus = 0],
         <<[from |-> k,
            active |-> c.state # "Idle",
            sequence |-> iso_sequence_state(c.state),
            step |-> IF c.state \in {"Active", "Error"}
                     THEN c.step ELSE NOT_AVAILABLE]>>)

-----------------------------------------------------------------------------
(* The client.                                                             *)

NewClient ==
  [state |-> "Idle", busy |-> FALSE, busyTimer |-> 0,
   sinceStatus |-> IdleInterval, statusPending |-> FALSE,
   masterAge |-> 0, step |-> 0]

request_status_send_inline(k, c) ==
  IF c.sinceStatus >= MinSpacing
  THEN encode_client_status_now(k, c)
  ELSE Result([c EXCEPT !.statusPending = TRUE], << >>)

clear_sequence_session(c) ==
  [c EXCEPT !.busy = FALSE, !.busyTimer = 0, !.statusPending = FALSE, !.step = 0]

set_busy(k, c, busy) ==
  request_status_send_inline(k, [c EXCEPT !.busy = busy, !.busyTimer = 0])

report_step_complete(k, c) == request_status_send_inline(k, c)

\* The state a master status calls for.
Requested(c, f) ==
  IF ~f.active THEN "Idle"
  ELSE IF f.sequence = "PlayBack" THEN "Active"
  ELSE IF f.sequence = "Abort" THEN "Error"
  ELSE IF c.state \in {"Active", "Paused"} THEN "Paused"
  ELSE "Ready"

\* Mutant: only a client that plays a step takes notice of an abort.
ObeysAbortWhenPlaying(c, state) ==
  CASE state = "Ready"  -> c.state \in {"Idle", "Error"}
    [] state = "Active" -> c.state \in {"Ready", "Active", "Paused"}
    [] state = "Paused" -> c.state = "Active"
    [] state = "Error"  -> c.state \in {"Active", "Paused"}
    [] state = "Idle"   -> c.state # "Idle"

\* Whether the client is in a state that obeys that call.
Obeys(c, state) ==
  CASE state = "Ready"  -> c.state \in {"Idle", "Error"}
    [] state = "Active" -> c.state \in {"Ready", "Active", "Paused"}
    [] state = "Paused" -> c.state = "Active"
    [] state = "Error"  -> TRUE
    [] state = "Idle"   -> c.state # "Idle"

try_handle_master_status(k, c, f) ==
  LET state == Requested(c, f)
      heard == [c EXCEPT !.masterAge = 0]
      moved ==
        IF state \in {"Ready", "Idle"} THEN clear_sequence_session(heard)
        ELSE IF state = "Active" THEN [heard EXCEPT !.step = f.step]
        ELSE heard
  IN IF Obeys(c, state)
     THEN request_status_send_inline(k, [moved EXCEPT !.state = state])
     ELSE Result(heard, << >>)

\* Mutant: a client waits as long for its master whatever it is doing.
MasterLimitAlwaysReady(c) == ReadyLimit

MasterLimit(c) == IF c.state = "Ready" THEN ReadyLimit ELSE ActiveLimit

MasterLost(c) ==
  c.state \notin {"Idle", "Error"} /\ c.masterAge >= MasterLimit(c)

TooLongBusy(c) ==
  c.busy /\ c.state \in {"Active", "Paused"} /\ c.busyTimer >= BusyLimit

StatusIntervalOf(c) ==
  IF c.state \in {"Active", "Error"} THEN ActiveInterval ELSE IdleInterval

\* The timers, one unit later; the ages stop where no limit tells them apart.
Aged(c) ==
  [c EXCEPT
     !.sinceStatus = AtMost(IdleInterval, @ + 1),
     !.masterAge = IF c.state = "Idle" THEN @ ELSE AtMost(ReadyLimit, @ + 1)]

AgedBusy(c) ==
  IF c.busy /\ c.state \in {"Active", "Paused"}
  THEN [c EXCEPT !.busyTimer = AtMost(BusyLimit, @ + 1)] ELSE c

client_update(k, old) ==
  LET c == Aged(old)
      b == AgedBusy(c)
  IN IF MasterLost(c)
     THEN encode_client_status_now(k,
            clear_sequence_session([c EXCEPT !.state = "Error"]))
     ELSE IF TooLongBusy(b)
     THEN encode_client_status_now(k,
            [b EXCEPT !.state = "Error", !.statusPending = FALSE])
     ELSE IF b.statusPending /\ b.sinceStatus >= MinSpacing
     THEN encode_client_status_now(k, [b EXCEPT !.statusPending = FALSE])
     ELSE IF b.sinceStatus >= StatusIntervalOf(b)
     THEN encode_client_status_now(k, b)
     ELSE Result(b, << >>)

-----------------------------------------------------------------------------
(* The master.                                                             *)

Nobody == [k \in {} |-> 0]

NewMaster ==
  [state |-> "Idle", steps |-> << >>, index |-> 1,
   statusTimer |-> 0, readyTimer |-> 0, activeTimer |-> 0,
   acked |-> FALSE, seen |-> Nobody, ready |-> {}, acks |-> {},
   confirmed |-> {}, abortSeen |-> {}]

\* transition: a new abort forgets who confirmed the last one.
Transition(m, state) ==
  IF state = "Error" /\ m.state # "Error"
  THEN [m EXCEPT !.state = state, !.confirmed = {}, !.abortSeen = {}]
  ELSE [m EXCEPT !.state = state]

CanAdd(m, step) ==
  m.state = "Idle" /\ \A i \in DOMAIN m.steps : m.steps[i] # step

add_step(m, step) == [m EXCEPT !.steps = Append(@, step)]

start(m) ==
  Transition([m EXCEPT !.index = 1, !.readyTimer = 0, !.statusTimer = 0,
                       !.acked = FALSE, !.ready = {}, !.acks = {}], "Ready")

\* The next update sends the Abort status.
abort(m) == Transition([m EXCEPT !.statusTimer = StatusInterval], "Error")

pause(m) == Transition(m, "Paused")

\* A step is dispatched: nobody has acknowledged it yet.
AwaitAcks(m) == [m EXCEPT !.activeTimer = 0, !.acked = FALSE, !.acks = {}]

resume(m) == Transition(AwaitAcks(m), "Active")

\* Mutant: the sequence is over one step too late.
StepCompletedBeyondEnd(m) ==
  LET next == [m EXCEPT !.index = @ + 1]
  IN IF m.index > Len(m.steps) THEN Transition(next, "Complete")
     ELSE AwaitAcks(next)

\* Mutant: the acknowledgements of the last step count for the next one.
StepCompletedKeepsAcks(m) ==
  LET next == [m EXCEPT !.index = @ + 1]
  IN IF m.index >= Len(m.steps) THEN Transition(next, "Complete") ELSE next

step_completed(m) ==
  LET next == [m EXCEPT !.index = @ + 1]
  IN IF m.index >= Len(m.steps) THEN Transition(next, "Complete")
     ELSE AwaitAcks(next)

rearm_after_abort(m) ==
  [m EXCEPT !.state = "Ready", !.confirmed = {}, !.abortSeen = {},
            !.ready = {}, !.acks = {}, !.acked = FALSE, !.index = 1,
            !.readyTimer = 0, !.activeTimer = 0, !.statusTimer = StatusInterval]

limit_for(reported) ==
  IF reported \in {"PlayBack", "Abort"} THEN ActiveLimit ELSE ReadyLimit

Silent(seen, k) == seen[k].age >= limit_for(seen[k].reported)

\* The Ready and Active timers of update().
StepTimeout(m) ==
  LET r == [m EXCEPT !.readyTimer = AtMost(ReadyLimit, @ + 1)]
      a == [m EXCEPT !.activeTimer = AtMost(ActiveLimit, @ + 1)]
  IN IF m.state = "Ready"
     THEN IF r.readyTimer >= ReadyLimit THEN Transition(r, "Error") ELSE r
     ELSE IF m.state = "Active" /\ ~m.acked
     THEN IF a.activeTimer >= ActiveLimit THEN Transition(a, "Error") ELSE a
     ELSE m

\* Mutant: clients are only watched until the step is acknowledged.
ClientTimeoutUntilAcked(m, was) ==
  LET seen == [k \in DOMAIN m.seen |->
                 [m.seen[k] EXCEPT !.age = AtMost(ReadyLimit, @ + 1)]]
      quiet == {k \in DOMAIN seen : Silent(seen, k)}
  IN IF was \notin {"Ready", "Active", "Paused"} THEN m
     ELSE IF quiet = {} \/ m.state = "Error" \/ m.acked
     THEN [m EXCEPT !.seen = seen]
     ELSE Transition([m EXCEPT !.seen =
                        [k \in DOMAIN seen \ quiet |-> seen[k]]], "Error")

\* The client watchdog of update(), which runs after the step timers.
ClientTimeout(m, was) ==
  LET seen == [k \in DOMAIN m.seen |->
                 [m.seen[k] EXCEPT !.age = AtMost(ReadyLimit, @ + 1)]]
      quiet == {k \in DOMAIN seen : Silent(seen, k)}
  IN IF was \notin {"Ready", "Active", "Paused"} THEN m
     ELSE IF quiet = {} \/ m.state = "Error" THEN [m EXCEPT !.seen = seen]
     ELSE Transition([m EXCEPT !.seen =
                        [k \in DOMAIN seen \ quiet |-> seen[k]]], "Error")

master_update(m) ==
  LET resting == m.state \in {"Idle", "Complete"}
      interval == IF resting THEN IdleInterval ELSE StatusInterval
      due == m.statusTimer + 1 >= interval
      paced == [m EXCEPT !.statusTimer = IF due THEN @ + 1 - interval ELSE @ + 1]
      after == ClientTimeout(StepTimeout(paced), m.state)
      aborted == [after EXCEPT !.statusTimer = 0]
  IN IF ~resting /\ after.state = "Error" /\ m.state # "Error"
     THEN Result(aborted, <<encode_master_status(aborted)>>)
     ELSE Result(IF resting THEN paced ELSE after,
                 IF due THEN <<encode_master_status(m)>> ELSE << >>)

\* The state a client status stands for.
Mapped(f) ==
  IF ~f.active THEN "Idle"
  ELSE IF f.sequence = "PlayBack" THEN "Active"
  ELSE IF f.sequence = "Abort" THEN "Error"
  ELSE "Ready"

\* An enabled client is enrolled and watched, a disabled one is forgotten.
Noted(m, f) ==
  [m EXCEPT !.seen =
     IF f.active
     THEN [k \in DOMAIN m.seen \cup {f.from} |->
             IF k = f.from THEN [age |-> 0, reported |-> f.sequence]
             ELSE m.seen[k]]
     ELSE [k \in DOMAIN m.seen \ {f.from} |-> m.seen[k]]]

\* Whether as many clients have confirmed the abort as are enrolled.
EnoughConfirmed(m) ==
  Cardinality(m.confirmed) >= (IF DOMAIN m.seen = {} THEN 1
                               ELSE Cardinality(DOMAIN m.seen))

\* A client confirms the abort by leaving Abort after it was seen in it.
InAbort(m, f) ==
  LET k == f.from
      n == IF Mapped(f) = "Error"
           THEN [m EXCEPT !.abortSeen = @ \cup {k}, !.confirmed = @ \ {k}]
           ELSE IF k \in m.abortSeen THEN [m EXCEPT !.confirmed = @ \cup {k}]
           ELSE m
  IN IF EnoughConfirmed(n) THEN rearm_after_abort(n) ELSE n

\* Mutant: one client more than required is waited for.
InReadyOneMore(m, f) ==
  LET ready == IF Mapped(f) = "Ready"
               THEN m.ready \cup {f.from} ELSE m.ready \ {f.from}
      n == [m EXCEPT !.ready = ready]
  IN IF Mapped(f) = "Ready" /\ Cardinality(ready) > RequiredClients
     THEN Transition(AwaitAcks(n), "Active") ELSE n

\* Ready clients are counted until there are enough of them to play.
InReady(m, f) ==
  LET ready == IF Mapped(f) = "Ready"
               THEN m.ready \cup {f.from} ELSE m.ready \ {f.from}
      n == [m EXCEPT !.ready = ready]
  IN IF Mapped(f) = "Ready" /\ Cardinality(ready) >= RequiredClients
     THEN Transition(AwaitAcks(n), "Active") ELSE n

Acknowledges(m, f) ==
  Mapped(f) = "Active" /\ f.step = current_sequence_number(m)

\* Mutant: acknowledgements are not taken back.
InActiveKeepsAcks(m, f) ==
  LET acks == m.acks \cup {f.from}
      n == [m EXCEPT !.acks = acks]
  IN IF ~Acknowledges(m, f) THEN m
     ELSE IF Cardinality(acks) >= RequiredClients
     THEN [n EXCEPT !.acked = TRUE, !.activeTimer = 0] ELSE n

\* Acknowledgements of the current step are counted, and taken back.
InActive(m, f) ==
  LET acks == IF Acknowledges(m, f)
              THEN m.acks \cup {f.from} ELSE m.acks \ {f.from}
      n == [m EXCEPT !.acks = acks]
  IN IF Acknowledges(m, f)
     THEN IF Cardinality(acks) >= RequiredClients
          THEN [n EXCEPT !.acked = TRUE, !.activeTimer = 0] ELSE n
     ELSE IF f.from \in m.acks /\ Cardinality(acks) < RequiredClients
          THEN [n EXCEPT !.acked = FALSE, !.activeTimer = 0] ELSE n

try_handle_client_status(m, f) ==
  LET n == Noted(m, f)
  IN IF Mapped(f) = "Error" /\ m.state \in {"Ready", "Active", "Paused"}
     THEN abort(n)
     ELSE IF m.state = "Error" THEN InAbort(n, f)
     ELSE IF m.state = "Ready" THEN InReady(n, f)
     ELSE IF m.state = "Active" THEN InActive(n, f)
     ELSE n

-----------------------------------------------------------------------------
(* The stations on the bus.                                                *)

Init ==
  /\ master = NewMaster
  /\ client = [k \in Client |-> NewClient]
  /\ outbox = [k \in Client |-> << >>]
  /\ rx = [n \in Station |-> << >>]
  /\ on = Station
  /\ ticked = {}
  /\ silent = [n \in Station |-> 0]
  /\ played = {}
  /\ used = [lost |-> 0, off |-> 0, orders |-> 0]

\* Master status is broadcast to the clients, client status goes to the
\* master; a station without power hears nothing.
Sent(queues, frames) ==
  [n \in Station |->
     IF n \in on THEN queues[n] \o SelectSeq(frames, LAMBDA f :
                                     (f.from = Master) # (n = Master))
     ELSE << >>]

\* Calls of the master's application.  They send nothing themselves.
Command(m) ==
  /\ Master \in on
  /\ master' = m
  /\ UNCHANGED <<client, outbox, rx, on, ticked, silent>>

AddStep ==
  /\ \E step \in StepId : CanAdd(master, step) /\ Command(add_step(master, step))
  /\ UNCHANGED <<played, used>>

Start ==
  /\ master.state = "Idle" /\ master.steps # << >>
  /\ Command(start(master))
  /\ played' = {}
  /\ UNCHANGED used

StepCompleted ==
  /\ master.state = "Active"
  /\ Command(step_completed(master))
  /\ UNCHANGED <<played, used>>

\* An order of an application, of which there are MaxOrders.
Order ==
  /\ used.orders < MaxOrders
  /\ used' = [used EXCEPT !.orders = @ + 1]
  /\ UNCHANGED played

Abort ==
  master.state \in {"Ready", "Active", "Paused"} /\ Command(abort(master)) /\ Order

Pause == master.state = "Active" /\ Command(pause(master)) /\ Order

Resume ==
  /\ master.state = "Paused"
  /\ Command(resume(master))
  /\ UNCHANGED <<played, used>>

\* Calls of a client's application, whose status waits for the next tick.
Report(k, r) ==
  /\ k \in on
  /\ client' = [client EXCEPT ![k] = r.state]
  /\ outbox' = [outbox EXCEPT ![k] = @ \o r.frames]
  /\ Order
  /\ UNCHANGED <<master, rx, on, ticked, silent>>

SetBusy(k) == Report(k, set_busy(k, client[k], ~client[k].busy))

ReportStepComplete(k) ==
  client[k].state = "Active" /\ Report(k, report_step_complete(k, client[k]))

\* The plugins' on_frame.
MasterProcess ==
  /\ rx[Master] # << >>
  /\ master' = try_handle_client_status(master, Head(rx[Master]))
  /\ rx' = [rx EXCEPT ![Master] = Tail(@)]
  /\ played' = IF master.state = "Error" /\ master'.state = "Ready" THEN {} ELSE played
  /\ UNCHANGED <<client, outbox, on, ticked, silent, used>>

ClientProcess(k) ==
  /\ rx[k] # << >>
  /\ LET f == Head(rx[k])
         r == try_handle_master_status(k, client[k], f)
     IN /\ client' = [client EXCEPT ![k] = r.state]
        /\ rx' = Sent([rx EXCEPT ![k] = Tail(@)], r.frames)
        /\ played' = IF Requested(client[k], f) = "Active" /\ Obeys(client[k], "Active")
                     THEN played \cup {<<k, f.step>>} ELSE played
  /\ UNCHANGED <<master, outbox, on, ticked, silent, used>>

\* The end of a time unit: every station that has power has had its tick.
Clocks(up, done) ==
  IF up \subseteq done
  THEN /\ ticked' = {}
       /\ silent' = [n \in Station |->
            IF n \in up THEN 0 ELSE AtMost(ReadyLimit + 2, silent[n] + 1)]
  ELSE ticked' = done /\ UNCHANGED silent

MayTick(n) == n \in on \ ticked /\ rx[n] = << >>

\* The plugins' on_tick.
MasterTick ==
  /\ MayTick(Master)
  /\ LET r == master_update(master)
     IN master' = r.state /\ rx' = Sent(rx, r.frames)
  /\ Clocks(on, ticked \cup {Master})
  /\ UNCHANGED <<client, outbox, on, played, used>>

ClientTick(k) ==
  /\ MayTick(k)
  /\ LET r == client_update(k, client[k])
     IN /\ client' = [client EXCEPT ![k] = r.state]
        /\ rx' = Sent(rx, outbox[k] \o r.frames)
        /\ outbox' = [outbox EXCEPT ![k] = << >>]
  /\ Clocks(on, ticked \cup {k})
  /\ UNCHANGED <<master, on, played, used>>

\* A frame is lost on its way to one station.
Lose(n) ==
  /\ used.lost < MaxLost /\ rx[n] # << >>
  /\ rx' = [rx EXCEPT ![n] = Tail(@)]
  /\ used' = [used EXCEPT !.lost = @ + 1]
  /\ UNCHANGED <<master, client, outbox, on, ticked, silent, played>>

\* A station loses power, and later starts again with new objects.
PowerOff(n) ==
  /\ used.off < MaxOff /\ n \in on /\ on # {n}
  /\ used' = [used EXCEPT !.off = @ + 1]
  /\ on' = on \ {n}
  /\ rx' = [rx EXCEPT ![n] = << >>]
  /\ master' = IF n = Master THEN NewMaster ELSE master
  /\ client' = [k \in Client |-> IF k = n THEN NewClient ELSE client[k]]
  /\ outbox' = [k \in Client |-> IF k = n THEN << >> ELSE outbox[k]]
  /\ Clocks(on \ {n}, ticked \ {n})
  /\ UNCHANGED played

PowerOn(n) ==
  /\ n \notin on /\ silent[n] >= BootTime
  /\ on' = on \cup {n}
  /\ silent' = [silent EXCEPT ![n] = 0]
  /\ UNCHANGED <<master, client, outbox, rx, ticked, played, used>>

\* What the stations' drivers do.
Drive ==
  \/ MasterProcess \/ MasterTick
  \/ \E k \in Client : ClientProcess(k) \/ ClientTick(k)

Next ==
  \/ AddStep \/ Start \/ StepCompleted \/ Abort \/ Pause \/ Resume
  \/ Drive
  \/ \E k \in Client : SetBusy(k) \/ ReportStepComplete(k)
  \/ \E n \in Station : Lose(n) \/ PowerOff(n) \/ PowerOn(n)

Spec == Init /\ [][Next]_vars

\* Drivers keep handing frames over and ticking the plugins: some station can
\* always be driven, so this is weak fairness of Drive.  No station is left
\* behind by it: a time unit ends only when all of them are done.
FairSpec == Spec /\ []<><<Drive>>_vars

\* The application, too, gets on with its sequence.
FairAppSpec == FairSpec /\ WF_vars(StepCompleted) /\ WF_vars(Resume)

-----------------------------------------------------------------------------
(* Properties.                                                             *)

SCState == {"Idle", "Ready", "Active", "Paused", "Complete", "Error"}

Reported == [age : 0 .. ReadyLimit, reported : {"Ready", "PlayBack", "Abort"}]

MasterRecord ==
  [state : SCState, steps : Seq(StepId), index : Nat \ {0},
   statusTimer : Nat, readyTimer : 0 .. ReadyLimit, activeTimer : 0 .. ActiveLimit,
   acked : BOOLEAN, seen : UNION {[K -> Reported] : K \in SUBSET Client},
   ready : SUBSET Client, acks : SUBSET Client,
   confirmed : SUBSET Client, abortSeen : SUBSET Client]

ClientRecord ==
  [state : SCState \ {"Complete"}, busy : BOOLEAN, busyTimer : 0 .. BusyLimit,
   sinceStatus : 0 .. IdleInterval, statusPending : BOOLEAN,
   masterAge : 0 .. ReadyLimit, step : StepId \cup {0}]

\* Master and clients keep to their states and timers.  While a sequence runs
\* the master is at one of its steps, and its status is never more than an
\* interval away.
TypeOK ==
  /\ master \in MasterRecord
  /\ master.state \in {"Ready", "Active", "Paused", "Error"} =>
       /\ master.index \in DOMAIN master.steps
       /\ master.statusTimer <= StatusInterval
  /\ client \in [Client -> ClientRecord]
  /\ on \subseteq Station /\ ticked \subseteq on

\* Every client the master counts, as ready or as having acknowledged the
\* step, is one its watchdog watches, and an acknowledged step is one that
\* enough of them acknowledge (try_handle_client_status and update edit the
\* three sets in different branches).
CreditedAreWatched ==
  /\ master.state = "Ready" => master.ready \subseteq DOMAIN master.seen
  /\ master.state = "Active" =>
       /\ master.acks \subseteq DOMAIN master.seen
       /\ master.acked => Cardinality(master.acks) >= RequiredClients

\* A client counted as having acknowledged the step has performed that step
\* in this run, however late its status messages are.
AcksAreEarned ==
  master.state = "Active" =>
    \A k \in master.acks : <<k, current_sequence_number(master)>> \in played

\* Within the reception timeout of an enrolled client's power loss the master
\* has halted the sequence, also when the client had acknowledged its step.
SilentClientHaltsMaster ==
  master.state \in {"Ready", "Active", "Paused"} =>
    \A k \in DOMAIN master.seen \ on :
      silent[k] <= limit_for(master.seen[k].reported)

\* Within the active timeout of the master's power loss no client performs a
\* step any more, also when its last status said otherwise.
ClientsHaltWithoutMaster ==
  \A k \in on \ {Master} :
    client[k].state = "Active" => silent[Master] <= ActiveLimit

\* A sequence somebody aborts stops everywhere: by then or in the end every
\* client that has power has left its step and says Abort.
AbortStopsEveryone ==
  master.state = "Error" ~> {client[k].state : k \in Client} = {"Error"}

\* With an application that completes its steps and nobody interfering, a
\* started sequence is played to its end.
SequenceCompletes ==
  master.state = "Ready" ~>
    (master.state = "Complete" \/ used.lost + used.off + used.orders > 0)

\* The master leaves Abort again, so that another sequence can run
\* (abort_confirmed, rearm_after_abort).
AbortEnds == master.state = "Error" ~> master.state # "Error"
=============================================================================
