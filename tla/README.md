# machbus in TLA+

machbus is a Rust stack for ISO 11783 (ISOBUS), J1939 and NMEA 2000: address
claiming, transport protocols and a set of machine functions (virtual terminal,
task controller, file server, sequence control, guidance, ...) that run as
plugins of a `Session`. The modules here model its protocol core. TLC checks
them on small segments; TLAPS proves the results that do not depend on the size
of the segment.

`PROJECT.json` is the index: components, runs, the source lines behind every
definition, findings, hazards, theorems, and for every checked property a
plausible bug that breaks it.

## 1. The system and its parts

| Layer | Parts (source) | Here |
|---|---|---|
| Identity and addresses | `net/address_claimer`, `net/internal_cf`, `net/partner_cf` | `AddressClaimer`, `PartnerCf` |
| Network manager | `net/network_manager/iso_network_manager` (IsoNet) | `IsoNet` (claims, partners, commanded address, address violations, transport teardown); `TransportProtocol` (queue of transmits) |
| Transports | `net/tp` | `TransportProtocol` |
| Session | `session/mod`, `session/driver` | `Session` (dispatch of frames, ticks and events to plugins; the driver's pump) |
| Functions that move the machine | `session/plugins`: AutoDrive, GNSS, heartbeat, TIM, maintain power; `isobus` state machines behind them | `AutoDrive`, `Gnss`, `Heartbeat`, `Tim`, `MaintainPower`; `SafeStop` is what a session promises of them |
| Sequence control | `isobus/sc` master and client, their plugins | `SequenceControl` |
| File server | `isobus/fs` server and client | `FileServer`, `FileClient`, `FileService` |
| Not modelled | see section 5 | |

How they interact: a driver hands received frames to IsoNet and calls
`update(elapsed)`. IsoNet gives claim frames to the claimers, transport frames to
the TP and ETP engines, and everything that is left, with every message a
transport has assembled, to its subscribers. When a claimer gives an address up,
IsoNet closes the transports that run on it. A `Session` owns an IsoNet and its
plugins; it feeds frames, ticks the plugins and sends what they return. A plugin
only sees messages, ticks, the events of other plugins and the commands of its
application.

## 2. The modules

Each component is a module. Pure handlers of the code (a method that takes a
state and returns frames) are operators that return the new state and the frames;
the actions put them on the bus. Mutated forms of a definition stand just before
it, marked "Mutant".

### AddressClaimer, PartnerCf, IsoNet: claiming an address

`AddressClaimer` is one local control function (CF): an `InternalCf` with its
claimer in one record. Its operators are `start`, `finish_listen`, `update` (listen
window, delayed Cannot Claim, delayed re-claim, contention guard),
`handle_claim`, `handle_duplicate_name` and `handle_request_for_claim`. A NAME is
a number, because only the order of NAMEs is ever used; the self-configurable bit
is membership of a set. `PartnerCf` is a tracked remote CF with its validation
timer.

`IsoNet` puts stations on a segment.

| State | Code |
|---|---|
| `cf`, `partner` | `internal_cfs` with `claimers`; `partner_cfs` |
| `violations` | `recent_violations` with their age |
| `transports` | local addresses of TP and ETP sessions and of queued transmits |
| `rx`, `late`, `updating`, `ticked` | the driver's queue, and where `update()` stands |

| Action | Code |
|---|---|
| `StartClaiming`, `AdoptName`, `SendClaimResponses`, `SendSingleFrame`, `OpenTransport` (together `Operate`) | what the owner calls |
| `PumpTransport`, `FinishTransport` | the transport engines, as far as addresses are concerned |
| `ReceiveClaim`, `ReceiveCannotClaim`, `ReceiveRequest`, `ReceiveCommand`, `ReceiveData` (together `Process`) | the branches of frame processing |
| `BeginUpdate`, `Tick` | `update()`: partners and violations age first, claimers last |
| `ToolRequest`, `ToolCommand`, `PowerCycle` | the rest of the world |

A CAN segment delivers every frame to everyone but its sender, in one order. What
differs between stations is when they process it. `TimerFirst` selects between the
two ways the code is driven: `Session::feed` runs `update()` before it hands over
the frame, so a frame can wait through one timer step; a station that owns its
endpoints drains them within `update()`.

### TransportProtocol: RTS/CTS connections and broadcasts

Every node has one engine (a set of sessions) and the queue `pending_transport_tx`
that IsoNet keeps behind it. `Send` is `IsoNet::send` of a long message,
`HandleRts`, `HandleCts`, `HandleEoma`, `HandleBam`, `HandleAbort` and `HandleDt` are
the branches of `process_frame`, `Update` is the whole of the transport part of
`update()` (timeouts, then the data of every session that is cleared to send, then
queued transmits that can start), `Discontinue` is `discontinue_address`. The
environment loses frames (`Lose`) and sends what a receiver of another make may
(`ForeignCts`: holds, rewinds and windows that this engine never grants).

A payload is a message with an identity and a size in packets; packet i of message
m is the pair of both, so an application that is handed parts of two messages is
visible. The order of the session table, which `swap_remove` shuffles, is left
open: where the code takes the first match, the model takes any.

With `Prompt`, a node has processed what it received before each `update()`.
Without it nodes are arbitrarily slow, and every timeout races every frame.

### SequenceControl: master and clients of ISO 11783-14

Master and clients exchange periodic status messages only. Acknowledgement of a
step, abort, and the loss of a peer are all read off those, so the properties are
about what one side concludes from the other's messages.

The master's application calls `AddStep`, `Start`, `StepCompleted`, `Abort`, `Pause`
and `Resume`; a client's calls `SetBusy` and `ReportStepComplete`. `Drive` is a
station that processes a frame (`MasterProcess`, `ClientProcess`) or is ticked
(`MasterTick`, `ClientTick`, with everything `update` does: reception timeouts, the
step timeout, busy timeout and the periodic status). `Lose`, `PowerOff` and
`PowerOn` are faults. `silent` and `played` are history: how long a station has been
without power, and which client has performed which step of this run.

Time is counted in units of the minimum status spacing (100 ms), and every station
with power is ticked once per unit, in any order. A station that loses power is
back after `BootTime` at the earliest, since it claims an address first.

### Session and its plugins: stopping a machine

`AutoDrive`, `Gnss`, `Heartbeat`, `Tim` and `MaintainPower` are the plugins, each a
record and the operators of its handlers (`on_message`, `on_event`, `on_tick`, the
application's calls). `Clock` is the host's monotonic clock as the code uses it:
an `Instant` is an age, saturated where no timeout tells larger ages apart, and a
clock that is set back makes every stored age smaller.

`Session` composes them. A call of the host is one action.

| Action | Code |
|---|---|
| `FeedShortcutButton`, `FeedFacilities`, `FeedMachineInfo`, `FeedPosition`, `FeedTim`, `FeedPowerRequest`, `FeedKeyOff`, `FeedClaim`, `FeedBeat` (together `Feed`) | `Session::feed` with one received frame, through the plugins, `detect_claim` and the dispatch of the events they raise |
| `Pump` | the driver's `pump`: tick, fault confinement, transmits and their errors |
| `Arm`, `Engage`, `Disengage`, `Command`, `ClearStop`, the authority, interlock, safe mode and key actions (together `Application`) | the plugins' methods for the application |
| `LoseBeat`, `PeerSignals`, `PeerRestarts`, `Elapse`, `ClockJumps` (together `World`) | the peer's heartbeat, real time, the clock |

Which plugins a session has and what it meets is its `persona`, chosen in `Init`. What
the network manager does inside a call is left open: an address may be lost and won
back in any call. `hist` is history for the properties: real time since the tractor,
the application, TIM and an implement were heard, and the last guidance command on
the bus.

`SafeStop` is the abstract specification: a machine is idle, engaged or stopped, and a
hazard may be present. A hazard makes it stopped at once, only the application starts
it, and only a cleared stop without a hazard ends. `Session` implements it with
`mode <- Mode` and `hazard <- Hazard` (`SafelyStops`).

### FileServer, FileClient, FileService: files over a network

`FileServer` is the server as one record: volume (files, directories, state), open-file
table, connections with their working directory, handles, keepalive and cache of
answers. `handle_client_message` dispatches to one operator per function a client can
request; a handler is a list of checks, in the code's order, and then a change
(`Conclude`). `server_update` is the periodic `update()`: status broadcasts, silent
clients, expired answers, the removal of the volume. `FileClient` is a client: requests
by transaction number (TAN), the mirror of its open files and working directory,
answers, broadcasts and `client_update`. A path is a sequence of names and a file is its
size and its read-only attribute.

`FileService` puts a server and its clients on a network. A message of more than eight
bytes travels by the transport protocol and can be overtaken by what is sent after it;
messages of one kind keep their order (`Arriving`). Requests and answers may be lost,
wait through a `Tick`, and a request without an answer may be sent again under its TAN
(`Resend`), which the book asks of an application (`book/src/tutorials/file-server.md`).
`HostStep` is the server's owner taking the volume out and putting it back, `ServerStops`
and `PowerCycle` are faults. Two variables are history: `estranged`, the clients that
have missed something the code gives them no way to learn, and `unheard`, the clients
whose request to connect, or the answer to it, was lost in this attempt or came after
the request had expired.

## 3. The runs

All runs are checked for deadlock too. "Violation" runs show a place where the code
does something else than one of its own comments or docs says; `findings` in
`PROJECT.json` quotes the line.

| Run | Asks | Answer |
|---|---|---|
| `settle` | Two stations driven by `Session::feed` that prefer one address, with a request for claims or a power cycle. Are addresses unique, and does claiming end? | `UniqueClaimedAddress`, `ClaimingSettles`, `TypeOK` hold |
| `command` | A tool commands addresses, one station adopts NAMEs (also its neighbour's), transports run, the neighbour is tracked as a partner | `ClaimConsistent`, `ConflictIsContested`, `TransportOnHeldAddress`, `PartnerTracksPeer` hold |
| `duplicate` | Two stations with one NAME: does the loser stay off the bus? | violation of `TimersKeepFailed`: a duplicate seen in the listen window does not end the window, and the failed CF claims when it closes |
| `tp_late` | Nodes that may be arbitrarily late, on a bus that loses nothing. Three messages on one path, two with one PGN, one place in the queue, and a sender that may lose its address; or a message that is too long and a receiver of another make; or a connection and broadcasts both ways for two session slots | `OneSessionPerPath`, `SessionCap`, `PayloadIntegrity`, `AckedMeansDelivered`, `DeliveredOnce`, `AcceptedIsSomewhere`, `TypeOK` hold |
| `tp_lossy` | Two connections of one PGN and a broadcast the other way, and up to two lost frames | `EverySendSettles` holds, and without a loss `EverySendArrives` |
| `tp_bamloss` | Broadcasts of two PGNs from one node, two frames lost | violation of `PayloadIntegrity`: the second broadcast's packets complete the session of the first |
| `sc_credit` | A master and a client, two steps, a lost frame, a power loss, and an abort, pause or busy report | `AcksAreEarned`, `CreditedAreWatched`, `SilentClientHaltsMaster`, `ClientsHaltWithoutMaster`, `TypeOK` hold |
| `sc_live` | Two clients, both required | `SequenceCompletes`, `AbortStopsEveryone` hold |
| `sc_latch` | After an abort, can another sequence run? | violation of `AbortEnds`: the master waits for the clients to leave Abort, they wait for a master status other than Abort |
| `safe_stop` | Seven sessions of one to three plugins, with lost addresses, transport errors, faulty and lost heartbeats, bus faults and a clock that jumps back. Does every hazard stop the machine, at once and for good, and is it told? | `SafelyStops` (refinement), `StopMeansHalt`, `FaultsStop`, `WithdrawalIsOwed`, `SteeringIsSupervised`, `GrantIsCovered`, `CleanPeerIsTrusted`, `PowerIsHeld` hold |
| `file_service` | Eleven scenarios of a server and two clients: competing for a file, moving about in one over a lossy network, directories, attributes, removal of the volume, coming and going, handle numbers that wrap, a server that stops, connecting again after a power loss and to a busy server, a slow network, pipelined requests | `SingleWriter`, `HandlesAccounted`, `VolumeIsWhole`, `MirrorsAgree` hold, and `ConnectingSettles`, `RequestsSettle`, `ClientsNotice`, `LeftoversAreClosed`, `RemovalCompletes` |
| `fs_retry` | A client connects over a network that loses one message: is the request sent again? | violation of `LostRequestIsRetried`: `update()` drops the expired request, and the client waits for as long as the server runs |

### What the passing results do not say

Writing the model showed behaviour that the passing runs leave outside their
configurations, or that a property excludes by name. A reader should know of it.

Claiming and transports:

- `UniqueClaimedAddress` is about segments without commanded addresses. A commanded
  address is taken at once, so two CFs can hold it for as long as a claim is in
  flight; `ConflictIsContested` is what holds then.
- `TransportOnHeldAddress` needs preferred addresses that are claimable. A CF built
  without one that has been commanded to an address gives it up when it is started
  again, and `start_address_claiming` closes no transports.
- `start()` on a CF that holds an address opens the listen window and leaves it
  Online on that address, and a CF that has lost an address still defends it while
  its re-claim is delayed. Neither breaks uniqueness.
- `PayloadIntegrity` and `AckedMeansDelivered` hold for arbitrarily late nodes on a bus
  that loses nothing, and fail with late nodes and losses at once. Messages 1 and 3 have
  one path and one PGN. The sender of message 1 gives up while a CTS is on its way; its
  abort and the RTS of message 3 are lost; the CTS then starts message 3 in the receiver's
  session of message 1. The receiver delivers packets of both, and its EOMA completes
  message 3, which was never delivered. With a message of another PGN between them one
  lost abort is enough to break `PayloadIntegrity`. A CTS from a receiver of another make
  can start message 3 in the old session without any loss, so in `tp_late` that receiver
  meets no second message of the PGN.
- A connection's receiver waits `T2` for the first packet of a window, where the book's
  table of timeouts says `T1`.

Sequence control:

- A sequence that completes is followed by an idle interval (1000 ms) without a master
  status. That is longer than the clients' active timeout (600 ms), so they enter
  Abort after the sequence is over.
- The master counts abort confirmations instead of comparing sets, so a client that
  confirmed and disabled itself can stand in for one that is still in Abort.

Sessions:

- A TIM command that waits in `pending_tx` when safe mode is entered is still sent at
  the next tick.
- `arm()` on an engaged AutoDrive keeps its setpoint.
- A transport error in the driver loses the frame that was taken from the queue. It is
  the one way a withdrawal can be lost, and `WithdrawalIsOwed` names it (`hist.dropped`).
- One good beat ends a communication error of the heartbeat receiver, while a sequence
  error takes `RecoveryCount` of them.
- `PowerIsHeld` is proved for hosts that pump more often than one of the two power times
  lasts. On a slower host the key can be turned off, on and off again within one pump
  interval, and the second end of power goes unreported to the other plugins.

File server:

- The answer cache recognises a request by TAN and bytes. A client whose TAN wraps round
  within the cache time and who repeats a request byte for byte gets the old answer.
- A client that appears by its first request rather than by a keepalive has its last
  keepalive at time 0. A server that has been up for longer than the timeout drops it,
  with its files, at the next `update()` unless a keepalive comes first.
- The client sends nothing again by itself, although the book and the comment on
  `update()` say that it does, and its configuration has a `max_retries` that nothing
  reads. `fs_retry` shows a client that waits for its lost request as long as the server
  runs. `ConnectingSettles` says that this is the only way to wait for ever: it leaves out
  the clients in `unheard`, and no others.
- A client that disconnects and comes back within the keepalive timeout finds its old
  handles and working directory on the server and none in its mirror; a volume that
  another client initializes resets the working directory without notice. These clients
  are `estranged`, and `MirrorsAgree` is about the others.
- A file opened with Append is at its end on the server and at 0 in the mirror. With
  pipelined requests, a long answer that is overtaken leaves the mirrored position or
  directory wrong. `MirrorsAgree` says only that the handles agree then.
- Requests to maintain the volume survive its removal, and make it "in use" when it is
  inserted again. A directory that is open can be deleted; `VolumeIsWhole` is about
  open files.

### Bounds, and why they are enough

Claiming. Three addresses, of which two are configurable, make an address contested,
free, and taken by the time it is tried. The guard time is 2 ticks (4 with
`TimerFirst`), the random delay 0 or 1, so delays differ and a window covers the round
trip the code relies on; the mutant `TimeoutWithoutBase` shows a shorter one is too
short. The starts let every station start, and in `settle` one start again. A command, a
request, a power cycle and two data frames are each enough to meet every state of a
claim; `Exclusive` makes a behaviour of `settle` have a request or a power cycle, not
both.

Transports. Messages have two or three packets and a window is two packets, so there
are full, short and several windows; `MaxRetransmits` is 1 and the timeouts are 2 to 4
ticks with T1 < T2 = T3 (the code's 750, 1250 and 1250 ms). `EverySendArrives` needs
timeouts longer than a round trip, so `tp_lossy` has the larger ones. `tp_late` keeps
what is sent together small: its state constraint keeps a behaviour within one `Mix` of
messages and faults.

Sequence control. The timings (1, 1, 2, 4, 3, 5, 2) keep the order of the code's
values: status interval 100 ms, minimum spacing 100 ms, active interval 200 ms, idle
interval 1000 ms, active timeout 600 ms, ready timeout 3000 ms; the busy timeout, a
configuration value, is 2. `sc_live` has an active interval of 1, which halves its
states. Timers saturate where no comparison of the code tells larger values apart.

Sessions. A pump interval is 1 and the timeouts are 1 or 2, in the order of the code's
values where the code fixes one, so a timeout can fall on a pump or between two. The
sequence byte of a heartbeat counts to 3 and tolerates a jump of less than 2, so it
wraps within a few beats. Plugins that share no events are checked in sessions of their
own: a persona holds the plugins that act on each other and the one or two faults that
concern them. Each fault happens at most once in a behaviour.

Files. Two handles in all and handle numbers up to 3 make the table full, and the six
calls of one scenario make the numbers wrap and pass over one that is in use. Timeouts
are 1 to 3 ticks and keep the code's order. The other scenarios have two or three calls
of a client, enough for one request to meet the effect of another one, and the faults
that bear on it. TANs keep their width.

The `Max...` constants, the bounds of a scenario and the limits of a persona are the
only bounds on the environment; every state space is finite without a state constraint,
and `WithinOneMix` of `tp_late`, whose properties are invariants, only makes one smaller.

### Fairness

`FairSpec` says that drivers go on driving: infinitely often, some station processes a
frame or runs its timers. That is what the owner's loop around `feed` and `update` does.
Written as `[]<><<Drive>>_vars`, it is weak fairness of `Drive`, since in each of these
specifications some station can always be driven. No station starves, because clocks
stay within one tick of each other and frames are processed before the next tick (or
the one after it). Nothing is assumed of the bus, of tools, of faults or of the owner's
commands. `FairAppSpec` of sequence control adds that the application completes steps
and resumes pauses, as completion is its decision; `SequenceCompletes` is about that
application, and `AbortEnds` fails even with it.

`FairSpec` of `FileService` is weak fairness of the whole next-state relation, with its
enabling condition written out: either the system reaches states in which nothing is on
its way and a tick changes nothing (`Steady`), or steps go on. Ticks wait for the packets
that must arrive before them, and every other step is bounded, so nothing needs to be
said of a single action. `DrivenSpec`, which `fs_retry` uses, says the same action by
action: `update()` is called again and again, and what is on its way arrives unless it is
lost. The client waits for ever although nothing else is lost and nobody stops.

## 4. The proofs

TLAPS proves the following for every value of the constants that satisfies the named
assumptions: any number of stations, nodes, clients, messages and addresses, any
timeouts and limits, any bounds on faults.

| Theorem | Module | Says |
|---|---|---|
| `TypeCorrect` | `IsoNetProofs` | `Spec => []TypeOK` |
| `ClaimStateConsistent` | `IsoNetProofs` | `Spec => []ClaimConsistent`: claim state, Online state and address of every CF agree |
| `TransportsRunOnHeldAddresses` | `IsoNetProofs` | with claimable preferred addresses, `Spec => []TransportOnHeldAddress` |
| `PathsAreUnambiguous` | `TransportProtocolProofs` | `Spec => []OneSessionPerPath` |
| `TablesStayWithinTheirLimit` | `TransportProtocolProofs` | `Spec => []SessionCap` |
| `AcceptedMessagesHaveOnePlace` | `TransportProtocolProofs` | `Spec => []AcceptedIsSomewhere` |
| `MasterCountsOnlyWatched` | `SequenceControlProofs` | `Spec => []CreditedAreWatched` |
| `SessionSafelyStops` | `SessionProofs` | `Spec => SafelyStops`: a session implements `SafeStop` |
| `StopIsAHalt` | `SessionProofs` | `Spec => []StopMeansHalt` |
| `FaultsStopAtOnce` | `SessionProofs` | `Spec => FaultsStop`, an action property |
| `SessionIsSupervised` | `SupervisionProofs` | `Spec => []SteeringIsSupervised` |
| `GrantsAreCovered` | `SupervisionProofs` | `Spec => []GrantIsCovered` |
| `CleanPeersAreTrusted` | `SupervisionProofs` | `Spec => []CleanPeerIsTrusted` |
| `WithdrawalsAreOwed` | `WithdrawalProofs` | `Spec => []WithdrawalIsOwed` |
| `PowerStaysOn` | `WithdrawalProofs` | with `TickGap < ShutdownMin` or `TickGap < MaintainTime`, `Spec => PowerIsHeld`, an action property |
| `NewServerIsSound`, `MessagesKeepSound`, `UpdateKeepsSound` | `FileServerProofs` | a new server is `Sound`; every message of every client and every `update()` keep it so |
| `SafeSingleWriter`, `SafeHandlesAccounted`, `SafeVolumeIsWhole` | `FileServiceProofs` | `Spec => []SingleWriter`, and the same for `HandlesAccounted` and `VolumeIsWhole` |

Claiming. The first half of `IsoNetProofs` has a lemma per handler of the claimer: given
a well-formed, consistent CF record, the handler returns one, with frames that are
frames and the preferred address untouched. The search for a free address rests on
`LeastNatural`. The second half lifts them to the segment. The inductive invariant is
`Inv`, that is `TypeOK`, `ClaimConsistent` and "the preferred address is the one the CF
was built with". Consistency and types have to be proved together: which handler runs
depends on the claim state, and the address it returns is well formed only if the
record was consistent. The last conjunct is what ties the assumption
`ClaimablePreferred` to `start()`. For the third theorem, `TransportOnHeldAddress` is
inductive on top of `Inv`: every handler either leaves address and Online state alone
(`QuietHandler`) or reports the address as surrendered, and then its transports are
closed in the same step.

Transports. `OneSessionPerPath` is inductive once all sessions are records that have
the fields of a path (`PathInv`). `SessionCap` needs the tables to be finite and the
queues to be sequences (`CapInv`); the delicate case is `update()`, which starts several
queued transmits at once and may do so only as far as slots are free. For
`AcceptedIsSomewhere` the invariant (`PlaceInv`) says where each message is for every
status its application may see: open means carried by a session, queued means in the
queue, and the queue names nothing twice. It is kept only together with `PathInv`: a
session that ends tells the outcome of its message, and another session on the path
carrying the same message would contradict it. Nothing is needed about frames: whatever
an RTS or a CTS says, the handlers look at the table before they add to it.

Sequence control. `CreditedAreWatched` is about the master only and holds whatever the
clients send. It is inductive with two additions (`MasterOK`): the master is a record
with its fields, and the acknowledgements are a finite set, for counting them.

Safe stop. `SafelyStops` rests on `Mirrored`: AutoDrive's copy of the GNSS hazards is what
the GNSS plugin knows. The plugin reports a hazard once, as an event of the call that
finds it, so the proof follows the events of a call in their order, with lemmas on the
last event of a kind in a sequence. Every step is then shown to be a step of `SafeStop` or
to leave its variables alone.

Supervision. The plugins measure silence with the host's clock and look only when they
are ticked; the properties measure it in real time. The invariant `Watch` says how far
the two are apart: the time since the last pump plus what the clock has been set back,
for every age that a timeout or a further jump can still make count. Saturated ages are
why the invariant speaks of the jumps that may still come (`Back`).
`CleanPeerIsTrusted` needs what relates the two ends (`Peering`): the distance from the
last byte the receiver saw to the sender's next one is the number of beats lost since,
also across the wrap of the sequence.

Withdrawals. `Owed` is about order: if AutoDrive owes nothing, then every command to steer
that is still queued has a later command to stop behind it, and so has the one last on
the bus unless a transport error ate it. `Powered` compares the counters of the power
plugin with the real time since an implement asked: they differ by one pump interval at
most. Its second part, on what was last reported, is where the assumption on `TickGap` is
used.

Files. `Sound` is the conjunction of the three properties, of the server's record, with
its shape. They are proved together: that a file may be deleted depends on the table of
handles, that a handle may be given out on the connections. A handler is a list of
checks followed by a change, so each proof has two parts: success means that no check
failed, and what the checks exclude makes the change sound. Most changes either touch
nothing `Sound` looks at (`Alike`) or only close files and drop connections (`Reduced`).
`FileServiceProofs` adds that what reaches the server names files by paths, from the
application through pending requests, which `Resend` sends again, and the queues.

Assumptions: each module names its own (`AddressAssumption`, `NameAssumption`,
`TimeAssumption`, `ValidationAssumption`, `StationAssumption`, `BusAssumption`,
`TrafficAssumption`, `EngineAssumption`, `CountAssumption`, `ClockAssumption`,
`AutoDriveAssumption`, `GnssAssumption`, `HeartbeatAssumption`, `TimAssumption`,
`MaintainPowerAssumption`, `SessionAssumption`, `ServerAssumption`, `ClientAssumption`,
`ScenarioAssumption`). They type the constants and order the address ranges and limits
as the code's constants are. `SessionAssumption` bounds how far the clock may be set back
in all below the age that stands for "never". TLC evaluates them in every run.

The proof modules make Zenon the default prover, since most leaves are first-order;
those that need arithmetic, sequences or records cite SMT.

Only model-checked:

- all liveness: fairness and `ENABLED` are out of the prover's reach;
- `UniqueClaimedAddress`, `ConflictIsContested`, `PartnerTracksPeer`: they need an
  invariant about the frames in flight and the timing of windows;
- `PayloadIntegrity`, `AckedMeansDelivered`, `DeliveredOnce`: they need an invariant of
  the frames in flight, and the first holds only for some traffic and faults
  (`tp_bamloss` refutes it for others), so it is no theorem of the specification;
  `TypeOK` of `TransportProtocol`, whose byte-wide fields hold for the sizes of the run
  and not for all constants;
- `TypeOK`, `AcksAreEarned`, `SilentClientHaltsMaster`, `ClientsHaltWithoutMaster` of
  `SequenceControl`: the last three relate both ends through the messages between them;
- `MirrorsAgree`: it relates client and server through every answer in flight and the
  cache of answers.

## 5. What is not modelled

The repository has about 160 000 lines, most of them codecs, object formats, rendering,
geometry, bindings, examples and tests of these. The modules cover the protocol machines
named above, a small part of the lines. The `components` of `PROJECT.json` list the rest
with reasons; in short:

- Task controller and virtual terminal, client and server: connection, pool upload and
  peer control are protocols of the size of the file server, and are not begun.
- Extended transport protocol and fast packet: the first repeats the engine of the
  transport protocol, with an offset message between CTS and data; the second is a
  receive-only reassembly.
- NAME management, interconnect unit, working sets, several CFs per station.
- Sequence recording, transaction numbers, diagnostics lists: small and sequential.
- Codecs, file formats, rendering, geometry, adapters, bindings and tools: no protocol
  state, or computation over data that small instances say nothing about; the
  repository's own round-trip tests cover them.
