-------------------------- MODULE TransportProtocol --------------------------
(***************************************************************************)
(* The ISO 11783-3 transport protocol between the nodes of a segment:      *)
(* TransportProtocol (net/tp/tp_protocol_engine.rs) with the queue of      *)
(* transmits that IsoNet keeps behind it (iso_network_manager.rs).         *)
(*                                                                         *)
(* Every node has one engine.  A payload is a message with an identity and *)
(* a size in packets, so bytes_transferred is last_sequence packets; packet *)
(* i of message m is the pair <<m, i>>.  The session table is a set: its    *)
(* order, which swap_remove keeps changing, only decides which of several  *)
(* matching sessions position() finds, and any of them may be.  Abort      *)
(* reasons and statistics are left out.  Frames are well formed, so the    *)
(* drops of malformed ones never happen.                                   *)
(*                                                                         *)
(* A frame reaches its addressee's queue, a broadcast every other node's,  *)
(* in the order of sending.  Nodes process frames and run update() at      *)
(* their own speed, so every timeout races every frame; with Prompt, they  *)
(* process what they have received before each update() and their clocks   *)
(* stay within one update() of each other.                                 *)
(***************************************************************************)
EXTENDS Integers, Sequences, FiniteSets, Functions

CONSTANTS
  Node,            \* the nodes, named by their claimed addresses
  Message,         \* the payloads the applications send, each one once
  PgnOf,           \* [Message -> Nat]
  SourceOf,        \* [Message -> Node]
  DestinationOf,   \* [Message -> Node \cup {BROADCAST_ADDRESS}]
  SizeOf,          \* [Message -> Nat]: packets
  MaxSessions,     \* max_sessions
  Advertised,      \* advertised_packets_per_cts
  PacketsPerCts,   \* TP_MAX_PACKETS_PER_CTS
  MaxRetransmits,  \* max_retransmits
  MaxReceive,      \* max_receive_bytes, in packets
  MaxPendingTx,    \* MAX_PENDING_TRANSPORT_TX
  BamInterval,     \* TP_BAM_INTER_PACKET_MS, in ticks
  T1, T2, T3,      \* TP_TIMEOUT_T1_MS, _T2_MS, _T3_MS, in ticks
  Prompt,          \* whether frames are processed before timers advance
  Leavers,         \* the nodes that may lose their address
  MaxLost, MaxForeign  \* bounds on what the environment does

BROADCAST_ADDRESS == 0

NoMessage == 0

ASSUME TrafficAssumption ==
  /\ Node \subseteq Nat \ {BROADCAST_ADDRESS}
  /\ Message \subseteq Nat \ {NoMessage}
  /\ PgnOf \in [Message -> Nat]
  /\ SourceOf \in [Message -> Node]
  /\ DestinationOf \in [Message -> Node \cup {BROADCAST_ADDRESS}]
  /\ SizeOf \in [Message -> Nat \ {0, 1}]

ASSUME EngineAssumption ==
  /\ MaxSessions \in Nat /\ MaxReceive \in Nat /\ MaxPendingTx \in Nat
  /\ MaxRetransmits \in Nat
  /\ PacketsPerCts \in Nat \ {0} /\ Advertised \in 1 .. PacketsPerCts
  /\ BamInterval \in Nat /\ T1 \in Nat /\ T2 \in Nat /\ T3 \in Nat

VARIABLES
  sessions,   \* the session table of every node's engine
  pending,    \* pending_transport_tx: messages queued behind a session
  rx,         \* frames received and not yet processed
  status,     \* what the sender of a message knows of it
  delivered,  \* the messages each node's application got, in order
  offline,    \* the nodes that have lost their address
  ticked,     \* with Prompt: the nodes one update() ahead of the others
  used        \* how often each bounded environment action has happened

vars == <<sessions, pending, rx, status, delivered, offline, ticked, used>>

Packet == Message \X Nat
Status == {"unsent", "refused", "queued", "open", "complete", "aborted", "dropped"}

\* A TransportSession; the state is a SessionState.
NewSession ==
  [direction |-> "Receive", state |-> "None", pgn |-> 0,
   source |-> 0, destination |-> 0, total |-> 0,
   last |-> 0, toSend |-> 0, perCts |-> PacketsPerCts,
   windowStart |-> 1, windowSize |-> 0, retransmits |-> 0, timer |-> 0,
   message |-> NoMessage, data |-> << >>]

IsBroadcast(s) == s.destination = BROADCAST_ADDRESS

Least(a, b) == IF a <= b THEN a ELSE b

Init ==
  /\ sessions = [n \in Node |-> {}]
  /\ pending = [n \in Node |-> << >>]
  /\ rx = [n \in Node |-> << >>]
  /\ status = [m \in Message |-> "unsent"]
  /\ delivered = [n \in Node |-> << >>]
  /\ offline = {}
  /\ ticked = {}
  /\ used = [lost |-> 0, foreign |-> 0]

-----------------------------------------------------------------------------
(* Frames and the bus.                                                     *)

make_rts(s) ==
  [kind |-> "RTS", source |-> s.source, destination |-> s.destination,
   pgn |-> s.pgn, total |-> s.total, window |-> Advertised]

make_bam(s) ==
  [kind |-> "BAM", source |-> s.source, destination |-> BROADCAST_ADDRESS,
   pgn |-> s.pgn, total |-> s.total]

make_cts(source, destination, count, next, pgn) ==
  [kind |-> "CTS", source |-> source, destination |-> destination,
   pgn |-> pgn, count |-> count, next |-> next]

make_eoma(s) ==
  [kind |-> "EOMA", source |-> s.destination, destination |-> s.source,
   pgn |-> s.pgn, total |-> s.total]

make_abort(source, destination, pgn) ==
  [kind |-> "ABORT", source |-> source, destination |-> destination, pgn |-> pgn]

\* The abort goes out under the local end's address.
make_session_abort(s) ==
  IF s.direction = "Transmit" THEN make_abort(s.source, s.destination, s.pgn)
  ELSE make_abort(s.destination, s.source, s.pgn)

make_dt(s, seq) ==
  [kind |-> "DT", source |-> s.source, destination |-> s.destination,
   seq |-> seq, packet |-> <<s.message, seq>>]

Reaches(frame, sender, n) ==
  n # sender /\ frame.destination \in {n, BROADCAST_ADDRESS}

\* The receive queues after `sender` has sent `frames`.
Transmit(queues, sender, frames) ==
  [n \in Node |->
     queues[n] \o SelectSeq(frames, LAMBDA f : Reaches(f, sender, n))]

\* Node n takes the next frame from its queue and answers with `frames`.
Answer(n, frames) == rx' = Transmit([rx EXCEPT ![n] = Tail(@)], n, frames)

\* is_addressed_to_us: a node without an address still hears broadcasts.
IsAddressedToUs(n) ==
  Head(rx[n]).destination = BROADCAST_ADDRESS \/ n \notin offline

Receives(n, kind) ==
  rx[n] # << >> /\ IsAddressedToUs(n) /\ Head(rx[n]).kind = kind

-----------------------------------------------------------------------------
(* Opening a transmit session: TransportProtocol::send and the queue of    *)
(* IsoNet behind it.                                                       *)

TransmitPathBusyForPgn(table, m) ==
  \E s \in table : /\ s.direction = "Transmit" /\ s.pgn = PgnOf[m]
                   /\ s.source = SourceOf[m]
                   /\ s.destination = DestinationOf[m]

TransmitPathBusy(table, m) ==
  \E s \in table : /\ s.direction = "Transmit"
                   /\ s.source = SourceOf[m]
                   /\ s.destination = DestinationOf[m]

TableOverfull(table) == Cardinality(table) > MaxSessions

TableFull(table) == Cardinality(table) >= MaxSessions

CanOpen(table, m) == ~TransmitPathBusy(table, m) /\ ~TableFull(table)

OpenedSession(m) ==
  [NewSession EXCEPT
     !.direction = "Transmit", !.pgn = PgnOf[m], !.source = SourceOf[m],
     !.destination = DestinationOf[m], !.total = SizeOf[m], !.message = m,
     !.state = IF DestinationOf[m] = BROADCAST_ADDRESS THEN "SendingData"
               ELSE "WaitingForCTS"]

Announcement(s) == IF IsBroadcast(s) THEN make_bam(s) ELSE make_rts(s)

\* IsoNet::send of a payload of TP size: opened at once, queued behind the
\* session that occupies its path, or refused.
Send(m) ==
  LET n == SourceOf[m] IN
  /\ status[m] = "unsent" /\ n \notin offline
  /\ \/ /\ CanOpen(sessions[n], m)
        /\ sessions' = [sessions EXCEPT ![n] = @ \cup {OpenedSession(m)}]
        /\ rx' = Transmit(rx, n, <<Announcement(OpenedSession(m))>>)
        /\ status' = [status EXCEPT ![m] = "open"]
        /\ UNCHANGED pending
     \/ /\ TransmitPathBusy(sessions[n], m)
        /\ Len(pending[n]) < MaxPendingTx
        /\ pending' = [pending EXCEPT ![n] = Append(@, m)]
        /\ status' = [status EXCEPT ![m] = "queued"]
        /\ UNCHANGED <<sessions, rx>>
     \/ /\ ~CanOpen(sessions[n], m)
        /\ TransmitPathBusy(sessions[n], m) => Len(pending[n]) >= MaxPendingTx
        /\ status' = [status EXCEPT ![m] = "refused"]
        /\ UNCHANGED <<sessions, rx, pending>>
  /\ UNCHANGED <<delivered, offline, ticked, used>>

StartReadyDropsRest(table, queue) ==
  LET m == Head(queue) IN
  IF queue # << >> /\ CanOpen(table, m)
  THEN [table |-> table \cup {OpenedSession(m)}, started |-> <<m>>, left |-> << >>]
  ELSE [table |-> table, started |-> << >>, left |-> << >>]

StartReadyNever(table, queue) ==
  [table |-> table, started |-> << >>, left |-> queue]

\* The queued transmits of one path.
OnPath(queue, source, destination) ==
  SelectSeq(queue, LAMBDA m : SourceOf[m] = source /\ DestinationOf[m] = destination)

Ahead(queue, m, k) ==
  \E i, j \in DOMAIN queue : i < j /\ queue[i] = m /\ queue[j] = k

\* Of the transmits queued on a free path, the first one can start.
Ready(table, queue) ==
  {m \in Range(queue) :
     /\ ~TransmitPathBusy(table, m)
     /\ m = Head(OnPath(queue, SourceOf[m], DestinationOf[m]))}

\* Those ahead in the queue get the free slots.
Startable(table, queue) ==
  {m \in Ready(table, queue) :
     Cardinality(table)
       + Cardinality({k \in Ready(table, queue) : Ahead(queue, k, m)}) < MaxSessions}

\* The entries of the queue that are in S, in their order.
Sifted(queue, S) ==
  LET places == {i \in DOMAIN queue : queue[i] \in S}
      Nth(k) == CHOOSE i \in places : Cardinality({j \in places : j <= i}) = k
  IN [k \in 1 .. Cardinality(places) |-> queue[Nth(k)]]

\* start_ready_pending_transport attempts every queued transmit once, in the
\* order of the queue, and puts back those whose path is busy or for which
\* there is no slot.
StartReady(table, queue) ==
  LET go == Startable(table, queue) IN
  [table |-> table \cup {OpenedSession(m) : m \in go},
   started |-> Sifted(queue, go),
   left |-> Sifted(queue, Range(queue) \ go)]

-----------------------------------------------------------------------------
(* handle_cm.                                                              *)

\* receive_path_is_active
ReceivePath(table, source, destination) ==
  {s \in table : /\ s.direction = "Receive"
                 /\ s.source = source /\ s.destination = destination}

\* receive_session_for
ReceiveSessionFor(table, source, destination, pgn) ==
  {s \in ReceivePath(table, source, destination) : s.pgn = pgn}

\* A repeated RTS for the same PGN replaces the session it opened; one for
\* another PGN is refused while the path is busy.
HandleRts(n) ==
  LET f == Head(rx[n])
      existing == ReceiveSessionFor(sessions[n], f.source, f.destination, f.pgn)
      rest == sessions[n] \ existing
      window == Least(f.window, PacketsPerCts)
      count == Least(f.total, window)
      refusal == make_abort(f.destination, f.source, f.pgn)
      opened == [NewSession EXCEPT
                   !.state = "WaitingForData", !.pgn = f.pgn, !.total = f.total,
                   !.source = f.source, !.destination = f.destination,
                   !.perCts = window, !.windowSize = count]
  IN
  /\ Receives(n, "RTS")
  /\ \/ /\ existing = {}
        /\ ReceivePath(sessions[n], f.source, f.destination) # {}
        /\ Answer(n, <<refusal>>)
        /\ UNCHANGED sessions
     \/ /\ existing # {} \/ ReceivePath(sessions[n], f.source, f.destination) = {}
        /\ \/ /\ TableFull(rest) \/ f.total > MaxReceive
              /\ sessions' = [sessions EXCEPT ![n] = rest]
              /\ Answer(n, <<refusal>>)
           \/ /\ ~TableFull(rest) /\ f.total <= MaxReceive
              /\ sessions' = [sessions EXCEPT ![n] = rest \cup {opened}]
              /\ Answer(n, <<make_cts(n, f.source, count, 1, f.pgn)>>)
  /\ UNCHANGED <<pending, status, delivered, offline, ticked, used>>

\* The transmit session a CTS or an EOMA answers.
AnsweredBy(table, f) ==
  {s \in table : /\ s.direction = "Transmit"
                 /\ s.source = f.destination /\ s.destination = f.source
                 /\ s.pgn = f.pgn}

\* The packets a CTS clears to send, of those from its next on.
Granted(s, f) ==
  Least(Least(f.count, s.total - (f.next - 1)), s.perCts)

\* A CTS that repeats the window whose packets are still to be drained.
IsDuplicateWindow(s, f) ==
  /\ f.count # 0 /\ f.next # 0 /\ f.next <= s.total
  /\ f.next = s.last + 1
  /\ s.toSend = Granted(s, f)

\* A CTS that asks for a packet already sent.
IsBackward(s, f) == f.next - 1 < s.last

CtsWithinNoRange(s, f) ==
  IF s.state = "SendingData" THEN ~IsDuplicateWindow(s, f)
  ELSE /\ f.count # 0
       /\ \/ f.next = 0
          \/ IsBackward(s, f) /\ s.retransmits + 1 > MaxRetransmits

\* A CTS the session cannot go on after.
CtsIsFatal(s, f) ==
  IF s.state = "SendingData" THEN ~IsDuplicateWindow(s, f)
  ELSE /\ f.count # 0
       /\ \/ f.next = 0 \/ f.next > s.total
          \/ IsBackward(s, f) /\ s.retransmits + 1 > MaxRetransmits

\* The session after a CTS: a repeated window and a hold only restart the
\* timer, anything else rewinds or advances to the packet asked for.
Cleared(s, f) ==
  IF s.state = "SendingData" \/ f.count = 0 THEN [s EXCEPT !.timer = 0]
  ELSE [s EXCEPT !.state = "SendingData", !.timer = 0,
                 !.retransmits = IF IsBackward(s, f) THEN @ + 1 ELSE 0,
                 !.toSend = Granted(s, f), !.last = f.next - 1]

\* The end of session s at node n, if it is the sender's, as its application
\* learns of it.
Ended(s, outcome) ==
  status' = IF s.direction = "Transmit"
            THEN [status EXCEPT ![s.message] = outcome] ELSE status

ForgetToClose(n, s) == UNCHANGED sessions

Close(n, s) == sessions' = [sessions EXCEPT ![n] = @ \ {s}]

Change(n, s, t) == sessions' = [sessions EXCEPT ![n] = (@ \ {s}) \cup {t}]

Ignore(n) == Answer(n, << >>) /\ UNCHANGED <<sessions, status>>

HandleCts(n) ==
  LET f == Head(rx[n])
      matching == AnsweredBy(sessions[n], f)
  IN
  /\ Receives(n, "CTS")
  /\ \/ matching = {} /\ Ignore(n)
     \/ \E s \in matching :
          \/ /\ CtsIsFatal(s, f)
             /\ Close(n, s) /\ Ended(s, "aborted")
             /\ Answer(n, <<make_session_abort(s)>>)
          \/ /\ ~CtsIsFatal(s, f)
             /\ Change(n, s, Cleared(s, f))
             /\ Answer(n, << >>)
             /\ UNCHANGED status
  /\ UNCHANGED <<pending, delivered, offline, ticked, used>>

AcknowledgesInAnyState(s, f) == f.total = s.total

AcknowledgesAll(s, f) == s.state = "WaitingForEndOfMsg" /\ f.total = s.total

HandleEoma(n) ==
  LET f == Head(rx[n])
      matching == AnsweredBy(sessions[n], f)
  IN
  /\ Receives(n, "EOMA")
  /\ \/ (\A s \in matching : ~AcknowledgesAll(s, f)) /\ Ignore(n)
     \/ \E s \in matching :
          /\ AcknowledgesAll(s, f)
          /\ Close(n, s) /\ Ended(s, "complete") /\ Answer(n, << >>)
  /\ UNCHANGED <<pending, delivered, offline, ticked, used>>

\* A repeated BAM for the same PGN starts again; one that does not fit is
\* dropped, the session it would have replaced included.
HandleBam(n) ==
  LET f == Head(rx[n])
      rest == sessions[n] \ ReceiveSessionFor(sessions[n], f.source,
                                              BROADCAST_ADDRESS, f.pgn)
      opened == [NewSession EXCEPT
                   !.state = "ReceivingData", !.pgn = f.pgn, !.total = f.total,
                   !.source = f.source, !.destination = BROADCAST_ADDRESS]
      fits == f.total <= MaxReceive /\ ~TableFull(rest)
  IN
  /\ Receives(n, "BAM")
  /\ \/ fits /\ sessions' = [sessions EXCEPT ![n] = rest \cup {opened}]
     \/ ~fits /\ sessions' = [sessions EXCEPT ![n] = rest]
  /\ Answer(n, << >>)
  /\ UNCHANGED <<pending, status, delivered, offline, ticked, used>>

\* An abort closes one session of its PGN between the two nodes, whichever
\* way the data flows.
HandleAbort(n) ==
  LET f == Head(rx[n])
      matching == {s \in sessions[n] :
                     /\ s.pgn = f.pgn
                     /\ \/ s.source = f.destination /\ s.destination = f.source
                        \/ s.source = f.source /\ s.destination = f.destination}
  IN
  /\ Receives(n, "ABORT")
  /\ \/ matching = {} /\ Ignore(n)
     \/ \E s \in matching :
          Close(n, s) /\ Ended(s, "aborted") /\ Answer(n, << >>)
  /\ UNCHANGED <<pending, delivered, offline, ticked, used>>

-----------------------------------------------------------------------------
(* handle_dt.                                                              *)

\* What the application gets: the message of a completed receive session.
MessageOf(s) ==
  [pgn |-> s.pgn, source |-> s.source, destination |-> s.destination,
   data |-> s.data]

InAnySequence(s, f) == f.seq >= 1

InSequence(s, f) == f.seq = s.last + 1

\* The session once packet f is in: the timer restarts.
Ingested(s, f) ==
  [s EXCEPT !.last = f.seq, !.timer = 0, !.data = Append(@, f.packet)]

WindowOverrun(s) == s.last - (s.windowStart - 1) > s.windowSize

WindowExhausted(s) == s.last - (s.windowStart - 1) >= s.windowSize

NextWindow(s) ==
  [s EXCEPT !.windowStart = s.last + 1,
            !.windowSize = Least(s.total - s.last, s.perCts)]

HandleDt(n) ==
  LET f == Head(rx[n])
      matching == ReceivePath(sessions[n], f.source, f.destination)
  IN
  /\ Receives(n, "DT")
  /\ \/ /\ matching = {}
        /\ Answer(n, << >>)
        /\ UNCHANGED <<sessions, delivered>>
     \/ \E s \in matching :
          LET t == Ingested(s, f) IN
          \/ /\ ~InSequence(s, f)
             /\ Close(n, s)
             /\ Answer(n, IF IsBroadcast(s) THEN << >> ELSE <<make_session_abort(s)>>)
             /\ UNCHANGED delivered
          \/ /\ InSequence(s, f)
             /\ \/ /\ t.last >= t.total
                   /\ Close(n, s)
                   /\ delivered' = [delivered EXCEPT ![n] = Append(@, MessageOf(t))]
                   /\ Answer(n, IF IsBroadcast(s) THEN << >> ELSE <<make_eoma(s)>>)
                \/ /\ t.last < t.total
                   /\ IsBroadcast(s) \/ ~WindowExhausted(t)
                   /\ Change(n, s, t)
                   /\ Answer(n, << >>)
                   /\ UNCHANGED delivered
                \/ /\ t.last < t.total
                   /\ ~IsBroadcast(s) /\ WindowExhausted(t)
                   /\ Change(n, s, NextWindow(t))
                   /\ Answer(n, <<make_cts(s.destination, s.source,
                                           NextWindow(t).windowSize, t.last + 1, s.pgn)>>)
                   /\ UNCHANGED delivered
  /\ UNCHANGED <<pending, status, offline, ticked, used>>

\* IsoNet::process_frame passes over what is addressed to somebody else.
PassOver(n) ==
  /\ rx[n] # << >> /\ ~IsAddressedToUs(n)
  /\ Ignore(n)
  /\ UNCHANGED <<pending, delivered, offline, ticked, used>>

\* TransportProtocol::process_frame
Process(n) ==
  \/ PassOver(n)
  \/ HandleRts(n) \/ HandleCts(n) \/ HandleEoma(n)
  \/ HandleBam(n) \/ HandleAbort(n) \/ HandleDt(n)

-----------------------------------------------------------------------------
(* The transport part of IsoNet::update.                                   *)

TimedOut(s) ==
  \/ s.state \in {"WaitingForCTS", "WaitingForEndOfMsg"} /\ s.timer >= T3
  \/ s.state = "WaitingForData" /\ s.timer >= T2
  \/ s.state = "ReceivingData" /\ s.timer >= T1

Aged(s) == [s EXCEPT !.timer = @ + 1]

BamDue(s) ==
  /\ IsBroadcast(s) /\ s.direction = "Transmit"
  /\ s.timer >= BamInterval

\* TransportProtocol::update for one session: its broadcast goes on, or its
\* timer runs out, or it only ages.
Timed(s) ==
  LET a == Aged(s)
      b == [a EXCEPT !.timer = 0, !.last = @ + 1]
  IN  CASE BamDue(a) ->
             [session |-> b, frames |-> <<make_dt(b, b.last)>>,
              outcome |-> IF b.last >= b.total THEN "complete" ELSE "open"]
        [] TimedOut(a) ->
             [session |-> a, outcome |-> "aborted",
              frames |-> IF IsBroadcast(a) THEN << >> ELSE <<make_session_abort(a)>>]
        [] OTHER -> [session |-> a, outcome |-> "open", frames |-> << >>]

\* get_pending_data_frames for one session: the window a CTS cleared.
IsCleared(s) ==
  /\ s.state = "SendingData" /\ s.direction = "Transmit" /\ ~IsBroadcast(s)

WindowEnd(s) == Least(s.last + s.toSend, s.total)

WindowFrames(s) ==
  IF IsCleared(s)
  THEN [i \in 1 .. (WindowEnd(s) - s.last) |-> make_dt(s, s.last + i)]
  ELSE << >>

Drained(s) ==
  IF IsCleared(s)
  THEN [s EXCEPT !.last = WindowEnd(s), !.timer = 0,
                 !.state = IF WindowEnd(s) >= s.total
                           THEN "WaitingForEndOfMsg" ELSE "WaitingForCTS"]
  ELSE s

Survivors(table) == {s \in table : Timed(s).outcome = "open"}

DrainedTable(table) == {Drained(Timed(s).session) : s \in Survivors(table)}

\* The orders the session table may be in.
Orders(table) ==
  {o \in [1 .. Cardinality(table) -> table] :
     \A i, j \in 1 .. Cardinality(table) : o[i] = o[j] => i = j}

\* What the timers have made of the transmit sessions.
Outcomes(table, started) ==
  [m \in Message |->
     IF m \in Range(started) THEN "open"
     ELSE IF \E s \in table : s.message = m
     THEN Timed(CHOOSE s \in table : s.message = m).outcome
     ELSE status[m]]

\* The frames of several sessions, one session after the other.
Joined(batches) ==
  LET upTo[i \in 0 .. Len(batches)] ==
        IF i = 0 THEN << >> ELSE upTo[i - 1] \o batches[i]
  IN upTo[Len(batches)]

MayUpdate(n) == Prompt => rx[n] = << >> /\ n \notin ticked

Update(n) ==
  LET table == sessions[n]
      ready == StartReady(DrainedTable(table), pending[n])
      opening == [i \in DOMAIN ready.started |->
                    Announcement(OpenedSession(ready.started[i]))]
  IN
  /\ MayUpdate(n)
  /\ \E o \in Orders(table) :
       rx' = Transmit(rx, n,
               Joined([i \in DOMAIN o |-> Timed(o[i]).frames])
               \o Joined([i \in DOMAIN o |->
                    IF o[i] \in Survivors(table)
                    THEN WindowFrames(Timed(o[i]).session) ELSE << >>])
               \o opening)
  /\ sessions' = [sessions EXCEPT ![n] = ready.table]
  /\ pending' = [pending EXCEPT ![n] = ready.left]
  /\ status' = Outcomes(table, ready.started)
  /\ ticked' = IF ~Prompt \/ ticked \cup {n} = Node THEN {} ELSE ticked \cup {n}
  /\ UNCHANGED <<delivered, offline, used>>

-----------------------------------------------------------------------------
(* The environment.                                                        *)

\* A frame is lost on its way to one node.
Lose(n) ==
  /\ used.lost < MaxLost /\ rx[n] # << >>
  /\ rx' = [rx EXCEPT ![n] = Tail(@)]
  /\ used' = [used EXCEPT !.lost = @ + 1]
  /\ UNCHANGED <<sessions, pending, status, delivered, offline, ticked>>

\* The receiver of another make holds the connection, asks for packets again
\* or asks for packets that do not exist; this engine sends no such CTS.
ForeignCts(n) ==
  /\ used.foreign < MaxForeign
  /\ \E s \in sessions[n] :
       /\ s.direction = "Transmit" /\ ~IsBroadcast(s)
       /\ \E count \in {0, 1, PacketsPerCts + 1}, next \in 0 .. (s.total + 1) :
            rx' = [rx EXCEPT ![n] =
                     Append(@, make_cts(s.destination, n, count, next, s.pgn))]
  /\ used' = [used EXCEPT !.foreign = @ + 1]
  /\ UNCHANGED <<sessions, pending, status, delivered, offline, ticked>>

\* IsoNet::discontinue_address: the node gives its address up and drops the
\* sessions and the queued transmits of it without a word on the bus.
Discontinue(n) ==
  /\ n \in Leavers \ offline
  /\ offline' = offline \cup {n}
  /\ sessions' = [sessions EXCEPT ![n] =
                    {s \in @ : s.source # n /\ s.destination # n}]
  /\ pending' = [pending EXCEPT ![n] = << >>]
  /\ status' = [m \in Message |->
       IF SourceOf[m] = n /\ status[m] \in {"open", "queued"}
       THEN "dropped" ELSE status[m]]
  /\ UNCHANGED <<rx, delivered, ticked, used>>

Next ==
  \/ \E m \in Message : Send(m)
  \/ \E n \in Node : \/ Process(n) \/ Update(n)
                     \/ Lose(n) \/ ForeignCts(n) \/ Discontinue(n)

Spec == Init /\ [][Next]_vars

\* What the drivers of the nodes do over and over.
Drive == \E n \in Node : Process(n) \/ Update(n)

\* Drivers keep handing frames over and calling update().  With Prompt some
\* node can always be driven, so this is weak fairness of Drive, and none is
\* left behind by it: each has one update() before any has two.
FairSpec == Spec /\ []<><<Drive>>_vars

-----------------------------------------------------------------------------
(* Properties.                                                             *)

SessionState ==
  {"WaitingForCTS", "SendingData", "WaitingForEndOfMsg",
   "ReceivingData", "WaitingForData"}

Count == 0 .. 255

Session ==
  [direction : {"Transmit", "Receive"}, state : SessionState, pgn : Nat,
   source : Node, destination : Node \cup {BROADCAST_ADDRESS}, total : Count,
   last : Count, toSend : Count, perCts : Count, windowStart : Count,
   windowSize : Count, retransmits : Count, timer : Nat,
   message : Message \cup {NoMessage}, data : Seq(Packet)]

\* Every session of the table is a TransportSession in one of the states its
\* direction can be in, with counters that fit their u8 fields; the queue
\* holds no more than MAX_PENDING_TRANSPORT_TX messages.
TypeOK ==
  /\ \A n \in Node :
       /\ sessions[n] \subseteq Session
       /\ pending[n] \in Seq(Message) /\ Len(pending[n]) <= MaxPendingTx
       /\ \A s \in sessions[n] :
            /\ \/ s.last < s.total
               \/ s.state = "WaitingForEndOfMsg" /\ s.last = s.total
            /\ n = IF s.direction = "Transmit" THEN s.source ELSE
                   IF IsBroadcast(s) THEN n ELSE s.destination
  /\ status \in [Message -> Status]

\* Data packets carry no PGN, so at most one transmit session runs on a path
\* and at most one connection is received on it (send, and the RTS branch of
\* handle_cm, whatever the order of opening, replacing and closing).
OneSessionPerPath ==
  \A n \in Node : \A s, t \in sessions[n] :
    /\ s.direction = t.direction
    /\ s.source = t.source /\ s.destination = t.destination
    /\ s.direction = "Receive" => ~IsBroadcast(s)
    => s = t

\* The table never outgrows max_sessions, by its own transmits, by connections
\* opened from outside, or by queued transmits started together.
SessionCap == \A n \in Node : Cardinality(sessions[n]) <= MaxSessions

Whole(m) == [i \in 1 .. SizeOf[m] |-> <<m, i>>]

Carries(d, m) ==
  /\ d.pgn = PgnOf[m] /\ d.source = SourceOf[m]
  /\ d.destination = DestinationOf[m] /\ d.data = Whole(m)

\* What an application is handed is exactly one message some node sent it: its
\* PGN, its addresses, all its packets in order and none of another message
\* (handle_dt, which can tell packets apart only by path and number), however
\* late the nodes are, if the bus loses nothing.
PayloadIntegrity ==
  \A n \in Node : \A i \in DOMAIN delivered[n] :
    \E m \in Message : Carries(delivered[n][i], m)

GotIt(n, m) == \E i \in DOMAIN delivered[n] : Carries(delivered[n][i], m)

\* A connection that completes at the sender (on_complete in the EOMA branch)
\* has delivered its message, however late the nodes are, if the bus loses
\* nothing.  (If a transfer times out at the sender and its abort and the next
\* RTS of its PGN are lost, the late CTS lets the next transfer go on where the
\* receiver still is in the old one, and the EOMA completes a message that was
\* never delivered.)
AckedMeansDelivered ==
  \A m \in Message :
    status[m] = "complete" /\ DestinationOf[m] # BROADCAST_ADDRESS =>
      GotIt(DestinationOf[m], m)

\* No message is delivered to a node twice, although senders rewind, transfers
\* that timed out are followed by others of their PGN, and acknowledgements
\* come when nobody waits for them any more.
DeliveredOnce ==
  \A n \in Node : \A i, j \in DOMAIN delivered[n] :
    delivered[n][i] = delivered[n][j] => i = j

\* A message is in the queue, in a session, or neither, as its sender's status
\* says: no accepted transmit is forgotten and none is in two places
\* (queue_transport_tx, start_ready_pending_transport, discontinue_address).
AcceptedIsSomewhere ==
  \A m \in Message :
    LET n == SourceOf[m] IN
    /\ status[m] = "open" <=> \E s \in sessions[n] : s.message = m
    /\ Cardinality({i \in DOMAIN pending[n] : pending[n][i] = m})
         = IF status[m] = "queued" THEN 1 ELSE 0

\* Every transmit the stack accepts comes to an end its application learns of,
\* or is dropped with the address: timeouts free the path and the queue moves.
EverySendSettles ==
  \A m \in Message :
    status[m] \in {"queued", "open"} ~> status[m] \notin {"queued", "open"}

\* On a bus that loses nothing, between nodes that keep up, every accepted
\* transmit reaches each node it is for.
EverySendArrives ==
  \A m \in Message : \A n \in Node \ {SourceOf[m]} :
    (status[m] \in {"queued", "open"} /\ DestinationOf[m] \in {n, BROADCAST_ADDRESS})
      ~> (GotIt(n, m) \/ used.lost > 0)
=============================================================================
