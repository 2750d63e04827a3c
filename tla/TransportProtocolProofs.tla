----------------------- MODULE TransportProtocolProofs -----------------------
(***************************************************************************)
(* What a node may rely on for any nodes, messages, limits and losses.     *)
(*   PathsAreUnambiguous            the data path between two nodes is     *)
(*                                  never ambiguous in one direction       *)
(*   TablesStayWithinTheirLimit     the engine holds no more sessions than *)
(*                                  it admits                              *)
(*   AcceptedMessagesHaveOnePlace   an accepted message is carried by a    *)
(*                                  session or waits in one slot, until    *)
(*                                  its application is told its end        *)
(*                                                                         *)
(* The first is inductive once every session is known to be a record with  *)
(* the fields that identify its path, since sessions are changed by        *)
(* EXCEPT.  The second needs the queue: update starts queued transmits     *)
(* only as far as slots are free, and a queue never names a message twice. *)
(* The third follows each message through the table, the queue and the     *)
(* outcomes, and uses the first: a message has one carrier because two     *)
(* transmit sessions never share a path.  Nothing is needed about the      *)
(* frames in flight: whatever an RTS or a CTS says, the handlers look at   *)
(* the table before they add to it.                                        *)
(*                                                                         *)
(* The leaves are first-order unless they cite SMT, so Zenon is tried.     *)
(***************************************************************************)
EXTENDS TransportProtocol, FiniteSetTheorems, NaturalsInduction, TLAPS

USE Zenon

PathFields == {"direction", "source", "destination"}

AllFields ==
  PathFields \cup {"state", "pgn", "total", "last", "toSend", "perCts", "windowStart",
                   "windowSize", "retransmits", "timer", "message", "data"}

Fields(s) == AllFields \subseteq DOMAIN s

SamePath(s, t) ==
  /\ s.direction = t.direction
  /\ s.source = t.source /\ s.destination = t.destination

Exclusive(s) == s.direction = "Receive" => ~IsBroadcast(s)

\* A session table in which no two sessions share a path.
TableOK(table) ==
  /\ \A s \in table : Fields(s)
  /\ \A s, t \in table : SamePath(s, t) /\ Exclusive(s) => s = t

PathInv ==
  /\ DOMAIN sessions = Node
  /\ \A n \in Node : TableOK(sessions[n])

-----------------------------------------------------------------------------
(* Tables.                                                                 *)

\* A part of a good table is good (closing sessions).
LEMMA PartOK ==
  ASSUME NEW table, TableOK(table), NEW part, part \subseteq table
  PROVE  TableOK(part)
BY DEF TableOK

\* A good table stays good when one of its sessions changes but keeps its
\* path (Cleared, Ingested, NextWindow).
LEMMA ChangedOK ==
  ASSUME NEW table, TableOK(table), NEW s \in table,
         NEW t, Fields(t), SamePath(s, t)
  PROVE  TableOK((table \ {s}) \cup {t})
<1>1. \A u \in (table \ {s}) \cup {t} : Fields(u)
  BY DEF TableOK
<1>2. ASSUME NEW u \in (table \ {s}) \cup {t}, NEW v \in (table \ {s}) \cup {t},
             SamePath(u, v), Exclusive(u)
      PROVE  u = v
  <2>1. CASE u = t /\ v # t
    <3>1. SamePath(s, v) /\ Exclusive(s) /\ v \in table /\ v # s
      BY <1>2, <2>1 DEF SamePath, Exclusive, IsBroadcast
    <3> QED  BY <3>1 DEF TableOK
  <2>2. CASE u # t /\ v = t
    <3>1. SamePath(u, s) /\ Exclusive(u) /\ u \in table /\ u # s
      BY <1>2, <2>2 DEF SamePath
    <3> QED  BY <3>1 DEF TableOK
  <2>3. CASE u # t /\ v # t
    BY <1>2, <2>3 DEF TableOK
  <2> QED  BY <2>1, <2>2, <2>3
<1> QED  BY <1>1, <1>2 DEF TableOK

\* A session may be added to a good table when no session is on its path, or
\* when it receives a broadcast.
LEMMA AddedOK ==
  ASSUME NEW table, TableOK(table), NEW t, Fields(t),
         Exclusive(t) => \A s \in table : ~SamePath(s, t)
  PROVE  TableOK(table \cup {t})
<1>1. \A u \in table \cup {t} : Fields(u)
  BY DEF TableOK
<1>2. ASSUME NEW u \in table \cup {t}, NEW v \in table \cup {t},
             SamePath(u, v), Exclusive(u)
      PROVE  u = v
  <2>1. CASE u = t /\ v # t
    BY <1>2, <2>1 DEF SamePath
  <2>2. CASE u # t /\ v = t
    <3>1. Exclusive(t)
      BY <1>2, <2>2 DEF SamePath, Exclusive, IsBroadcast
    <3> QED  BY <1>2, <2>2, <3>1
  <2>3. CASE u # t /\ v # t
    BY <1>2, <2>3 DEF TableOK
  <2> QED  BY <2>1, <2>2, <2>3
<1> QED  BY <1>1, <1>2 DEF TableOK

-----------------------------------------------------------------------------
(* Sessions.                                                               *)

\* A new transmit session is a session on the path of its message (send).
LEMMA OpenedPath ==
  ASSUME NEW m
  PROVE  /\ Fields(OpenedSession(m))
         /\ OpenedSession(m).direction = "Transmit"
         /\ OpenedSession(m).source = SourceOf[m]
         /\ OpenedSession(m).destination = DestinationOf[m]
BY SMT DEF OpenedSession, NewSession, Fields, AllFields, PathFields

\* update() and get_pending_data_frames leave every session on its path.
LEMMA DrainedPath ==
  ASSUME NEW s, Fields(s), Timed(s).outcome = "open"
  PROVE  Fields(Drained(Timed(s).session)) /\ SamePath(s, Drained(Timed(s).session))
<1> DEFINE a == Aged(s)
           b == [a EXCEPT !.timer = 0, !.last = @ + 1]
<1>1. Fields(a) /\ SamePath(s, a)
  BY DEF Aged, Fields, SamePath, AllFields, PathFields
<1>2. Fields(b) /\ SamePath(s, b)
  BY <1>1 DEF Fields, SamePath, AllFields, PathFields
<1>3. Timed(s).session \in {a, b}
  BY DEF Timed
<1>4. Fields(Timed(s).session) /\ SamePath(s, Timed(s).session)
  BY <1>1, <1>2, <1>3
<1> DEFINE c == Timed(s).session
<1>5. Fields(c) /\ SamePath(s, c)
  BY <1>4
<1> HIDE DEF c
<1>6. Fields(Drained(c)) /\ SamePath(s, Drained(c))
  BY <1>5 DEF Drained, Fields, SamePath, AllFields, PathFields
<1> QED  BY <1>6 DEF c

\* The timers keep a good table good (the transport part of IsoNet::update).
LEMMA DrainedTableOK ==
  ASSUME NEW table, TableOK(table)
  PROVE  TableOK(DrainedTable(table))
<1>1. \A s \in Survivors(table) :
        s \in table /\ Fields(Drained(Timed(s).session))
                    /\ SamePath(s, Drained(Timed(s).session))
  BY DrainedPath DEF Survivors, TableOK
<1>2. \A u \in DrainedTable(table) : Fields(u)
  BY <1>1 DEF DrainedTable
<1>3. ASSUME NEW u \in DrainedTable(table), NEW v \in DrainedTable(table),
             SamePath(u, v), Exclusive(u)
      PROVE  u = v
  <2>1. PICK s \in Survivors(table) : u = Drained(Timed(s).session)
    BY DEF DrainedTable
  <2>2. PICK t \in Survivors(table) : v = Drained(Timed(t).session)
    BY DEF DrainedTable
  <2>3. SamePath(s, u) /\ SamePath(t, v) /\ s \in table /\ t \in table
    BY <1>1, <2>1, <2>2
  <2>4. SamePath(s, t) /\ Exclusive(s)
    BY <1>3, <2>3 DEF SamePath, Exclusive, IsBroadcast
  <2>5. s = t
    BY <2>3, <2>4 DEF TableOK
  <2> QED  BY <2>1, <2>2, <2>5
<1> QED  BY <1>2, <1>3 DEF TableOK

\* Starting queued transmits keeps a good table good: their paths are free,
\* and only the first one of a path starts (start_ready_pending_transport).
LEMMA StartReadyOK ==
  ASSUME NEW table, TableOK(table), NEW queue
  PROVE  TableOK(StartReady(table, queue).table)
<1> DEFINE go == Startable(table, queue)
           full == table \cup {OpenedSession(m) : m \in go}
<1>1. \A m \in go : /\ ~TransmitPathBusy(table, m)
                    /\ m = Head(OnPath(queue, SourceOf[m], DestinationOf[m]))
  BY DEF Startable, Ready
<1>2. StartReady(table, queue).table = full
  BY DEF StartReady
<1> HIDE DEF go
<1>3. \A u \in full : Fields(u)
  BY OpenedPath DEF TableOK
<1>4. ASSUME NEW s \in table, NEW m \in go
      PROVE  ~SamePath(s, OpenedSession(m))
  BY SMT, <1>1, OpenedPath DEF SamePath, TransmitPathBusy
<1>5. ASSUME NEW m \in go, NEW k \in go, SamePath(OpenedSession(m), OpenedSession(k))
      PROVE  m = k
  <2>1. SourceOf[m] = SourceOf[k] /\ DestinationOf[m] = DestinationOf[k]
    BY <1>5, OpenedPath DEF SamePath
  <2> QED  BY <1>1, <2>1
<1>6. ASSUME NEW u \in full, NEW v \in full, SamePath(u, v), Exclusive(u)
      PROVE  u = v
  <2>1. CASE u \in table /\ v \in table
    BY <1>6, <2>1 DEF TableOK
  <2>2. CASE u \notin table /\ v \notin table
    <3>1. PICK m \in go : u = OpenedSession(m)
      BY <2>2
    <3>2. PICK k \in go : v = OpenedSession(k)
      BY <2>2
    <3> QED  BY <1>5, <1>6, <3>1, <3>2
  <2>3. CASE u \in table /\ v \notin table
    BY <1>4, <1>6, <2>3
  <2>4. CASE u \notin table /\ v \in table
    <3>1. SamePath(v, u)
      BY <1>6 DEF SamePath
    <3> QED  BY <1>4, <2>4, <3>1
  <2> QED  BY <2>1, <2>2, <2>3, <2>4
<1>7. TableOK(full)
  BY <1>3, <1>6 DEF TableOK
<1> QED  BY <1>2, <1>7

-----------------------------------------------------------------------------
(* Steps.                                                                  *)

\* A step that replaces the table of one node by a good one preserves the
\* invariant.
LEMMA OneTable ==
  ASSUME PathInv, NEW n \in Node, NEW table, TableOK(table),
         sessions' = [sessions EXCEPT ![n] = table]
  PROVE  PathInv'
BY SMT DEF PathInv, TableOK, Fields, SamePath, Exclusive, IsBroadcast

\* A step that leaves every table alone preserves the invariant.
LEMMA NoTable ==
  ASSUME PathInv, UNCHANGED sessions
  PROVE  PathInv'
BY SMT DEF PathInv, TableOK, Fields, SamePath, Exclusive, IsBroadcast

\* IsoNet::send opens a session only on a free path.
LEMMA SendInv ==
  ASSUME PathInv, NEW m \in Message, Send(m)
  PROVE  PathInv'
<1> DEFINE n == SourceOf[m]
           t == OpenedSession(m)
<1>1. n \in Node /\ TableOK(sessions[n])
  BY TrafficAssumption DEF PathInv
<1>2. CASE UNCHANGED sessions
  BY <1>2, NoTable
<1>3. CASE /\ CanOpen(sessions[n], m)
           /\ sessions' = [sessions EXCEPT ![n] = @ \cup {t}]
  <2>1. Fields(t) /\ \A s \in sessions[n] : ~SamePath(s, t)
    BY <1>3, OpenedPath DEF CanOpen, TransmitPathBusy, SamePath
  <2>2. TableOK(sessions[n] \cup {t})
    <3> HIDE DEF t
    <3> QED  BY <1>1, <2>1, AddedOK
  <2> HIDE DEF n, t
  <2> QED  BY <1>1, <1>3, <2>2, OneTable
<1> QED  BY <1>2, <1>3 DEF Send

\* An RTS opens a connection only where it has replaced the one of its PGN or
\* found the path free.
LEMMA HandleRtsInv ==
  ASSUME PathInv, NEW n \in Node, HandleRts(n)
  PROVE  PathInv'
<1> DEFINE f == Head(rx[n])
           existing == ReceiveSessionFor(sessions[n], f.source, f.destination, f.pgn)
           path == ReceivePath(sessions[n], f.source, f.destination)
           rest == sessions[n] \ existing
           window == Least(f.window, PacketsPerCts)
           count == Least(f.total, window)
           t == [NewSession EXCEPT
                   !.state = "WaitingForData", !.pgn = f.pgn, !.total = f.total,
                   !.source = f.source, !.destination = f.destination,
                   !.perCts = window, !.windowSize = count]
<1>1. TableOK(sessions[n]) /\ TableOK(rest)
  <2>1. TableOK(sessions[n])
    BY DEF PathInv
  <2>2. rest \subseteq sessions[n]
    OBVIOUS
  <2> HIDE DEF rest
  <2> QED  BY <2>1, <2>2, PartOK
<1>2. CASE UNCHANGED sessions
  BY <1>2, NoTable
<1>3. CASE sessions' = [sessions EXCEPT ![n] = rest]
  <2> HIDE DEF rest
  <2> QED  BY <1>1, <1>3, OneTable
<1>4. CASE /\ existing # {} \/ path = {}
           /\ sessions' = [sessions EXCEPT ![n] = rest \cup {t}]
  <2>1. /\ Fields(t) /\ t.direction = "Receive"
        /\ t.source = f.source /\ t.destination = f.destination
    BY SMT DEF NewSession, Fields, AllFields, PathFields
  <2> HIDE DEF t
  <2>2. ASSUME Exclusive(t), NEW s \in rest
        PROVE  ~SamePath(s, t)
    <3>1. SUFFICES ASSUME SamePath(s, t) PROVE FALSE
      OBVIOUS
    <3>2. s \in path /\ s \notin existing
      BY <2>1, <2>2, <3>1 DEF SamePath, ReceivePath
    <3>3. PICK e \in existing : TRUE
      BY <1>4, <3>2
    <3>4. e \in sessions[n] /\ SamePath(s, e) /\ Exclusive(s)
      BY <2>1, <2>2, <3>1, <3>3
      DEF SamePath, Exclusive, IsBroadcast, ReceiveSessionFor, ReceivePath
    <3> QED  BY <1>1, <2>2, <3>2, <3>3, <3>4 DEF TableOK
  <2>3. TableOK(rest \cup {t})
    <3> HIDE DEF rest
    <3> QED  BY <1>1, <2>1, <2>2, AddedOK
  <2> HIDE DEF rest
  <2> QED  BY <1>4, <2>3, OneTable
<1> QED  BY <1>2, <1>3, <1>4 DEF HandleRts

\* Closing a session preserves the invariant.
LEMMA CloseInv ==
  ASSUME PathInv, NEW n \in Node, NEW s, Close(n, s)
  PROVE  PathInv'
<1> DEFINE table == sessions[n] \ {s}
<1>1. TableOK(sessions[n]) /\ table \subseteq sessions[n]
  BY DEF PathInv
<1>2. sessions' = [sessions EXCEPT ![n] = table]
  BY DEF Close
<1> HIDE DEF table
<1>3. TableOK(table)
  BY <1>1, PartOK
<1> QED  BY <1>2, <1>3, OneTable

\* Changing a session on its path preserves the invariant.
LEMMA ChangeInv ==
  ASSUME PathInv, NEW n \in Node, NEW s \in sessions[n], NEW t,
         Fields(t), SamePath(s, t), Change(n, s, t)
  PROVE  PathInv'
<1> DEFINE table == (sessions[n] \ {s}) \cup {t}
<1>1. TableOK(table)
  BY ChangedOK DEF PathInv
<1>2. sessions' = [sessions EXCEPT ![n] = table]
  BY DEF Change
<1> HIDE DEF table
<1> QED  BY <1>1, <1>2, OneTable

\* A CTS changes a transmit session on its path, or ends it.
LEMMA HandleCtsInv ==
  ASSUME PathInv, NEW n \in Node, HandleCts(n)
  PROVE  PathInv'
<1> DEFINE f == Head(rx[n])
<1>1. CASE UNCHANGED sessions
  BY <1>1, NoTable
<1>2. ASSUME NEW s \in AnsweredBy(sessions[n], f), Close(n, s)
      PROVE  PathInv'
  BY <1>2, CloseInv
<1>3. ASSUME NEW s \in AnsweredBy(sessions[n], f), Change(n, s, Cleared(s, f))
      PROVE  PathInv'
  <2>1. s \in sessions[n] /\ Fields(s)
    BY DEF AnsweredBy, PathInv, TableOK
  <2>2. Fields(Cleared(s, f)) /\ SamePath(s, Cleared(s, f))
    BY <2>1 DEF Cleared, Fields, SamePath, AllFields, PathFields
  <2> QED  BY <1>3, <2>1, <2>2, ChangeInv
<1> QED  BY <1>1, <1>2, <1>3 DEF HandleCts, Ignore

\* An EOMA or an abort only ends sessions.
LEMMA ClosingInv ==
  ASSUME PathInv, NEW n \in Node, HandleEoma(n) \/ HandleAbort(n)
  PROVE  PathInv'
<1>1. UNCHANGED sessions \/ \E s : Close(n, s)
  BY DEF HandleEoma, HandleAbort, Ignore
<1> QED  BY <1>1, NoTable, CloseInv

\* A BAM opens a session that shares its path with nothing exclusive.
LEMMA HandleBamInv ==
  ASSUME PathInv, NEW n \in Node, HandleBam(n)
  PROVE  PathInv'
<1> DEFINE f == Head(rx[n])
           rest == sessions[n] \ ReceiveSessionFor(sessions[n], f.source,
                                                   BROADCAST_ADDRESS, f.pgn)
           t == [NewSession EXCEPT
                   !.state = "ReceivingData", !.pgn = f.pgn, !.total = f.total,
                   !.source = f.source, !.destination = BROADCAST_ADDRESS]
<1>1. TableOK(sessions[n]) /\ rest \subseteq sessions[n]
  BY DEF PathInv
<1>2. /\ Fields(t) /\ t.direction = "Receive" /\ t.destination = BROADCAST_ADDRESS
  BY SMT DEF NewSession, Fields, AllFields, PathFields
<1>3. \/ sessions' = [sessions EXCEPT ![n] = rest]
      \/ sessions' = [sessions EXCEPT ![n] = rest \cup {t}]
  BY DEF HandleBam
<1> HIDE DEF rest, t
<1>4. TableOK(rest)
  BY <1>1, PartOK
<1>5. ~Exclusive(t)
  BY <1>2 DEF Exclusive, IsBroadcast
<1>6. TableOK(rest \cup {t})
  BY <1>2, <1>4, <1>5, AddedOK
<1> QED  BY <1>3, <1>4, <1>6, OneTable

\* A data packet changes a receive session on its path, or ends it.
LEMMA HandleDtInv ==
  ASSUME PathInv, NEW n \in Node, HandleDt(n)
  PROVE  PathInv'
<1> DEFINE f == Head(rx[n])
<1>1. CASE UNCHANGED sessions
  BY <1>1, NoTable
<1>2. ASSUME NEW s \in ReceivePath(sessions[n], f.source, f.destination)
      PROVE  /\ s \in sessions[n]
             /\ Fields(Ingested(s, f)) /\ SamePath(s, Ingested(s, f))
             /\ Fields(NextWindow(Ingested(s, f))) /\ SamePath(s, NextWindow(Ingested(s, f)))
  <2>1. s \in sessions[n] /\ Fields(s)
    BY DEF ReceivePath, PathInv, TableOK
  <2>2. Fields(Ingested(s, f)) /\ SamePath(s, Ingested(s, f))
    BY <2>1 DEF Ingested, Fields, SamePath, AllFields, PathFields
  <2> DEFINE t == Ingested(s, f)
  <2>3. Fields(t) /\ SamePath(s, t)
    BY <2>2
  <2> HIDE DEF t
  <2>4. Fields(NextWindow(t)) /\ SamePath(s, NextWindow(t))
    BY <2>3 DEF NextWindow, Fields, SamePath, AllFields, PathFields
  <2> QED  BY <2>1, <2>2, <2>4 DEF t
<1>3. ASSUME NEW s \in ReceivePath(sessions[n], f.source, f.destination),
             \/ Close(n, s)
             \/ Change(n, s, Ingested(s, f))
             \/ Change(n, s, NextWindow(Ingested(s, f)))
      PROVE  PathInv'
  BY <1>2, <1>3, CloseInv, ChangeInv
<1> QED  BY <1>1, <1>3 DEF HandleDt

\* The timers, the cleared windows and the queue preserve the invariant.
LEMMA UpdateInv ==
  ASSUME PathInv, NEW n \in Node, Update(n)
  PROVE  PathInv'
<1> DEFINE table == StartReady(DrainedTable(sessions[n]), pending[n]).table
<1>1. TableOK(table)
  BY DrainedTableOK, StartReadyOK DEF PathInv
<1>2. sessions' = [sessions EXCEPT ![n] = table]
  BY DEF Update
<1> HIDE DEF table
<1> QED  BY <1>1, <1>2, OneTable

\* Giving the address up only drops sessions (discontinue_address).
LEMMA DiscontinueInv ==
  ASSUME PathInv, NEW n \in Node, Discontinue(n)
  PROVE  PathInv'
<1> DEFINE table == {s \in sessions[n] : s.source # n /\ s.destination # n}
<1>1. TableOK(sessions[n]) /\ table \subseteq sessions[n]
  BY DEF PathInv
<1>2. sessions' = [sessions EXCEPT ![n] = table]
  BY DEF Discontinue
<1> HIDE DEF table
<1>3. TableOK(table)
  BY <1>1, PartOK
<1> QED  BY <1>2, <1>3, OneTable

-----------------------------------------------------------------------------
\* Every step keeps the paths apart.
LEMMA PathsAreKept ==
  ASSUME PathInv, [Next]_vars
  PROVE  PathInv'
<1>1. CASE \E m \in Message : Send(m)
  BY <1>1, SendInv
<1>2. ASSUME NEW n \in Node, Process(n) PROVE PathInv'
  <2>1. CASE PassOver(n)
    BY <2>1, NoTable DEF PassOver, Ignore
  <2> QED  BY <1>2, <2>1, HandleRtsInv, HandleCtsInv, ClosingInv, HandleBamInv,
              HandleDtInv DEF Process
<1>3. ASSUME NEW n \in Node, Update(n) \/ Discontinue(n) PROVE PathInv'
  BY <1>3, UpdateInv, DiscontinueInv
<1>4. ASSUME NEW n \in Node, Lose(n) \/ ForeignCts(n) PROVE PathInv'
  BY <1>4, NoTable DEF Lose, ForeignCts
<1>5. CASE UNCHANGED vars
  BY <1>5, NoTable DEF vars
<1> QED  BY <1>1, <1>2, <1>3, <1>4, <1>5 DEF Next

\* For any nodes, traffic, limits and timeouts, whatever is late or lost: a
\* node never has two transmit sessions on one path, nor two connections
\* received on one path.
THEOREM PathsAreUnambiguous == Spec => []OneSessionPerPath
<1>1. Init => PathInv
  BY DEF Init, PathInv, TableOK
<1>2. PathInv /\ [Next]_vars => PathInv'
  BY PathsAreKept
<1>3. PathInv => OneSessionPerPath
  BY DEF PathInv, TableOK, SamePath, Exclusive, OneSessionPerPath
<1> QED  BY <1>1, <1>2, <1>3, PTL DEF Spec

-----------------------------------------------------------------------------
(* The queue of transmits.                                                 *)

\* A nonempty set of positions has a last one.
LEMMA LastPosition ==
  ASSUME NEW n \in Nat, NEW S \in SUBSET (1 .. n), S # {}
  PROVE  \E i \in S : \A j \in S : j <= i
<1> DEFINE T == {n - i : i \in S}
<1>1. T \subseteq Nat /\ T # {}
  <2>1. \A i \in S : n - i \in Nat
    BY SMT
  <2>2. PICK i \in S : TRUE
    OBVIOUS
  <2>3. n - i \in T
    OBVIOUS
  <2> QED  BY <2>1, <2>3
<1>2. PICK x \in T : \A y \in T : ~(<<y, x>> \in OpToRel(<, Nat))
  BY <1>1, NatLessThanWellFounded, WFMin, Zenon
<1>3. ASSUME NEW y \in T PROVE x <= y
  <2> SUFFICES ASSUME y < x PROVE FALSE
    BY SMT, <1>1
  <2>1. <<y, x>> \in Nat \X Nat /\ <<y, x>>[1] < <<y, x>>[2]
    BY <1>1
  <2>2. <<y, x>> \in OpToRel(<, Nat)
    BY <2>1 DEF OpToRel
  <2> QED  BY <1>2, <2>2
<1>4. ASSUME NEW j \in S PROVE j <= n - x
  <2>1. x <= n - j /\ x \in Nat /\ j \in Nat
    BY SMT, <1>1, <1>3
  <2> HIDE DEF T
  <2> QED  BY SMT, <2>1
<1>5. n - x \in S
  BY SMT, <1>1
<1> QED  BY <1>4, <1>5

\* Counting along a set of positions reaches every number up to its size
\* exactly once: it has a first, a second, ... element.
LEMMA Counting ==
  ASSUME NEW n \in Nat, NEW P \in SUBSET (1 .. n)
  PROVE  /\ Cardinality(P) \in Nat
         /\ \A k \in 1 .. Cardinality(P) :
              \E i \in P : Cardinality({j \in P : j <= i}) = k
         /\ \A i \in P : Cardinality({j \in P : j <= i}) \in 1 .. Cardinality(P)
         /\ \A i, k \in P :
              Cardinality({j \in P : j <= i}) = Cardinality({j \in P : j <= k}) => i = k
<1> DEFINE Upto(i) == {j \in P : j <= i}
           N == Cardinality(P)
           rank == [i \in P |-> Cardinality(Upto(i))]
<1>1. IsFiniteSet(P) /\ N \in Nat
  <2>1. IsFiniteSet(1 .. n)
    BY SMT, FS_Interval
  <2> QED  BY <2>1, FS_Subset, FS_CardinalityType
<1>2. ASSUME NEW i \in P
      PROVE  /\ IsFiniteSet(Upto(i)) /\ Cardinality(Upto(i)) \in 1 .. N
  <2>1. Upto(i) \in SUBSET P /\ i \in Upto(i)
    BY SMT
  <2> HIDE DEF Upto
  <2>2. IsFiniteSet(Upto(i)) /\ Cardinality(Upto(i)) <= N
    BY <1>1, <2>1, FS_Subset
  <2>3. Cardinality(Upto(i)) \in Nat /\ Cardinality(Upto(i)) # 0
    BY <2>1, <2>2, FS_CardinalityType, FS_EmptySet
  <2> QED  BY SMT, <1>1, <2>2, <2>3
<1>3. ASSUME NEW i \in P, NEW k \in P, i < k
      PROVE  Cardinality(Upto(i)) # Cardinality(Upto(k))
  <2>0. P \subseteq Int
    BY SMT
  <2>1. ASSUME NEW j \in Upto(i) PROVE j \in Upto(k)
    <3>1. j \in P /\ j <= i
      OBVIOUS
    <3> QED  BY SMT, <1>3, <2>0, <3>1
  <2>2. k \in Upto(k) /\ k \notin Upto(i)
    BY SMT, <1>3, <2>0
  <2>3. IsFiniteSet(Upto(k))
    BY <1>2
  <2> HIDE DEF Upto
  <2>4. Upto(i) \in SUBSET Upto(k)
    BY <2>1
  <2> QED  BY <2>2, <2>3, <2>4, FS_Subset
<1>4. ASSUME NEW i \in P, NEW k \in P, Cardinality(Upto(i)) = Cardinality(Upto(k))
      PROVE  i = k
  <2>1. i < k \/ k < i \/ i = k
    BY SMT
  <2> QED  BY <1>3, <1>4, <2>1
<1> HIDE DEF Upto
<1>5. rank \in Injection(P, 1 .. N)
  BY <1>2, <1>4 DEF Injection, IsInjective
<1>6. IsFiniteSet(1 .. N) /\ Cardinality(1 .. N) = N
  BY SMT, <1>1, FS_Interval
<1>7. rank \in Surjection(P, 1 .. N)
  BY <1>5, <1>6, FS_Injection
<1>8. \A k \in 1 .. N : \E i \in P : Cardinality(Upto(i)) = k
  BY <1>7 DEF Surjection
<1> QED  BY <1>1, <1>2, <1>4, <1>8 DEF Upto

\* What sifting a queue of different messages keeps.
LEMMA SiftedKeeps ==
  ASSUME NEW q \in Seq(Message), NEW S
  PROVE  /\ Sifted(q, S) \in Seq(Message)
         /\ Range(Sifted(q, S)) = Range(q) \cap S
         /\ (\A i, j \in DOMAIN q : q[i] = q[j] => i = j)
              => \A i, j \in DOMAIN Sifted(q, S) : Sifted(q, S)[i] = Sifted(q, S)[j] => i = j
<1> DEFINE P == {i \in DOMAIN q : q[i] \in S}
           Rank(i) == Cardinality({j \in P : j <= i})
           Nth(k) == CHOOSE i \in P : Rank(i) = k
           N == Cardinality(P)
           r == Sifted(q, S)
<1>1. r = [k \in 1 .. N |-> q[Nth(k)]]
  BY DEF Sifted
<1>2. /\ Len(q) \in Nat /\ DOMAIN q = 1 .. Len(q) /\ P \in SUBSET (1 .. Len(q))
      /\ \A i \in P : q[i] \in Message
  BY SMT
<1>3. /\ N \in Nat
      /\ \A k \in 1 .. N : \E i \in P : Rank(i) = k
      /\ \A i \in P : Rank(i) \in 1 .. N
      /\ \A i, k \in P : Rank(i) = Rank(k) => i = k
  <2> HIDE DEF P
  <2> QED  BY <1>2, Counting
<1>4. Range(q) \cap S = {q[i] : i \in P}
  BY DEF Range
<1> HIDE DEF P, Rank, N, r
<1>5. \A k \in 1 .. N : Nth(k) \in P /\ Rank(Nth(k)) = k
  BY <1>3, Zenon
<1>6. \A i \in P : Nth(Rank(i)) = i
  BY <1>3, <1>5, Zenon
<1> HIDE DEF Nth
<1>7. r \in Seq(Message) /\ DOMAIN r = 1 .. N
  <2>1. \A k \in 1 .. N : q[Nth(k)] \in Message
    BY <1>2, <1>5
  <2>2. r \in [1 .. N -> Message]
    BY <1>1, <2>1
  <2> QED  BY SMT, <1>3, <2>2
<1>8. Range(r) = {q[i] : i \in P}
  <2>1. Range(r) = {r[k] : k \in 1 .. N}
    BY <1>7 DEF Range
  <2>2. ASSUME NEW k \in 1 .. N PROVE r[k] \in {q[i] : i \in P}
    BY <1>1, <1>5
  <2>3. ASSUME NEW i \in P PROVE q[i] \in {r[k] : k \in 1 .. N}
    <3>1. r[Rank(i)] = q[i] /\ Rank(i) \in 1 .. N
      BY <1>1, <1>3, <1>6
    <3> QED  BY <3>1
  <2> QED  BY <2>1, <2>2, <2>3
<1>9. ASSUME \A i, j \in DOMAIN q : q[i] = q[j] => i = j,
             NEW i \in 1 .. N, NEW j \in 1 .. N, r[i] = r[j]
      PROVE  i = j
  <2>0. Nth(i) \in DOMAIN q /\ Nth(j) \in DOMAIN q
    BY <1>2, <1>5
  <2>1. q[Nth(i)] = q[Nth(j)]
    BY <1>1, <1>9
  <2>2. Nth(i) = Nth(j)
    BY <1>9, <2>0, <2>1
  <2> QED  BY <1>5, <2>2
<1> QED  BY <1>4, <1>7, <1>8, <1>9 DEF r

-----------------------------------------------------------------------------
(* SessionCap.  It is inductive once the tables are finite and the queues  *)
(* are sequences of messages.                                              *)

Fits(table) == IsFiniteSet(table) /\ Cardinality(table) <= MaxSessions

CapInv ==
  /\ DOMAIN sessions = Node /\ DOMAIN pending = Node
  /\ \A n \in Node : Fits(sessions[n]) /\ pending[n] \in Seq(Message)

\* A part of a table that fits, fits (closing sessions).
LEMMA PartFits ==
  ASSUME NEW table, Fits(table), NEW part \in SUBSET table
  PROVE  Fits(part)
<1>1. IsFiniteSet(part) /\ Cardinality(part) <= Cardinality(table)
  BY FS_Subset DEF Fits
<1>2. Cardinality(part) \in Nat /\ Cardinality(table) \in Nat
  BY <1>1, FS_CardinalityType DEF Fits
<1> QED  BY SMT, <1>1, <1>2, EngineAssumption DEF Fits

\* A session is added only to a table that is not full.
LEMMA AddedFits ==
  ASSUME NEW table, Fits(table), ~TableFull(table), NEW t
  PROVE  Fits(table \cup {t})
<1>1. Cardinality(table) \in Nat
  BY FS_CardinalityType DEF Fits
<1>2. IsFiniteSet(table \cup {t}) /\ Cardinality(table \cup {t}) <= Cardinality(table) + 1
  BY SMT, <1>1, FS_AddElement DEF Fits
<1>3. Cardinality(table \cup {t}) \in Nat
  BY <1>2, FS_CardinalityType
<1> QED  BY SMT, <1>1, <1>2, <1>3, EngineAssumption DEF Fits, TableFull

\* Changing a session leaves the size of the table.
LEMMA ChangedFits ==
  ASSUME NEW table, Fits(table), NEW s \in table, NEW t
  PROVE  Fits((table \ {s}) \cup {t})
<1> DEFINE rest == table \ {s}
<1>1. IsFiniteSet(rest) /\ Cardinality(rest) = Cardinality(table) - 1
  BY FS_RemoveElement DEF Fits
<1>2. Cardinality(table) \in Nat /\ Cardinality(rest) \in Nat
  BY <1>1, FS_CardinalityType DEF Fits
<1>3. Fits(rest) /\ ~TableFull(rest)
  BY SMT, <1>1, <1>2, EngineAssumption DEF Fits, TableFull
<1> HIDE DEF rest
<1>4. Fits(rest \cup {t})
  BY <1>3, AddedFits
<1> QED  BY <1>4 DEF rest

\* The timers leave no more sessions than there were.
LEMMA DrainedFits ==
  ASSUME NEW table, Fits(table)
  PROVE  Fits(DrainedTable(table))
<1> DEFINE S == Survivors(table)
           T == DrainedTable(table)
           f == [s \in S |-> Drained(Timed(s).session)]
<1>1. Fits(S)
  <2>1. S \in SUBSET table
    BY DEF Survivors
  <2> HIDE DEF S
  <2> QED  BY <2>1, PartFits
<1>2. f \in Surjection(S, T)
  BY DEF Surjection, DrainedTable
<1> HIDE DEF f, S, T
<1>3. IsFiniteSet(T) /\ Cardinality(T) <= Cardinality(S)
  BY <1>1, <1>2, FS_Surjection DEF Fits
<1>4. Cardinality(T) \in Nat /\ Cardinality(S) \in Nat
  BY <1>1, <1>3, FS_CardinalityType DEF Fits
<1>5. Fits(T)
  BY SMT, <1>1, <1>3, <1>4, EngineAssumption DEF Fits
<1> QED  BY <1>5 DEF T

\* Queued transmits started together fit: of those that start, every other one
\* is ahead of the last in the queue, which counts them before it takes a slot
\* (start_ready_pending_transport).
LEMMA StartReadyFits ==
  ASSUME NEW table, Fits(table), NEW q \in Seq(Message)
  PROVE  Fits(StartReady(table, q).table)
<1> DEFINE R == Ready(table, q)
           go == Startable(table, q)
           Waiting(m) == {k \in R : Ahead(q, k, m)}
           opened == {OpenedSession(m) : m \in go}
<1>1. StartReady(table, q).table = table \cup opened
  BY DEF StartReady
<1>2. IsFiniteSet(Range(q))
  <2>1. q \in Surjection(1 .. Len(q), Range(q)) /\ Len(q) \in Nat
    BY SMT DEF Surjection, Range
  <2>2. IsFiniteSet(1 .. Len(q))
    BY SMT, <2>1, FS_Interval
  <2> QED  BY <2>1, <2>2, FS_Surjection
<1>3. R \in SUBSET Range(q) /\ go \in SUBSET R
  BY DEF Ready, Startable
<1>4. \A m \in go : Cardinality(table) + Cardinality(Waiting(m)) < MaxSessions
  BY DEF Startable
<1>5. ASSUME NEW m, NEW k, NEW i \in DOMAIN q, NEW j \in DOMAIN q,
             i < j, q[i] = k, q[j] = m, k \in R
      PROVE  k \in Waiting(m)
  BY <1>5 DEF Ahead
<1> HIDE DEF R, go, Waiting
<1>6. IsFiniteSet(R) /\ IsFiniteSet(go) /\ Cardinality(go) \in Nat /\ Cardinality(table) \in Nat
  BY <1>2, <1>3, FS_Subset, FS_CardinalityType DEF Fits
<1>7. IsFiniteSet(opened) /\ Cardinality(opened) <= Cardinality(go) /\ Cardinality(opened) \in Nat
  <2> DEFINE f == [m \in go |-> OpenedSession(m)]
  <2>1. f \in Surjection(go, opened)
    BY DEF Surjection
  <2> HIDE DEF f, opened
  <2> QED  BY <1>6, <2>1, FS_Surjection, FS_CardinalityType
<1> HIDE DEF opened
<1>8. Cardinality(table) + Cardinality(go) <= MaxSessions
  <2>1. CASE go = {}
    BY SMT, <1>6, <2>1, FS_EmptySet, EngineAssumption DEF Fits
  <2>2. CASE go # {}
    <3> DEFINE P == {i \in DOMAIN q : q[i] \in go}
    <3>1. P \in SUBSET (1 .. Len(q)) /\ Len(q) \in Nat /\ P # {}
      BY SMT, <1>3, <2>2 DEF Range
    <3>2. PICK i \in P : \A j \in P : j <= i
      <4> HIDE DEF P
      <4> QED  BY <3>1, LastPosition
    <3> DEFINE m == q[i]
               W == Waiting(m)
    <3>3. m \in go /\ i \in DOMAIN q
      BY <3>2
    <3>4. ASSUME NEW k \in go \ {m} PROVE k \in W
      <4>1. PICK j \in DOMAIN q : q[j] = k
        BY <1>3 DEF Range
      <4>2. j <= i /\ j # i
        BY <3>2, <4>1
      <4>3. j < i
        BY SMT, <3>1, <4>1, <4>2
      <4> QED  BY <1>3, <1>5, <3>3, <4>1, <4>3
    <3>5. W \in SUBSET R
      BY DEF Waiting
    <3>6. Cardinality(table) + Cardinality(W) < MaxSessions
      BY <1>4, <3>3
    <3> HIDE DEF m, W
    <3>7. IsFiniteSet(W) /\ Cardinality(W) \in Nat
      BY <1>6, <3>5, FS_Subset, FS_CardinalityType
    <3>8. Cardinality(go \ {m}) = Cardinality(go) - 1
      BY <1>6, <3>3, FS_RemoveElement
    <3>9. Cardinality(go \ {m}) <= Cardinality(W)
      <4>1. go \ {m} \in SUBSET W
        BY <3>4
      <4> QED  BY <3>7, <4>1, FS_Subset
    <3> QED  BY SMT, <1>6, <3>6, <3>7, <3>8, <3>9, EngineAssumption
  <2> QED  BY <2>1, <2>2
<1>9. /\ IsFiniteSet(table \cup opened)
      /\ Cardinality(table \cup opened) <= Cardinality(table) + Cardinality(opened)
  <2>1. IsFiniteSet(table \cap opened)
    BY <1>7, FS_Subset
  <2>2. Cardinality(table \cap opened) \in Nat
    BY <2>1, FS_CardinalityType
  <2>3. Cardinality(table \cup opened)
          = Cardinality(table) + Cardinality(opened) - Cardinality(table \cap opened)
        /\ IsFiniteSet(table \cup opened)
    BY <1>7, FS_Union DEF Fits
  <2> QED  BY SMT, <1>6, <1>7, <2>2, <2>3
<1>10. Cardinality(table \cup opened) \in Nat
  BY <1>9, FS_CardinalityType
<1>11. Fits(table \cup opened)
  BY SMT, <1>6, <1>7, <1>8, <1>9, <1>10, EngineAssumption DEF Fits
<1> QED  BY <1>1, <1>11

\* A step that replaces the table of one node by one that fits, and leaves the
\* queues alone.
LEMMA OneFits ==
  ASSUME CapInv, NEW n \in Node, NEW table, Fits(table),
         sessions' = [sessions EXCEPT ![n] = table], UNCHANGED pending
  PROVE  CapInv'
BY DEF CapInv, Fits

\* A step that touches neither the tables nor the queues.
LEMMA NoneFits ==
  ASSUME CapInv, UNCHANGED <<sessions, pending>>
  PROVE  CapInv'
BY DEF CapInv, Fits

\* A queue grows by the message that is sent and shrinks to what it still holds.
LEMMA QueueFits ==
  ASSUME CapInv, NEW n \in Node, NEW q \in Seq(Message), NEW table, Fits(table),
         sessions' = [sessions EXCEPT ![n] = table],
         pending' = [pending EXCEPT ![n] = q]
  PROVE  CapInv'
BY DEF CapInv, Fits

\* IsoNet::send and the handlers of frames keep the tables within the limit.
LEMMA HandlersFit ==
  ASSUME CapInv, NEW n \in Node, Process(n)
  PROVE  CapInv'
<1> DEFINE f == Head(rx[n])
<1>1. Fits(sessions[n])
  BY DEF CapInv
<1>2. UNCHANGED pending
  BY DEF Process, PassOver, HandleRts, HandleCts, HandleEoma, HandleBam, HandleAbort, HandleDt
<1>3. ASSUME NEW part \in SUBSET sessions[n], sessions' = [sessions EXCEPT ![n] = part]
      PROVE  CapInv'
  BY <1>1, <1>2, <1>3, PartFits, OneFits
<1>4. ASSUME NEW part \in SUBSET sessions[n], ~TableFull(part), NEW t,
             sessions' = [sessions EXCEPT ![n] = part \cup {t}]
      PROVE  CapInv'
  BY <1>1, <1>2, <1>4, PartFits, AddedFits, OneFits
<1>5. ASSUME NEW s \in sessions[n], NEW t, Change(n, s, t)
      PROVE  CapInv'
  BY <1>1, <1>2, <1>5, ChangedFits, OneFits DEF Change
<1>6. ASSUME NEW s, Close(n, s) PROVE CapInv'
  <2>1. sessions[n] \ {s} \in SUBSET sessions[n]
    OBVIOUS
  <2> QED  BY <1>3, <1>6, <2>1 DEF Close
<1>7. CASE UNCHANGED sessions
  BY <1>2, <1>7, NoneFits
<1>8. CASE PassOver(n)
  BY <1>7, <1>8 DEF PassOver, Ignore
<1>9. CASE HandleRts(n)
  <2> DEFINE rest == sessions[n] \ ReceiveSessionFor(sessions[n], f.source, f.destination, f.pgn)
  <2>1. rest \in SUBSET sessions[n]
    OBVIOUS
  <2>2. \/ UNCHANGED sessions
        \/ sessions' = [sessions EXCEPT ![n] = rest]
        \/ ~TableFull(rest) /\ \E t : sessions' = [sessions EXCEPT ![n] = rest \cup {t}]
    BY <1>9 DEF HandleRts
  <2> HIDE DEF rest
  <2> QED  BY <1>3, <1>4, <1>7, <2>1, <2>2
<1>10. CASE HandleBam(n)
  <2> DEFINE rest == sessions[n] \ ReceiveSessionFor(sessions[n], f.source,
                                                     BROADCAST_ADDRESS, f.pgn)
  <2>1. rest \in SUBSET sessions[n]
    OBVIOUS
  <2>2. \/ sessions' = [sessions EXCEPT ![n] = rest]
        \/ ~TableFull(rest) /\ \E t : sessions' = [sessions EXCEPT ![n] = rest \cup {t}]
    BY <1>10 DEF HandleBam
  <2> HIDE DEF rest
  <2> QED  BY <1>3, <1>4, <2>1, <2>2
<1>11. CASE HandleCts(n)
  <2>1. \/ UNCHANGED sessions \/ \E s : Close(n, s)
        \/ \E s \in sessions[n] : \E t : Change(n, s, t)
    BY <1>11 DEF HandleCts, Ignore, AnsweredBy
  <2> QED  BY <1>5, <1>6, <1>7, <2>1
<1>12. CASE HandleEoma(n) \/ HandleAbort(n)
  <2>1. UNCHANGED sessions \/ \E s : Close(n, s)
    BY <1>12 DEF HandleEoma, HandleAbort, Ignore
  <2> QED  BY <1>6, <1>7, <2>1
<1>13. CASE HandleDt(n)
  <2>1. \/ UNCHANGED sessions \/ \E s : Close(n, s)
        \/ \E s \in sessions[n] : \E t : Change(n, s, t)
    BY <1>13 DEF HandleDt, ReceivePath
  <2> QED  BY <1>5, <1>6, <1>7, <2>1
<1> QED  BY <1>8, <1>9, <1>10, <1>11, <1>12, <1>13 DEF Process

\* For any number of nodes, any traffic and any max_sessions: no session table
\* ever outgrows its limit, whether its sessions are opened by the application,
\* from the bus, or by a queue whose transmits start together.
THEOREM TablesStayWithinTheirLimit == Spec => []SessionCap
<1>1. Init => CapInv
  BY SMT, FS_EmptySet, EngineAssumption DEF Init, CapInv, Fits
<1>2. CapInv /\ [Next]_vars => CapInv'
  <2> SUFFICES ASSUME CapInv, [Next]_vars PROVE CapInv'
    OBVIOUS
  <2>1. ASSUME NEW m \in Message, Send(m) PROVE CapInv'
    <3> DEFINE n == SourceOf[m]
    <3>1. n \in Node /\ Fits(sessions[n]) /\ pending[n] \in Seq(Message)
      BY TrafficAssumption DEF CapInv
    <3>2. \/ /\ ~TableFull(sessions[n]) /\ UNCHANGED pending
             /\ \E t : sessions' = [sessions EXCEPT ![n] = sessions[n] \cup {t}]
          \/ pending' = [pending EXCEPT ![n] = Append(pending[n], m)] /\ UNCHANGED sessions
          \/ UNCHANGED <<sessions, pending>>
      BY <2>1 DEF Send, CanOpen
    <3> HIDE DEF n
    <3>3. CASE pending' = [pending EXCEPT ![n] = Append(pending[n], m)] /\ UNCHANGED sessions
      <4>1. Append(pending[n], m) \in Seq(Message)
        BY SMT, <3>1
      <4> QED  BY <3>1, <3>3, <4>1 DEF CapInv
    <3> QED  BY <3>1, <3>2, <3>3, AddedFits, OneFits, NoneFits
  <2>2. ASSUME NEW n \in Node, Update(n) PROVE CapInv'
    <3> DEFINE ready == StartReady(DrainedTable(sessions[n]), pending[n])
    <3>1. Fits(ready.table)
      BY DrainedFits, StartReadyFits DEF CapInv
    <3>2. ready.left \in Seq(Message)
      BY SiftedKeeps DEF CapInv, StartReady
    <3>3. /\ sessions' = [sessions EXCEPT ![n] = ready.table]
          /\ pending' = [pending EXCEPT ![n] = ready.left]
      BY <2>2 DEF Update
    <3> HIDE DEF ready
    <3> QED  BY <3>1, <3>2, <3>3, QueueFits
  <2>3. ASSUME NEW n \in Node, Discontinue(n) PROVE CapInv'
    <3> DEFINE kept == {s \in sessions[n] : s.source # n /\ s.destination # n}
    <3>1. Fits(kept)
      <4>1. kept \in SUBSET sessions[n] /\ Fits(sessions[n])
        BY DEF CapInv
      <4> HIDE DEF kept
      <4> QED  BY <4>1, PartFits
    <3>2. /\ sessions' = [sessions EXCEPT ![n] = kept]
          /\ pending' = [pending EXCEPT ![n] = << >>] /\ << >> \in Seq(Message)
      BY SMT, <2>3 DEF Discontinue
    <3> HIDE DEF kept
    <3> QED  BY <3>1, <3>2, QueueFits
  <2>4. ASSUME NEW n \in Node, Lose(n) \/ ForeignCts(n) PROVE CapInv'
    BY <2>4, NoneFits DEF Lose, ForeignCts
  <2>5. CASE UNCHANGED vars
    BY <2>5, NoneFits DEF vars
  <2> QED  BY <2>1, <2>2, <2>3, <2>4, <2>5, HandlersFit DEF Next
<1>3. CapInv => SessionCap
  BY DEF CapInv, Fits, SessionCap
<1> QED  BY <1>1, <1>2, <1>3, PTL DEF Spec

-----------------------------------------------------------------------------
(* AcceptedIsSomewhere.  Beside the status of every message, the invariant *)
(* says whose sessions are in a table and that a queue holds no message    *)
(* twice; that a message is in one session only follows from its path.     *)

\* A session of node n: it transmits a message of n, or it receives.
Belongs(n, s) ==
  \/ /\ s.direction = "Transmit" /\ s.message \in Message
     /\ SourceOf[s.message] = n /\ s.source = n
     /\ s.destination = DestinationOf[s.message]
  \/ s.direction = "Receive" /\ s.message = NoMessage

Carried(table, m) == \E s \in table : s.message = m

\* The messages of n are where their status st says.
Placed(n, table, queue, st) ==
  /\ \A s \in table : Belongs(n, s)
  /\ queue \in Seq(Message)
  /\ \A m \in Range(queue) : SourceOf[m] = n
  /\ \A i, j \in DOMAIN queue : queue[i] = queue[j] => i = j
  /\ \A m \in Message : SourceOf[m] = n =>
       /\ st[m] = "open" <=> Carried(table, m)
       /\ st[m] = "queued" <=> m \in Range(queue)

PlaceInv ==
  /\ DOMAIN pending = Node /\ DOMAIN status = Message
  /\ \A n \in Node : Placed(n, sessions[n], pending[n], status)

\* A table in which the same messages are carried.
LEMMA AsPlaced ==
  ASSUME NEW n, NEW table, NEW q, NEW st, Placed(n, table, q, st),
         NEW new, \A s \in new : Belongs(n, s),
         \A m \in Message : Carried(new, m) <=> Carried(table, m)
  PROVE  Placed(n, new, q, st)
BY DEF Placed

\* Receive sessions come and go without a message.
LEMMA ReceiversPlaced ==
  ASSUME NEW n, NEW table, NEW q, NEW st, Placed(n, table, q, st), NEW new,
         \A s \in new \ table : s.direction = "Receive" /\ s.message = NoMessage,
         \A s \in table \ new : s.direction = "Receive"
  PROVE  Placed(n, new, q, st)
<1>1. \A s \in new : Belongs(n, s)
  BY DEF Placed, Belongs
<1>2. \A s \in table \ new : s.message = NoMessage
  BY DEF Placed, Belongs
<1>3. NoMessage \notin Message
  BY TrafficAssumption
<1>4. \A m \in Message : Carried(new, m) <=> Carried(table, m)
  BY <1>2, <1>3 DEF Carried
<1> QED  BY <1>1, <1>4, AsPlaced

\* A session that changes keeps its message (Cleared, Ingested, NextWindow).
LEMMA ChangedPlaced ==
  ASSUME NEW n, NEW table, NEW q, NEW st, Placed(n, table, q, st),
         NEW s \in table, NEW t, SamePath(s, t), t.message = s.message
  PROVE  Placed(n, (table \ {s}) \cup {t}, q, st)
<1> DEFINE new == (table \ {s}) \cup {t}
<1>1. \A u \in new : Belongs(n, u)
  BY SMT DEF Placed, Belongs, SamePath
<1>2. \A m \in Message : Carried(new, m) <=> Carried(table, m)
  BY DEF Carried
<1> HIDE DEF new
<1>3. Placed(n, new, q, st)
  BY <1>1, <1>2, AsPlaced
<1> QED  BY <1>3 DEF new

\* A message is in one session of a table at most.
LEMMA OneCarrier ==
  ASSUME NEW n, NEW table, TableOK(table), \A s \in table : Belongs(n, s),
         NEW s \in table, NEW t \in table, s.message = t.message, s.message \in Message
  PROVE  s = t
<1>1. NoMessage \notin Message
  BY TrafficAssumption
<1>2. SamePath(s, t) /\ Exclusive(s)
  BY <1>1 DEF Belongs, SamePath, Exclusive
<1> QED  BY <1>2 DEF TableOK

\* A session that ends takes its message with it, and the application learns
\* how it ended (Close with Ended).
LEMMA ClosedPlaced ==
  ASSUME NEW n, NEW table, NEW q, NEW st, TableOK(table), Placed(n, table, q, st),
         DOMAIN st = Message, NEW s \in table,
         NEW new, s.direction = "Transmit" => new[s.message] \notin {"open", "queued"},
         \A m \in Message : m # s.message => new[m] = st[m]
  PROVE  /\ Placed(n, table \ {s}, q, new)
         /\ \A m \in Message : SourceOf[m] # n => new[m] = st[m]
<1> DEFINE rest == table \ {s}
<1>1. Belongs(n, s) /\ NoMessage \notin Message
  BY TrafficAssumption DEF Placed
<1>2. CASE s.direction = "Receive"
  <2>1. \A m \in Message : new[m] = st[m]
    BY <1>1, <1>2 DEF Belongs
  <2>2. Placed(n, rest, q, st)
    BY <1>2, ReceiversPlaced
  <2> HIDE DEF rest
  <2>3. Placed(n, rest, q, new)
    BY <2>1, <2>2 DEF Placed
  <2> QED  BY <2>1, <2>3 DEF rest
<1>3. CASE s.direction = "Transmit"
  <2> DEFINE k == s.message
  <2>1. k \in Message /\ SourceOf[k] = n
    BY <1>1, <1>3 DEF Belongs
  <2>2. new[k] \notin {"open", "queued"} /\ \A m \in Message \ {k} : new[m] = st[m]
    BY <1>3
  <2>3. ~Carried(rest, k)
    <3> SUFFICES ASSUME NEW t \in table, t # s, t.message = k PROVE FALSE
      BY DEF Carried
    <3> QED  BY <2>1, OneCarrier DEF Placed
  <2>4. k \notin Range(q)
    <3>1. Carried(table, k)
      BY DEF Carried
    <3>2. st[k] = "open"
      BY <2>1, <3>1 DEF Placed
    <3> QED  BY <2>1, <3>2 DEF Placed
  <2>5. \A m \in Message \ {k} : Carried(rest, m) <=> Carried(table, m)
    BY DEF Carried
  <2>6. \A u \in rest : Belongs(n, u)
    BY DEF Placed
  <2> HIDE DEF k, rest
  <2>7. Placed(n, rest, q, new)
    BY <2>2, <2>3, <2>4, <2>5, <2>6 DEF Placed
  <2> QED  BY <2>1, <2>2, <2>7 DEF rest
<1> QED  BY <1>1, <1>2, <1>3 DEF Belongs

\* update() and get_pending_data_frames leave a session its message.
LEMMA DrainedMessage ==
  ASSUME NEW s, Fields(s), Timed(s).outcome = "open"
  PROVE  Drained(Timed(s).session).message = s.message
<1> DEFINE a == Aged(s)
           b == [a EXCEPT !.timer = 0, !.last = @ + 1]
           c == Timed(s).session
<1>1. Fields(a) /\ a.message = s.message
  BY DEF Aged, Fields, AllFields, PathFields
<1>2. Fields(b) /\ b.message = s.message
  BY <1>1 DEF Fields, AllFields, PathFields
<1>3. c \in {a, b}
  BY DEF Timed
<1>4. Fields(c) /\ c.message = s.message
  BY <1>1, <1>2, <1>3
<1> HIDE DEF c
<1>5. Drained(c).message = c.message
  BY <1>4 DEF Drained, Fields, AllFields
<1> QED  BY <1>4, <1>5 DEF c

\* The outcome of a session is an end, unless it goes on.
LEMMA TimedOutcome ==
  ASSUME NEW s PROVE Timed(s).outcome \in {"open", "complete", "aborted"}
BY DEF Timed

\* The timers end sessions, the queue opens them, and every message stays in
\* its place (the transport part of IsoNet::update).
LEMMA UpdatePlaced ==
  ASSUME NEW n, NEW table, NEW q, TableOK(table), Placed(n, table, q, status),
         DOMAIN status = Message,
         NEW ready, ready = StartReady(DrainedTable(table), q),
         NEW new, new = Outcomes(table, ready.started)
  PROVE  /\ Placed(n, ready.table, ready.left, new) /\ DOMAIN new = Message
         /\ \A m \in Message : SourceOf[m] # n => new[m] = status[m]
<1> DEFINE D == DrainedTable(table)
           go == Startable(D, q)
           opened == {OpenedSession(m) : m \in go}
           full == D \cup opened
           left == Sifted(q, Range(q) \ go)
<1>1. ready.table = full /\ ready.left = left /\ ready.started = Sifted(q, go)
  BY DEF StartReady
<1>2. go \subseteq Range(q)
  BY DEF Startable, Ready
<1>3. /\ q \in Seq(Message) /\ Range(q) \subseteq Message
      /\ \A m \in Range(q) : SourceOf[m] = n
      /\ \A i, j \in DOMAIN q : q[i] = q[j] => i = j
      /\ NoMessage \notin Message
  <2>1. /\ q \in Seq(Message) /\ \A m \in Range(q) : SourceOf[m] = n
        /\ \A i, j \in DOMAIN q : q[i] = q[j] => i = j
    BY DEF Placed
  <2>2. Range(q) \subseteq Message
    BY SMT, <2>1 DEF Range
  <2> QED  BY <2>1, <2>2, TrafficAssumption
<1>4. ASSUME NEW s \in Survivors(table)
      PROVE  /\ s \in table /\ Drained(Timed(s).session) \in D
             /\ Drained(Timed(s).session).message = s.message
             /\ Belongs(n, Drained(Timed(s).session))
  <2>1. s \in table /\ Fields(s) /\ Timed(s).outcome = "open" /\ Belongs(n, s)
    BY DEF Survivors, TableOK, Placed
  <2>2. /\ SamePath(s, Drained(Timed(s).session))
        /\ Drained(Timed(s).session).message = s.message
    BY <2>1, DrainedPath, DrainedMessage
  <2> QED  BY <2>1, <2>2 DEF Belongs, SamePath, DrainedTable
<1>5. \A d \in D : \E s \in Survivors(table) : d = Drained(Timed(s).session)
  BY DEF DrainedTable
<1>6. \A m \in go : OpenedSession(m).message = m
  BY DEF OpenedSession, NewSession
<1> HIDE DEF D, go
<1>7. \A m \in go : Belongs(n, OpenedSession(m))
  BY SMT, <1>2, <1>3, <1>6, OpenedPath DEF Belongs
<1>8. \A u \in full : Belongs(n, u)
  BY <1>4, <1>5, <1>7
<1>9. /\ left \in Seq(Message) /\ Range(left) = Range(q) \ go
      /\ \A i, j \in DOMAIN left : left[i] = left[j] => i = j
      /\ Range(ready.started) = go
  <2>1. /\ left \in Seq(Message) /\ Range(left) = Range(q) \cap (Range(q) \ go)
        /\ \A i, j \in DOMAIN left : left[i] = left[j] => i = j
    BY <1>3, SiftedKeeps
  <2>2. Range(ready.started) = Range(q) \cap go
    BY SMT, <1>1, <1>3, SiftedKeeps
  <2> QED  BY <1>2, <2>1, <2>2
<1>10. ASSUME NEW m \in Message
       PROVE  new[m] = IF m \in go THEN "open"
                       ELSE IF Carried(table, m)
                       THEN Timed(CHOOSE s \in table : s.message = m).outcome
                       ELSE status[m]
  BY <1>9 DEF Outcomes, Carried
<1>11. DOMAIN new = Message
  BY DEF Outcomes
<1>12. ASSUME NEW m \in Message, m \notin go
       PROVE  Carried(full, m) <=> \E s \in Survivors(table) : s.message = m
  BY SMT, <1>4, <1>5, <1>6, <1>12 DEF Carried
<1>13. ASSUME NEW m \in Message, SourceOf[m] # n PROVE new[m] = status[m]
  <2>1. m \notin go
    BY <1>2, <1>3, <1>13
  <2>2. ~Carried(table, m)
    BY SMT, <1>3, <1>13 DEF Carried, Placed, Belongs
  <2> QED  BY <1>10, <2>1, <2>2
<1> HIDE DEF left
<1>14. ASSUME NEW m \in Message, SourceOf[m] = n
       PROVE  /\ new[m] = "open" <=> Carried(full, m)
              /\ new[m] = "queued" <=> m \in Range(left)
  <2>0. /\ status[m] = "open" <=> Carried(table, m)
        /\ status[m] = "queued" <=> m \in Range(q)
    BY <1>14 DEF Placed
  <2>1. CASE m \in go
    <3>1. Carried(full, m)
      BY <1>6, <2>1 DEF Carried
    <3> QED  BY <1>9, <1>10, <2>1, <3>1
  <2>2. CASE m \notin go /\ Carried(table, m)
    <3> DEFINE c == CHOOSE s \in table : s.message = m
    <3>1. c \in table /\ c.message = m
      BY <2>2 DEF Carried
    <3> HIDE DEF c
    <3>2. new[m] = Timed(c).outcome
      BY <1>10, <2>2 DEF c
    <3>3. \A s \in table : s.message = m => s = c
      BY <3>1, OneCarrier DEF Placed
    <3>4. Carried(full, m) <=> c \in Survivors(table)
      BY <1>4, <1>12, <2>2, <3>1, <3>3
    <3>5. c \in Survivors(table) <=> Timed(c).outcome = "open"
      BY <3>1 DEF Survivors
    <3>6. Timed(c).outcome # "queued"
      BY TimedOutcome
    <3> QED  BY <1>9, <2>0, <2>2, <3>2, <3>4, <3>5, <3>6
  <2>3. CASE m \notin go /\ ~Carried(table, m)
    <3>1. new[m] = status[m]
      BY <1>10, <2>3
    <3>2. ~Carried(full, m)
      BY <1>4, <1>12, <2>3 DEF Carried
    <3> QED  BY <1>9, <2>0, <2>3, <3>1, <3>2
  <2> QED  BY <2>1, <2>2, <2>3
<1> HIDE DEF full
<1>15. Placed(n, full, left, new)
  BY <1>3, <1>8, <1>9, <1>14 DEF Placed
<1> QED  BY <1>1, <1>11, <1>13, <1>15

\* A step of node n that keeps its own messages in their places, and leaves
\* the others' alone.
LEMMA OnePlaced ==
  ASSUME PlaceInv, NEW n \in Node, DOMAIN pending' = Node, DOMAIN status' = Message,
         \A k \in Node \ {n} : sessions'[k] = sessions[k] /\ pending'[k] = pending[k],
         \A m \in Message : SourceOf[m] # n => status'[m] = status[m],
         Placed(n, sessions'[n], pending'[n], status')
  PROVE  PlaceInv'
<1>1. ASSUME NEW k \in Node \ {n}
      PROVE  Placed(k, sessions'[k], pending'[k], status')
  <2>1. Placed(k, sessions[k], pending[k], status)
    BY DEF PlaceInv
  <2>2. sessions'[k] = sessions[k] /\ pending'[k] = pending[k]
    OBVIOUS
  <2>3. \A m \in Message : SourceOf[m] = k => status'[m] = status[m]
    OBVIOUS
  <2> QED  BY SMT, <2>1, <2>2, <2>3 DEF Placed
<1>2. \A k \in Node : Placed(k, sessions'[k], pending'[k], status')
  BY <1>1
<1> QED  BY <1>2 DEF PlaceInv, Placed

\* A step that changes nothing but one table, by receive sessions or by a
\* session that keeps its message.
LEMMA TablePlaced ==
  ASSUME PathInv, PlaceInv, NEW n \in Node, NEW table,
         sessions' = [sessions EXCEPT ![n] = table], UNCHANGED <<pending, status>>,
         Placed(n, table, pending[n], status)
  PROVE  PlaceInv'
<1>1. /\ sessions'[n] = table /\ pending'[n] = pending[n] /\ status' = status
      /\ \A k \in Node \ {n} : sessions'[k] = sessions[k] /\ pending'[k] = pending[k]
      /\ DOMAIN pending' = Node /\ DOMAIN status' = Message
  BY DEF PathInv, PlaceInv
<1> QED  BY SMT, <1>1, OnePlaced

\* A session of n ends as its application is told.
LEMMA EndPlaced ==
  ASSUME PathInv, PlaceInv, NEW n \in Node, NEW s \in sessions[n], Close(n, s),
         NEW outcome, outcome \notin {"open", "queued"},
         Ended(s, outcome) \/ (s.direction = "Receive" /\ UNCHANGED status),
         UNCHANGED pending
  PROVE  PlaceInv'
<1>1. TableOK(sessions[n]) /\ Placed(n, sessions[n], pending[n], status)
      /\ DOMAIN status = Message
  BY DEF PathInv, PlaceInv
<1>2. Belongs(n, s) /\ NoMessage \notin Message
  BY <1>1, TrafficAssumption DEF Placed
<1>3. /\ Placed(n, sessions[n] \ {s}, pending[n], status') /\ DOMAIN status' = Message
      /\ \A m \in Message : SourceOf[m] # n => status'[m] = status[m]
  <2> DEFINE new == status'
  <2>1. /\ DOMAIN new = Message
        /\ s.direction = "Transmit" => new[s.message] \notin {"open", "queued"}
        /\ \A m \in Message : m # s.message => new[m] = status[m]
    BY <1>1, <1>2 DEF Ended, Belongs
  <2> HIDE DEF new
  <2>2. /\ Placed(n, sessions[n] \ {s}, pending[n], new)
        /\ \A m \in Message : SourceOf[m] # n => new[m] = status[m]
    BY ONLY SMT, <1>1, <2>1, s \in sessions[n], ClosedPlaced
  <2> QED  BY <2>1, <2>2 DEF new
<1>4. /\ sessions'[n] = sessions[n] \ {s} /\ pending' = pending /\ DOMAIN pending = Node
      /\ \A k \in Node \ {n} : sessions'[k] = sessions[k]
  BY DEF Close, PathInv, PlaceInv
<1> QED  BY <1>3, <1>4, OnePlaced

\* Every frame a node processes keeps the messages in their places.
LEMMA ProcessPlaces ==
  ASSUME PathInv, PlaceInv, NEW n \in Node, Process(n)
  PROVE  PlaceInv'
<1> DEFINE f == Head(rx[n])
<1>0. /\ UNCHANGED pending /\ TableOK(sessions[n])
      /\ Placed(n, sessions[n], pending[n], status)
  BY DEF Process, PassOver, HandleRts, HandleCts, HandleEoma, HandleBam, HandleAbort,
         HandleDt, PathInv, PlaceInv
<1>1. CASE UNCHANGED <<sessions, status>>
  BY SMT, <1>0, <1>1 DEF PlaceInv, Placed, Carried, Belongs
<1>2. ASSUME NEW part \in SUBSET sessions[n], NEW t, UNCHANGED status,
             t.direction = "Receive" /\ t.message = NoMessage,
             \A s \in sessions[n] \ part : s.direction = "Receive",
             \/ sessions' = [sessions EXCEPT ![n] = part]
             \/ sessions' = [sessions EXCEPT ![n] = part \cup {t}]
      PROVE  PlaceInv'
  <2>1. Placed(n, part, pending[n], status) /\ Placed(n, part \cup {t}, pending[n], status)
    BY <1>0, <1>2, ReceiversPlaced
  <2> QED  BY <1>0, <1>2, <2>1, TablePlaced
<1>3. ASSUME NEW s \in sessions[n], NEW t, Change(n, s, t), UNCHANGED status,
             SamePath(s, t), t.message = s.message
      PROVE  PlaceInv'
  <2>1. Placed(n, (sessions[n] \ {s}) \cup {t}, pending[n], status)
    BY <1>0, <1>3, ChangedPlaced
  <2> QED  BY <1>0, <1>3, <2>1, TablePlaced DEF Change
<1>4. CASE PassOver(n)
  BY <1>1, <1>4 DEF PassOver, Ignore
<1>5. CASE HandleRts(n)
  <2> DEFINE existing == ReceiveSessionFor(sessions[n], f.source, f.destination, f.pgn)
             rest == sessions[n] \ existing
             window == Least(f.window, PacketsPerCts)
             t == [NewSession EXCEPT
                     !.state = "WaitingForData", !.pgn = f.pgn, !.total = f.total,
                     !.source = f.source, !.destination = f.destination,
                     !.perCts = window, !.windowSize = Least(f.total, window)]
  <2>1. /\ rest \in SUBSET sessions[n] /\ t.direction = "Receive" /\ t.message = NoMessage
        /\ \A s \in sessions[n] \ rest : s.direction = "Receive"
    BY DEF ReceiveSessionFor, ReceivePath, NewSession
  <2>2. /\ UNCHANGED status
        /\ \/ UNCHANGED sessions
           \/ sessions' = [sessions EXCEPT ![n] = rest]
           \/ sessions' = [sessions EXCEPT ![n] = rest \cup {t}]
    BY <1>5 DEF HandleRts
  <2> HIDE DEF rest, t
  <2> QED  BY <1>1, <1>2, <2>1, <2>2
<1>6. CASE HandleBam(n)
  <2> DEFINE rest == sessions[n] \ ReceiveSessionFor(sessions[n], f.source,
                                                     BROADCAST_ADDRESS, f.pgn)
             t == [NewSession EXCEPT
                     !.state = "ReceivingData", !.pgn = f.pgn, !.total = f.total,
                     !.source = f.source, !.destination = BROADCAST_ADDRESS]
  <2>1. /\ rest \in SUBSET sessions[n] /\ t.direction = "Receive" /\ t.message = NoMessage
        /\ \A s \in sessions[n] \ rest : s.direction = "Receive"
    BY DEF ReceiveSessionFor, ReceivePath, NewSession
  <2>2. /\ UNCHANGED status
        /\ \/ sessions' = [sessions EXCEPT ![n] = rest]
           \/ sessions' = [sessions EXCEPT ![n] = rest \cup {t}]
    BY <1>6 DEF HandleBam
  <2> HIDE DEF rest, t
  <2> QED  BY <1>2, <2>1, <2>2
<1>7. CASE HandleCts(n)
  <2>1. CASE UNCHANGED <<sessions, status>>
    BY <1>1, <2>1
  <2>2. ASSUME NEW s \in AnsweredBy(sessions[n], f), Close(n, s), Ended(s, "aborted")
        PROVE  PlaceInv'
    BY SMT, <1>0, <2>2, EndPlaced DEF AnsweredBy
  <2>3. ASSUME NEW s \in AnsweredBy(sessions[n], f), Change(n, s, Cleared(s, f)),
               UNCHANGED status
        PROVE  PlaceInv'
    <3>1. s \in sessions[n] /\ Fields(s)
      BY <1>0 DEF AnsweredBy, TableOK
    <3>2. SamePath(s, Cleared(s, f)) /\ Cleared(s, f).message = s.message
      BY <3>1 DEF Cleared, Fields, SamePath, AllFields, PathFields
    <3> QED  BY <1>3, <2>3, <3>1, <3>2
  <2> QED  BY <1>7, <2>1, <2>2, <2>3 DEF HandleCts, Ignore
<1>8. CASE HandleEoma(n) \/ HandleAbort(n)
  <2>1. \/ UNCHANGED <<sessions, status>>
        \/ \E s \in sessions[n] :
             Close(n, s) /\ (Ended(s, "complete") \/ Ended(s, "aborted"))
    BY <1>8 DEF HandleEoma, HandleAbort, Ignore, AnsweredBy
  <2> QED  BY SMT, <1>0, <1>1, <2>1, EndPlaced
<1>9. CASE HandleDt(n)
  <2>1. UNCHANGED status
    BY <1>9 DEF HandleDt
  <2>2. ASSUME NEW s \in ReceivePath(sessions[n], f.source, f.destination)
        PROVE  /\ s \in sessions[n] /\ s.direction = "Receive"
               /\ SamePath(s, Ingested(s, f)) /\ Ingested(s, f).message = s.message
               /\ SamePath(s, NextWindow(Ingested(s, f)))
               /\ NextWindow(Ingested(s, f)).message = s.message
    <3> DEFINE t == Ingested(s, f)
    <3>1. s \in sessions[n] /\ Fields(s) /\ s.direction = "Receive"
      BY <1>0 DEF ReceivePath, TableOK
    <3>2. Fields(t) /\ SamePath(s, t) /\ t.message = s.message
      BY <3>1 DEF Ingested, Fields, SamePath, AllFields, PathFields
    <3> HIDE DEF t
    <3>3. SamePath(s, NextWindow(t)) /\ NextWindow(t).message = s.message
      BY <3>2 DEF NextWindow, Fields, SamePath, AllFields, PathFields
    <3> QED  BY <3>1, <3>2, <3>3 DEF t
  <2>3. ASSUME NEW s \in ReceivePath(sessions[n], f.source, f.destination), Close(n, s)
        PROVE  PlaceInv'
    BY <1>0, <2>1, <2>2, <2>3, EndPlaced
  <2>4. ASSUME NEW s \in ReceivePath(sessions[n], f.source, f.destination),
               \/ Change(n, s, Ingested(s, f))
               \/ Change(n, s, NextWindow(Ingested(s, f)))
        PROVE  PlaceInv'
    BY <1>3, <2>1, <2>2, <2>4
  <2> QED  BY <1>1, <1>9, <2>1, <2>3, <2>4 DEF HandleDt
<1> QED  BY <1>4, <1>5, <1>6, <1>7, <1>8, <1>9 DEF Process

\* IsoNet::send puts a message into a session, into the queue, or nowhere.
LEMMA SendPlaces ==
  ASSUME PathInv, PlaceInv, NEW m \in Message, Send(m)
  PROVE  PlaceInv'
<1> DEFINE n == SourceOf[m]
           t == OpenedSession(m)
           q == pending[n]
<1>0. /\ n \in Node /\ DOMAIN sessions = Node /\ DOMAIN pending = Node
      /\ DOMAIN status = Message /\ NoMessage \notin Message
      /\ Placed(n, sessions[n], q, status) /\ status[m] = "unsent"
  BY TrafficAssumption DEF PathInv, PlaceInv, Send
<1>1. ~Carried(sessions[n], m) /\ m \notin Range(q)
  BY <1>0 DEF Placed
<1>2. /\ t.message = m /\ Belongs(n, t)
  BY OpenedPath DEF OpenedSession, NewSession, Belongs
<1> HIDE DEF t
<1>3. CASE /\ sessions' = [sessions EXCEPT ![n] = @ \cup {t}]
           /\ status' = [status EXCEPT ![m] = "open"] /\ UNCHANGED pending
  <2>1. /\ sessions'[n] = sessions[n] \cup {t} /\ pending' = pending
        /\ status'[m] = "open" /\ \A k \in Message \ {m} : status'[k] = status[k]
        /\ DOMAIN status' = Message /\ \A k \in Node \ {n} : sessions'[k] = sessions[k]
    BY <1>0, <1>3
  <2>2. \A k \in Message : Carried(sessions'[n], k) <=> Carried(sessions[n], k) \/ k = m
    BY <1>2, <2>1 DEF Carried
  <2>3. \A s \in sessions'[n] : Belongs(n, s)
    BY <1>0, <1>2, <2>1 DEF Placed
  <2>4. Placed(n, sessions'[n], pending'[n], status')
    BY <1>0, <1>1, <2>1, <2>2, <2>3 DEF Placed
  <2>5. /\ DOMAIN pending' = Node /\ DOMAIN status' = Message
        /\ \A k \in Node \ {n} : sessions'[k] = sessions[k] /\ pending'[k] = pending[k]
        /\ \A k \in Message : SourceOf[k] # n => status'[k] = status[k]
    <3>1. \A k \in Message : SourceOf[k] # n => k \in Message \ {m}
      OBVIOUS
    <3> HIDE DEF n
    <3> QED  BY <1>0, <2>1, <3>1
  <2> HIDE DEF n
  <2> QED  BY <1>0, <2>1, <2>4, <2>5, OnePlaced
<1>4. CASE /\ pending' = [pending EXCEPT ![n] = Append(@, m)]
           /\ status' = [status EXCEPT ![m] = "queued"] /\ UNCHANGED sessions
  <2> DEFINE r == Append(q, m)
  <2>1. /\ pending'[n] = r /\ sessions' = sessions /\ DOMAIN pending' = Node
        /\ status'[m] = "queued" /\ \A k \in Message \ {m} : status'[k] = status[k]
        /\ DOMAIN status' = Message /\ \A k \in Node \ {n} : pending'[k] = pending[k]
    BY <1>0, <1>4
  <2>2. q \in Seq(Message) /\ Len(q) \in Nat /\ DOMAIN q = 1 .. Len(q)
    BY SMT, <1>0 DEF Placed
  <2> HIDE DEF q
  <2>3. /\ r \in Seq(Message) /\ DOMAIN r = 1 .. (Len(q) + 1) /\ r[Len(q) + 1] = m
        /\ \A i \in 1 .. Len(q) : r[i] = q[i]
    BY SMT, <2>2
  <2>4. \A i \in DOMAIN r : i \in DOMAIN q \/ i = Len(q) + 1
    BY SMT, <2>2, <2>3
  <2> HIDE DEF r
  <2>5. Range(r) = Range(q) \cup {m}
    <3>1. \A x \in Range(r) : x \in Range(q) \/ x = m
      BY <2>2, <2>3, <2>4 DEF Range
    <3>2. \A x \in Range(q) : x \in Range(r)
      <4> TAKE x \in Range(q)
      <4>1. PICK i \in DOMAIN q : x = q[i]
        BY DEF Range
      <4>2. i \in DOMAIN r /\ r[i] = x
        BY SMT, <2>2, <2>3, <4>1
      <4> QED  BY <4>2 DEF Range
    <3>3. m \in Range(r)
      <4>1. Len(q) + 1 \in DOMAIN r
        BY SMT, <2>2, <2>3
      <4> QED  BY <2>3, <4>1 DEF Range
    <3> QED  BY <3>1, <3>2, <3>3
  <2>6. ASSUME NEW i \in DOMAIN r, NEW j \in DOMAIN r, r[i] = r[j] PROVE i = j
    <3>1. \A k \in DOMAIN q : r[k] = q[k] /\ q[k] # m
      BY <1>1, <2>2, <2>3 DEF Range
    <3>2. \A k, l \in DOMAIN q : q[k] = q[l] => k = l
      BY <1>0 DEF Placed
    <3> QED  BY <2>3, <2>4, <2>6, <3>1, <3>2
  <2>7. Placed(n, sessions[n], r, status')
    BY SMT, <1>0, <1>1, <2>1, <2>3, <2>5, <2>6 DEF Placed
  <2>8. /\ DOMAIN pending' = Node /\ DOMAIN status' = Message
        /\ \A k \in Node \ {n} : sessions'[k] = sessions[k] /\ pending'[k] = pending[k]
        /\ \A k \in Message : SourceOf[k] # n => status'[k] = status[k]
    <3>1. \A k \in Message : SourceOf[k] # n => k \in Message \ {m}
      OBVIOUS
    <3> HIDE DEF n
    <3> QED  BY <1>0, <2>1, <3>1
  <2> HIDE DEF n
  <2> QED  BY <1>0, <2>1, <2>7, <2>8, OnePlaced
<1>5. CASE status' = [status EXCEPT ![m] = "refused"] /\ UNCHANGED <<sessions, pending>>
  <2>1. /\ status'[m] = "refused" /\ \A k \in Message \ {m} : status'[k] = status[k]
        /\ DOMAIN status' = Message /\ sessions' = sessions /\ pending' = pending
    BY <1>0, <1>5
  <2>2. Placed(n, sessions[n], q, status')
    BY <1>0, <1>1, <2>1 DEF Placed
  <2> HIDE DEF n
  <2> QED  BY <1>0, <2>1, <2>2, OnePlaced DEF n
<1> QED  BY <1>3, <1>4, <1>5 DEF Send, t

\* A node that gives its address up drops all it had accepted.
LEMMA DiscontinuePlaces ==
  ASSUME PathInv, PlaceInv, NEW n \in Node, Discontinue(n)
  PROVE  PlaceInv'
<1>0. /\ DOMAIN sessions = Node /\ DOMAIN pending = Node /\ DOMAIN status = Message
      /\ Placed(n, sessions[n], pending[n], status) /\ NoMessage \notin Message
  BY TrafficAssumption DEF PathInv, PlaceInv
<1>1. /\ sessions'[n] = {s \in sessions[n] : s.source # n /\ s.destination # n}
      /\ pending'[n] = << >> /\ DOMAIN pending' = Node /\ DOMAIN status' = Message
      /\ \A k \in Node \ {n} : sessions'[k] = sessions[k] /\ pending'[k] = pending[k]
      /\ \A m \in Message :
           status'[m] = IF SourceOf[m] = n /\ status[m] \in {"open", "queued"}
                        THEN "dropped" ELSE status[m]
  BY <1>0 DEF Discontinue
<1>2. \A s \in sessions'[n] : Belongs(n, s) /\ s.message = NoMessage
  BY <1>0, <1>1 DEF Placed, Belongs
<1>3. \A m \in Message : ~Carried(sessions'[n], m)
  BY <1>0, <1>2 DEF Carried
<1>4. << >> \in Seq(Message) /\ DOMAIN << >> = {} /\ Range(<< >>) = {}
  BY SMT DEF Range
<1>5. Placed(n, sessions'[n], pending'[n], status')
  BY <1>1, <1>2, <1>3, <1>4 DEF Placed
<1>6. \A m \in Message : SourceOf[m] # n => status'[m] = status[m]
  BY <1>1
<1> QED  BY <1>1, <1>5, <1>6, OnePlaced

\* For any nodes, traffic, limits and losses: a message its sender has accepted
\* is in exactly one place, a session or one slot of the queue, as long as its
\* application has not been told the end of it.
THEOREM AcceptedMessagesHaveOnePlace == Spec => []AcceptedIsSomewhere
<1>1. Init => PathInv /\ PlaceInv
  <2> SUFFICES ASSUME Init PROVE PathInv /\ PlaceInv
    OBVIOUS
  <2>1. PathInv
    BY DEF Init, PathInv, TableOK
  <2>2. << >> \in Seq(Message) /\ DOMAIN << >> = {} /\ Range(<< >>) = {}
    BY SMT DEF Range
  <2>3. \A m : ~Carried({}, m)
    BY DEF Carried
  <2> QED  BY <2>1, <2>2, <2>3 DEF Init, PlaceInv, Placed
<1>2. PathInv /\ PlaceInv /\ [Next]_vars => PathInv' /\ PlaceInv'
  <2> SUFFICES ASSUME PathInv, PlaceInv, [Next]_vars PROVE PathInv' /\ PlaceInv'
    OBVIOUS
  <2>1. PathInv'
    BY PathsAreKept
  <2>2. ASSUME UNCHANGED <<sessions, pending, status>> PROVE PlaceInv'
    <3>1. sessions' = sessions /\ pending' = pending /\ status' = status
      BY <2>2
    <3> QED  BY <3>1 DEF PlaceInv
  <2>3. ASSUME NEW n \in Node, Update(n) PROVE PlaceInv'
    <3> DEFINE ready == StartReady(DrainedTable(sessions[n]), pending[n])
               new == Outcomes(sessions[n], ready.started)
    <3>0. /\ DOMAIN sessions = Node /\ DOMAIN pending = Node /\ DOMAIN status = Message
          /\ TableOK(sessions[n]) /\ Placed(n, sessions[n], pending[n], status)
      BY DEF PathInv, PlaceInv
    <3>1. /\ sessions' = [sessions EXCEPT ![n] = ready.table]
          /\ pending' = [pending EXCEPT ![n] = ready.left]
          /\ status' = new
      BY <2>3 DEF Update
    <3>2. /\ Placed(n, ready.table, ready.left, new) /\ DOMAIN new = Message
          /\ \A m \in Message : SourceOf[m] # n => new[m] = status[m]
      BY <3>0, UpdatePlaced
    <3> HIDE DEF ready, new
    <3>3. /\ sessions'[n] = ready.table /\ pending'[n] = ready.left /\ DOMAIN pending' = Node
          /\ \A k \in Node \ {n} : sessions'[k] = sessions[k] /\ pending'[k] = pending[k]
      BY <3>0, <3>1
    <3> QED  BY SMT, <3>1, <3>2, <3>3, OnePlaced
  <2>4. ASSUME NEW n \in Node, Lose(n) \/ ForeignCts(n) PROVE PlaceInv'
    BY <2>2, <2>4 DEF Lose, ForeignCts
  <2>5. ASSUME UNCHANGED vars PROVE PlaceInv'
    BY <2>2, <2>5 DEF vars
  <2>6. PlaceInv'
    BY <2>3, <2>4, <2>5, SendPlaces, ProcessPlaces, DiscontinuePlaces DEF Next
  <2> QED  BY <2>1, <2>6
<1>3. PlaceInv => AcceptedIsSomewhere
  <2> SUFFICES ASSUME PlaceInv, NEW m \in Message
               PROVE  LET n == SourceOf[m] IN
                      /\ status[m] = "open" <=> \E s \in sessions[n] : s.message = m
                      /\ Cardinality({i \in DOMAIN pending[n] : pending[n][i] = m})
                           = IF status[m] = "queued" THEN 1 ELSE 0
    BY DEF AcceptedIsSomewhere
  <2> DEFINE n == SourceOf[m]
             q == pending[n]
             at == {i \in DOMAIN q : q[i] = m}
  <2>1. n \in Node /\ Placed(n, sessions[n], q, status)
    BY TrafficAssumption DEF PlaceInv
  <2>2. status[m] = "open" <=> \E s \in sessions[n] : s.message = m
    BY <2>1 DEF Placed, Carried
  <2>3. status[m] = "queued" <=> \E i \in DOMAIN q : q[i] = m
    BY <2>1 DEF Placed, Range
  <2>4. CASE status[m] = "queued"
    <3>1. PICK i \in DOMAIN q : q[i] = m
      BY <2>3, <2>4
    <3>2. at = {i}
      BY <2>1, <3>1 DEF Placed
    <3> HIDE DEF at
    <3>3. Cardinality(at) = 1
      BY <3>2, FS_Singleton
    <3> QED  BY <2>2, <2>4, <3>3 DEF at
  <2>5. CASE status[m] # "queued"
    <3>1. at = {}
      BY <2>3, <2>5
    <3> HIDE DEF at
    <3>2. Cardinality(at) = 0
      BY <3>1, FS_EmptySet
    <3> QED  BY <2>2, <2>5, <3>2 DEF at
  <2> QED  BY <2>4, <2>5
<1> QED  BY <1>1, <1>2, <1>3, PTL DEF Spec
=============================================================================
