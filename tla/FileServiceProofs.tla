-------------------------- MODULE FileServiceProofs ---------------------------
(***************************************************************************)
(* Proofs that the file server keeps its promises on the network of        *)
(* FileService: SingleWriter, HandlesAccounted and VolumeIsWhole, for any  *)
(* number of clients, any scenario, all timeouts and table sizes.          *)
(*                                                                         *)
(* The invariant is that the server is Sound, which FileServerProofs shows *)
(* every one of its entry points to keep, provided that what reaches it    *)
(* names files by paths.  That has to be followed from the application     *)
(* through the client's pending requests (Resend sends them again) and the *)
(* queues of the network.                                                  *)
(***************************************************************************)
EXTENDS FileService, FileServerProofs

\* Most leaves are first-order; those with arithmetic or sequences cite SMT.
USE Zenon

\* A request that names its files by paths.
Proper(r) == {"path", "to"} \subseteq DOMAIN r /\ r.path \in Path /\ r.to \in Path

\* A queue of packets with proper requests.
QueueOK(q) ==
  \E S : q \in Seq(S) /\ \A p \in S : "message" \in DOMAIN p /\ Proper(p.message)

\* A client that waits for answers to proper requests.
ClientOK(k) ==
  /\ {"pending", "files"} \subseteq DOMAIN k
  /\ IsFiniteSet(DOMAIN k.files)
  /\ \A t \in DOMAIN k.pending :
       "request" \in DOMAIN k.pending[t] /\ Proper(k.pending[t].request)

Inv ==
  /\ scene \in DOMAIN Scenario
  /\ Sound(fs)
  /\ DOMAIN cl = Client /\ DOMAIN up = Client
  /\ \A c \in Client : ClientOK(cl[c]) /\ QueueOK(up[c])

-----------------------------------------------------------------------------
(* Queues.                                                                 *)

\* Sending appends.
LEMMA QueuesJoin ==
  ASSUME NEW q, NEW r, QueueOK(q), QueueOK(r)
  PROVE  QueueOK(q \o r)
<1>1. PICK S : q \in Seq(S) /\ \A p \in S : "message" \in DOMAIN p /\ Proper(p.message)
  BY DEF QueueOK
<1>2. PICK T : r \in Seq(T) /\ \A p \in T : "message" \in DOMAIN p /\ Proper(p.message)
  BY DEF QueueOK
<1>3. q \in Seq(S \cup T) /\ r \in Seq(S \cup T)
  BY SMT, <1>1, <1>2
<1>4. q \o r \in Seq(S \cup T)
  BY SMT, <1>3
<1> QED  BY SMT, <1>1, <1>2, <1>4 DEF QueueOK

\* A packet that arrives or is lost leaves the others.
LEMMA QueueLoses ==
  ASSUME NEW q, QueueOK(q), NEW i \in DOMAIN q
  PROVE  QueueOK(Dequeued(q, i)) /\ Proper(q[i].message)
<1>1. PICK S : q \in Seq(S) /\ \A p \in S : "message" \in DOMAIN p /\ Proper(p.message)
  BY DEF QueueOK
<1>2. SubSeq(q, 1, i - 1) \in Seq(S) /\ SubSeq(q, i + 1, Len(q)) \in Seq(S)
  <2>1. i \in 1 .. Len(q) /\ Len(q) \in Nat
    BY SMT, <1>1
  <2> QED  BY SMT, <1>1, <2>1
<1>3. Dequeued(q, i) \in Seq(S)
  BY SMT, <1>2 DEF Dequeued
<1>4. q[i] \in S
  BY SMT, <1>1
<1> QED  BY <1>1, <1>3, <1>4 DEF QueueOK

\* Waiting changes nothing in a message.
LEMMA QueueWaits ==
  ASSUME NEW q, QueueOK(q) PROVE QueueOK(Late(q))
<1>1. PICK S : q \in Seq(S) /\ \A p \in S : "message" \in DOMAIN p /\ Proper(p.message)
  BY DEF QueueOK
<1> DEFINE T == {[p EXCEPT !.late = TRUE] : p \in S}
<1>2. \A p \in T : "message" \in DOMAIN p /\ Proper(p.message)
  BY <1>1
<1>3. Late(q) \in Seq(T)
  <2>1. DOMAIN q = 1 .. Len(q) /\ Len(q) \in Nat
    BY SMT, <1>1
  <2>2. ASSUME NEW i \in 1 .. Len(q) PROVE [q[i] EXCEPT !.late = TRUE] \in T
    <3>1. q[i] \in S
      BY SMT, <1>1
    <3> QED  BY <3>1
  <2>3. Late(q) = [i \in 1 .. Len(q) |-> [q[i] EXCEPT !.late = TRUE]]
    BY <2>1 DEF Late
  <2> HIDE DEF T
  <2> QED  BY SMT, <2>1, <2>2, <2>3
<1> HIDE DEF T
<1> QED  BY <1>2, <1>3 DEF QueueOK

\* What a client ships is proper if its requests are.
LEMMA QueueShips ==
  ASSUME NEW n \in Nat, NEW out, DOMAIN out = 1 .. n, \A i \in 1 .. n : Proper(out[i])
  PROVE  QueueOK(Packets(out))
<1> DEFINE T == {Packet(out[i]) : i \in 1 .. n}
<1>1. \A p \in T : "message" \in DOMAIN p /\ Proper(p.message)
  BY SMT DEF Packet
<1>2. Packets(out) = [i \in 1 .. n |-> Packet(out[i])]
  BY DEF Packets
<1>3. \A i \in 1 .. n : Packet(out[i]) \in T
  OBVIOUS
<1> HIDE DEF T
<1>4. Packets(out) \in Seq(T)
  BY SMT, <1>2, <1>3
<1> QED  BY <1>1, <1>4 DEF QueueOK

-----------------------------------------------------------------------------
(* Clients.                                                                *)

\* The maintenance message names no file.
LEMMA KeepaliveIsProper == Proper(CCM)
<1>1. Root \in Path
  BY SMT DEF Root, Path
<1> QED  BY <1>1 DEF Proper, CCM

\* A client whose pending requests are among those of another.
LEMMA FewerPending ==
  ASSUME NEW k, NEW m, ClientOK(k),
         {"pending", "files"} \subseteq DOMAIN m, IsFiniteSet(DOMAIN m.files),
         DOMAIN m.pending \subseteq DOMAIN k.pending,
         \A t \in DOMAIN m.pending : /\ "request" \in DOMAIN m.pending[t]
                                     /\ m.pending[t].request = k.pending[t].request
  PROVE  ClientOK(m)
BY DEF ClientOK

\* A new client waits for nothing.
LEMMA NewClientIsOK == ClientOK(NewClient)
<1>1. DOMAIN << >> = {}
  BY SMT
<1>2. /\ {"pending", "files"} \subseteq DOMAIN NewClient
      /\ NewClient.pending = << >> /\ NewClient.files = << >>
  BY DEF NewClient
<1> QED  BY <1>1, <1>2, FS_EmptySet DEF ClientOK

\* A new request is proper with its TAN and is tracked as it is sent.
LEMMA RequestIsTracked ==
  ASSUME NEW k, ClientOK(k), NEW r, Proper(r)
  PROVE  /\ ClientOK(Request(k, r).client)
         /\ QueueOK(Packets(Request(k, r).out))
<1> DEFINE q == [r EXCEPT !.tan = k.tan]
           n == [request |-> q, age |-> 0]
           m == Request(k, r).client
           out == Request(k, r).out
<1>1. Proper(q)
  BY DEF Proper
<1>2. /\ m = [[k EXCEPT !.tan = (@ + 1) % TanCount] EXCEPT !.pending = With(@, q.tan, n)]
      /\ out = <<q>>
  BY DEF Request, Shipped, allocate_tan
<1>3. "request" \in DOMAIN n /\ n.request = q
  OBVIOUS
<1> HIDE DEF q, n, m, out
<1>4. /\ {"pending", "files"} \subseteq DOMAIN m /\ m.files = k.files
      /\ m.pending = With(k.pending, q.tan, n)
  BY <1>2 DEF ClientOK
<1>5. ClientOK(m)
  <2>1. ASSUME NEW t \in DOMAIN m.pending
        PROVE  "request" \in DOMAIN m.pending[t] /\ Proper(m.pending[t].request)
    <3>1. t = q.tan \/ t \in DOMAIN k.pending
      BY <1>4 DEF With
    <3>2. m.pending[t] = IF t = q.tan THEN n ELSE k.pending[t]
      BY <1>4, <3>1 DEF With
    <3> QED  BY <1>1, <1>3, <3>1, <3>2 DEF ClientOK
  <2> QED  BY <1>4, <2>1 DEF ClientOK
<1>6. QueueOK(Packets(out))
  <2>1. DOMAIN out = 1 .. 1 /\ \A i \in 1 .. 1 : Proper(out[i])
    BY SMT, <1>1, <1>2
  <2> QED  BY <2>1, QueueShips
<1> QED  BY <1>5, <1>6 DEF m, out

\* connect_to asks for the server's properties.
LEMMA ConnectIsProper ==
  ASSUME NEW k, ClientOK(k)
  PROVE  /\ ClientOK(try_connect_to_server(k).client)
         /\ QueueOK(Packets(try_connect_to_server(k).out))
<1> DEFINE m == [k EXCEPT !.state = "WaitingForStatus", !.ccm = 0, !.quiet = 0]
           r == [CCM EXCEPT !.function = "GetProperties"]
<1>1. ClientOK(m)
  BY DEF ClientOK
<1>2. Proper(r)
  <2> HIDE DEF r
  <2>1. Proper([CCM EXCEPT !.function = "GetProperties"])
    BY KeepaliveIsProper DEF Proper
  <2> QED  BY <2>1 DEF r
<1> HIDE DEF m, r
<1> QED  BY <1>1, <1>2, RequestIsTracked DEF try_connect_to_server, m, r

\* disconnect() closes the handles in order and forgets everything.
LEMMA DisconnectIsProper ==
  ASSUME NEW k, ClientOK(k)
  PROVE  ClientOK(disconnect(k).client) /\ QueueOK(Packets(disconnect(k).out))
<1> DEFINE S == DOMAIN k.files
           handles == InOrder(S)
           close(i) == [CCM EXCEPT !.function = "Close", !.handle = handles[i],
                                   !.tan = (k.tan + i - 1) % TanCount]
<1>1. Cardinality(S) \in Nat
  BY FS_CardinalityType DEF ClientOK
<1>2. PICK n \in Nat : DOMAIN handles = 1 .. n
  BY <1>1 DEF InOrder
<1> HIDE DEF handles
<1>3. \A i \in 1 .. n : Proper(close(i))
  BY KeepaliveIsProper DEF Proper
<1>4. /\ disconnect(k).out = [i \in 1 .. n |-> close(i)]
      /\ disconnect(k).client =
           [k EXCEPT !.state = "Disconnected", !.pending = << >>, !.files = << >>,
                     !.cwd = Root, !.tan = (@ + Len(handles)) % TanCount]
  BY <1>2 DEF disconnect, Shipped, handles
<1> HIDE DEF close
<1>5. QueueOK(Packets(disconnect(k).out))
  BY <1>3, <1>4, QueueShips
<1>6. ClientOK(disconnect(k).client)
  <2>1. DOMAIN << >> = {}
    BY SMT
  <2>2. /\ {"pending", "files"} \subseteq DOMAIN disconnect(k).client
        /\ disconnect(k).client.pending = << >> /\ disconnect(k).client.files = << >>
    BY <1>4 DEF ClientOK
  <2> QED  BY <2>1, <2>2, FS_EmptySet DEF ClientOK
<1> QED  BY <1>5, <1>6

\* A client with the same pending requests.
LEMMA SamePending ==
  ASSUME NEW k, NEW m, ClientOK(k), DOMAIN m = DOMAIN k, m.pending = k.pending,
         IsFiniteSet(DOMAIN m.files)
  PROVE  ClientOK(m)
BY DEF ClientOK

\* What an answer changes in the mirror: the set of open files stays finite.
LEMMA AnswerApplies ==
  ASSUME NEW k, ClientOK(k), NEW r, NEW value
  PROVE  ClientOK(ApplyAnswer(k, r, value))
<1>0. {"pending", "files"} \subseteq DOMAIN k /\ IsFiniteSet(DOMAIN k.files)
  BY DEF ClientOK
<1>1. ClientOK(handle_properties_response(k))
  BY <1>0, SamePending DEF handle_properties_response
<1>2. ASSUME NEW h PROVE ClientOK(handle_open_response(k, r, h))
  <2> DEFINE e == [path |-> r.path, mode |-> r.mode, flags |-> r.flags, position |-> 0]
             m == handle_open_response(k, r, h)
  <2>1. m = [k EXCEPT !.files = With(@, h, e)]
    BY DEF handle_open_response
  <2> HIDE DEF m, e
  <2>2. DOMAIN m = DOMAIN k /\ m.pending = k.pending /\ m.files = With(k.files, h, e)
    BY <1>0, <2>1
  <2>3. DOMAIN m.files = DOMAIN k.files \cup {h}
    BY <2>2 DEF With
  <2>4. IsFiniteSet(DOMAIN m.files)
    BY <1>0, <2>3, FS_AddElement
  <2> QED  BY <2>2, <2>4, SamePending DEF m
<1>3. ClientOK(handle_close_response(k, r))
  <2> DEFINE m == handle_close_response(k, r)
  <2>1. DOMAIN m = DOMAIN k /\ m.pending = k.pending /\ m.files = Without(k.files, {r.handle})
    BY <1>0 DEF handle_close_response
  <2> HIDE DEF m
  <2>2. DOMAIN m.files \in SUBSET DOMAIN k.files
    BY <2>1 DEF Without
  <2>3. IsFiniteSet(DOMAIN m.files)
    BY <1>0, <2>2, FS_Subset
  <2> QED  BY <2>1, <2>3, SamePending DEF m
<1>4. ASSUME NEW h, NEW n
      PROVE  ClientOK(Advance(k, h, n)) /\ ClientOK(handle_seek_response(k, h, n))
  <2>1. ASSUME NEW p PROVE ClientOK([k EXCEPT !.files[h].position = p])
    <3> DEFINE m == [k EXCEPT !.files[h].position = p]
    <3>1. DOMAIN m = DOMAIN k /\ m.pending = k.pending /\ DOMAIN m.files = DOMAIN k.files
      BY <1>0
    <3> HIDE DEF m
    <3> QED  BY <1>0, <3>1, SamePending DEF m
  <2> QED  BY <2>1 DEF Advance, handle_seek_response
<1>5. ASSUME NEW path PROVE ClientOK([k EXCEPT !.cwd = path])
  BY <1>0, SamePending
<1>6. ClientOK(Forget(k))
  <2>1. DOMAIN << >> = {}
    BY SMT
  <2>2. DOMAIN Forget(k) = DOMAIN k /\ Forget(k).pending = k.pending
        /\ Forget(k).files = << >>
    BY <1>0 DEF Forget
  <2> QED  BY <2>1, <2>2, FS_EmptySet, SamePending
<1>7. ApplyAnswer(k, r, value) \in
        {handle_properties_response(k), handle_open_response(k, r, value[1]),
         handle_close_response(k, r), Advance(k, r.handle, value[1]),
         handle_seek_response(k, r.handle, value[1]),
         handle_get_directory_response(k, value),
         handle_change_directory_response(k, r), Forget(k), k}
  BY DEF ApplyAnswer, parse_simple_operation_response
<1>8. /\ ClientOK(handle_get_directory_response(k, value))
      /\ ClientOK(handle_change_directory_response(k, r))
  BY <1>5 DEF handle_get_directory_response, handle_change_directory_response
<1> QED  BY <1>1, <1>2, <1>3, <1>4, <1>6, <1>7, <1>8

\* Whatever a client receives, it goes on waiting for its own requests only.
LEMMA AnswerKeeps ==
  ASSUME NEW k, ClientOK(k), NEW m
  PROVE  ClientOK(handle_server_response(k, m))
<1>0. {"pending", "files"} \subseteq DOMAIN k /\ IsFiniteSet(DOMAIN k.files)
  BY DEF ClientOK
<1>1. ASSUME NEW S PROVE ClientOK([k EXCEPT !.pending = Without(@, S), !.quiet = 0])
  <2> DEFINE x == [k EXCEPT !.pending = Without(@, S), !.quiet = 0]
  <2>1. DOMAIN x = DOMAIN k /\ x.pending = Without(k.pending, S) /\ x.files = k.files
    BY <1>0
  <2> HIDE DEF x
  <2>2. /\ DOMAIN x.pending \subseteq DOMAIN k.pending
        /\ \A t \in DOMAIN x.pending : x.pending[t] = k.pending[t]
    BY <2>1 DEF Without
  <2>3. \A t \in DOMAIN x.pending : /\ "request" \in DOMAIN x.pending[t]
                                    /\ x.pending[t].request = k.pending[t].request
    BY <2>2 DEF ClientOK
  <2>4. ClientOK(x)
    BY <1>0, <2>1, <2>2, <2>3, FewerPending
  <2> QED  BY <2>4 DEF x
<1>2. ASSUME NEW x, ClientOK(x) PROVE ClientOK(Forget(x))
  <2>1. DOMAIN << >> = {}
    BY SMT
  <2>2. /\ DOMAIN Forget(x) = DOMAIN x /\ Forget(x).pending = x.pending
        /\ Forget(x).files = << >>
    BY <1>2 DEF Forget, ClientOK
  <2> QED  BY <1>2, <2>1, <2>2, FS_EmptySet, SamePending
<1>3. ASSUME NEW S, NEW state
      PROVE  ClientOK(handle_volume_status_response(k, S, state))
  <2> DEFINE x == [k EXCEPT !.pending = Without(@, S), !.quiet = 0]
  <2>1. ClientOK(x)
    BY <1>1
  <2>2. handle_volume_status_response(k, S, state) = IF state = "Removed" THEN Forget(x) ELSE x
    BY DEF handle_volume_status_response
  <2> HIDE DEF x
  <2> QED  BY <1>2, <2>1, <2>2
<1>4. ClientOK([k EXCEPT !.quiet = 0, !.pending = Rearmed(@)])
  <2> DEFINE x == [k EXCEPT !.quiet = 0, !.pending = Rearmed(@)]
  <2>1. DOMAIN x = DOMAIN k /\ x.pending = Rearmed(k.pending) /\ x.files = k.files
    BY <1>0
  <2> HIDE DEF x
  <2>2. /\ DOMAIN x.pending = DOMAIN k.pending
        /\ \A t \in DOMAIN x.pending : x.pending[t] = [k.pending[t] EXCEPT !.age = 0]
    BY <2>1 DEF Rearmed
  <2>3. ASSUME NEW t \in DOMAIN x.pending
        PROVE  /\ "request" \in DOMAIN x.pending[t]
               /\ x.pending[t].request = k.pending[t].request
    <3>1. "request" \in DOMAIN k.pending[t]
      BY <2>2 DEF ClientOK
    <3> QED  BY <2>2, <3>1
  <2>4. ClientOK(x)
    BY <1>0, <2>1, <2>2, <2>3, FewerPending
  <2> QED  BY <2>4 DEF x
<1>5. ClientOK([k EXCEPT !.quiet = 0, !.pending = @])
  <2> DEFINE x == [k EXCEPT !.quiet = 0, !.pending = @]
  <2>1. DOMAIN x = DOMAIN k /\ x.pending = k.pending /\ x.files = k.files
    BY <1>0
  <2> HIDE DEF x
  <2>2. ClientOK(x)
    BY <1>0, <2>1, SamePending
  <2> QED  BY <2>2 DEF x
<1>6. ClientOK(handle_status_broadcast(k, m))
  BY <1>3, <1>4, <1>5 DEF handle_status_broadcast
<1> DEFINE r == k.pending[m.tan].request
           heard == [k EXCEPT !.pending = Without(@, {m.tan}), !.quiet = 0]
<1>7. ClientOK(heard) /\ ClientOK(ApplyAnswer(heard, r, m.value))
  <2>1. ClientOK(heard)
    BY <1>1
  <2> HIDE DEF heard, r
  <2> QED  BY <2>1, AnswerApplies
<1>8. handle_server_response(k, m) \in
        {handle_status_broadcast(k, m), k, heard, ApplyAnswer(heard, r, m.value),
         handle_volume_status_response(k, {m.tan}, m.value[1])}
  BY DEF handle_server_response
<1> HIDE DEF heard, r
<1> QED  BY <1>3, <1>6, <1>7, <1>8

\* A tick of a client drops requests and may disconnect.
LEMMA ClientTicks ==
  ASSUME NEW k, ClientOK(k)
  PROVE  ClientOK(client_update(k).client)
<1>1. ASSUME NEW x, ClientOK(x), NEW ccm, NEW quiet
      PROVE  ClientOK([x EXCEPT !.ccm = ccm]) /\ ClientOK([x EXCEPT !.quiet = quiet])
  BY <1>1 DEF ClientOK
<1>2. ClientOK(Keepalive(k).client)
  BY <1>1 DEF Keepalive, Shipped
<1>3. ASSUME NEW x, ClientOK(x) PROVE ClientOK(Supervise(x))
  BY <1>1, <1>3, DisconnectIsProper DEF Supervise
<1>4. ASSUME NEW x, ClientOK(x) PROVE ClientOK(DropExpired(x))
  <2> DEFINE aged == [t \in DOMAIN x.pending |-> [x.pending[t] EXCEPT !.age = @ + 1]]
             expired == {t \in DOMAIN aged : aged[t].age > RequestTimeout}
             y == DropExpired(x)
  <2>1. y = [x EXCEPT !.pending = Without(aged, expired)]
    BY DEF DropExpired
  <2>2. DOMAIN aged = DOMAIN x.pending
    OBVIOUS
  <2>3. ASSUME NEW t \in DOMAIN x.pending
        PROVE  /\ "request" \in DOMAIN aged[t]
               /\ aged[t].request = x.pending[t].request
    BY <1>4 DEF ClientOK
  <2> HIDE DEF y, aged, expired
  <2>4. /\ DOMAIN y = DOMAIN x /\ y.files = x.files
        /\ y.pending = Without(aged, expired)
    BY <1>4, <2>1 DEF ClientOK
  <2>5. /\ DOMAIN y.pending \subseteq DOMAIN x.pending
        /\ \A t \in DOMAIN y.pending : y.pending[t] = aged[t]
    BY <2>2, <2>4 DEF Without
  <2>6. \A t \in DOMAIN y.pending : /\ "request" \in DOMAIN y.pending[t]
                                    /\ y.pending[t].request = x.pending[t].request
    BY <2>3, <2>5
  <2>7. {"pending", "files"} \subseteq DOMAIN y /\ IsFiniteSet(DOMAIN y.files)
    BY <1>4, <2>4 DEF ClientOK
  <2> QED  BY <1>4, <2>5, <2>6, <2>7, FewerPending DEF y
<1> QED  BY <1>2, <1>3, <1>4 DEF client_update, Shipped

-----------------------------------------------------------------------------
(* The service.                                                            *)

\* A keepalive touches nothing of a connection but its clock.
LEMMA HeardConnection ==
  ASSUME NEW s, Sound(s), NEW c
  PROVE  LET n == handle_client_message(s, c, CCM).fs.conn[c]
         IN /\ DOMAIN n = ConnectionFields
            /\ n.handles = IF c \in DOMAIN s.conn THEN s.conn[c].handles ELSE {}
            /\ n.cwd = IF c \in DOMAIN s.conn THEN s.conn[c].cwd ELSE Root
<1> DEFINE k == Connected(s, c)
           b == IF c \in DOMAIN s.conn THEN s.conn[c] ELSE NewConnection(s)
           t == handle_ccm(k, c)
<1>1. DOMAIN s = ServerFields /\ "conn" \in DOMAIN s
  BY DEF Sound, Shaped, ServerFields
<1>2. "conn" \in DOMAIN k /\ c \in DOMAIN k.conn /\ k.conn[c] = b
  BY <1>1 DEF Connected, With
<1>3. DOMAIN b = ConnectionFields
  BY DEF NewConnection, ConnectionFields, Sound, Shaped
<1>4. c \notin DOMAIN s.conn => b.handles = {} /\ b.cwd = Root
  BY DEF NewConnection
<1>5. c \in DOMAIN s.conn => b = s.conn[c]
  OBVIOUS
<1>6. handle_client_message(s, c, CCM).fs = t
  BY DEF handle_client_message, CCM, Sent
<1> HIDE DEF k, b
<1>7. t.conn[c] = [b EXCEPT !.seen = TRUE, !.silent = 0]
  BY <1>2 DEF handle_ccm
<1> HIDE DEF t
<1>8. DOMAIN t.conn[c] = ConnectionFields /\ t.conn[c].handles = b.handles /\ t.conn[c].cwd = b.cwd
  BY <1>3, <1>7 DEF ConnectionFields
<1> QED  BY <1>4, <1>5, <1>6, <1>8

\* The keepalives of a tick.
LEMMA HeardIsSound ==
  ASSUME NEW s, Sound(s), NEW heard
  PROVE  Sound(Heard(s, heard))
<1> DEFINE n(c) == handle_client_message(s, c, CCM).fs.conn[c]
           t == Heard(s, heard)
<1>1. /\ DOMAIN t = ServerFields
      /\ t.files = s.files /\ t.dirs = s.dirs /\ t.next = s.next /\ t.open = s.open
      /\ t.volume = s.volume
      /\ t.conn = [c \in DOMAIN s.conn \cup heard |-> IF c \in heard THEN n(c) ELSE s.conn[c]]
  BY DEF Heard, Sound, Shaped, ServerFields
<1> HIDE DEF t
<1>2. ASSUME NEW c \in DOMAIN t.conn
      PROVE  /\ DOMAIN t.conn[c] = ConnectionFields
             /\ t.conn[c].handles = IF c \in DOMAIN s.conn THEN s.conn[c].handles ELSE {}
             /\ t.conn[c].cwd = IF c \in DOMAIN s.conn THEN s.conn[c].cwd ELSE Root
  <2>1. CASE c \in heard
    <3>1. t.conn[c] = n(c)
      BY <1>1, <2>1
    <3>2. /\ DOMAIN n(c) = ConnectionFields
          /\ n(c).handles = IF c \in DOMAIN s.conn THEN s.conn[c].handles ELSE {}
          /\ n(c).cwd = IF c \in DOMAIN s.conn THEN s.conn[c].cwd ELSE Root
      BY HeardConnection
    <3> HIDE DEF n
    <3> QED  BY <3>1, <3>2
  <2>2. CASE c \notin heard
    <3>1. c \in DOMAIN s.conn /\ t.conn[c] = s.conn[c]
      BY <1>1, <2>2
    <3> QED  BY <3>1 DEF Sound, Shaped
  <2> QED  BY <2>1, <2>2
<1>3. DOMAIN s.conn \subseteq DOMAIN t.conn
  BY <1>1
<1>4. Root \in Path
  BY SMT DEF Root, Path
<1>5. Shaped(t)
  <2>1. \A c \in DOMAIN t.conn : DOMAIN t.conn[c] = ConnectionFields /\ t.conn[c].cwd \in Path
    BY <1>2, <1>4 DEF Sound, Shaped
  <2> QED  BY <1>1, <2>1 DEF Sound, Shaped
<1>6. Single(t) /\ Whole(t)
  BY SMT, <1>1 DEF Sound, Single, Whole
<1>7. Accounted(t)
  <2>1. ASSUME NEW c \in DOMAIN t.conn
        PROVE  /\ t.conn[c].handles = {h \in DOMAIN t.open : t.open[h].owner = c}
               /\ Cardinality(t.conn[c].handles) <= MaxOpenPerClient
    <3>1. CASE c \in DOMAIN s.conn
      <4>1. t.conn[c].handles = s.conn[c].handles
        BY <1>2, <3>1
      <4>2. /\ s.conn[c].handles = {h \in DOMAIN s.open : s.open[h].owner = c}
            /\ Cardinality(s.conn[c].handles) <= MaxOpenPerClient
        BY <3>1 DEF Sound, Accounted
      <4> QED  BY <1>1, <4>1, <4>2
    <3>2. CASE c \notin DOMAIN s.conn
      <4>1. {h \in DOMAIN t.open : t.open[h].owner = c} = {}
        BY SMT, <1>1, <3>2 DEF Sound, Accounted
      <4>2. t.conn[c].handles = {}
        BY <1>2, <3>2
      <4> QED  BY SMT, <4>1, <4>2, FS_EmptySet, ServerAssumption
    <3> QED  BY <3>1, <3>2
  <2>2. \A h \in DOMAIN t.open : t.open[h].owner \in DOMAIN t.conn
    BY <1>1, <1>3 DEF Sound, Accounted
  <2>3. Cardinality(DOMAIN t.open) <= MaxOpenTotal /\ (Removed(t) => DOMAIN t.open = {})
    BY <1>1 DEF Sound, Accounted, Removed
  <2> QED  BY <2>1, <2>2, <2>3 DEF Accounted
<1> QED  BY <1>5, <1>6, <1>7 DEF Sound, t

\* The network at the start.
LEMMA InvInit == Init => Inv
<1> SUFFICES ASSUME Init PROVE Inv
  OBVIOUS
<1>1. scene \in DOMAIN Scenario
  BY DEF Init
<1>2. Sound(fs)
  <2> DEFINE s == Scenario[scene]
  <2>1. /\ DOMAIN s.files \subseteq Path /\ s.dirs \subseteq Path
        /\ DOMAIN s.files \cap (s.dirs \cup {Root}) = {}
        /\ \A p \in DOMAIN s.files \cup s.dirs : Parent(p) \in s.dirs \cup {Root}
    BY <1>1, ScenarioAssumption DEF Path
  <2>2. fs = [NewServer(s.files, s.dirs, s.uptime) EXCEPT !.conn = [c \in s.established |->
               [NewConnection(NewServer(s.files, s.dirs, s.uptime)) EXCEPT
                  !.seen = TRUE, !.silent = 0]]]
    BY DEF Init, Here
  <2> HIDE DEF s
  <2> QED  BY <2>1, <2>2, NewServerIsSound
<1>3. DOMAIN cl = Client /\ DOMAIN up = Client
  BY DEF Init
<1>4. ASSUME NEW c \in Client PROVE ClientOK(cl[c]) /\ QueueOK(up[c])
  <2>1. PICK state : cl[c] = [NewClient EXCEPT !.state = state]
    BY DEF Init
  <2>2. ClientOK(cl[c])
    <3>1. /\ DOMAIN cl[c] = DOMAIN NewClient
          /\ cl[c].pending = NewClient.pending /\ cl[c].files = NewClient.files
      BY <2>1 DEF NewClient
    <3>2. IsFiniteSet(DOMAIN cl[c].files)
      BY <3>1, NewClientIsOK DEF ClientOK
    <3> QED  BY <3>1, <3>2, NewClientIsOK, SamePending
  <2>3. up[c] = << >> /\ << >> \in Seq({})
    BY SMT DEF Init
  <2>4. QueueOK(up[c])
    BY SMT, <2>3 DEF QueueOK
  <2> QED  BY <2>2, <2>4
<1> QED  BY <1>1, <1>2, <1>3, <1>4 DEF Inv

\* A step that changes one client and adds to its queue.
LEMMA ShipKeeps ==
  ASSUME Inv, NEW c \in Client, NEW shipped, ClientOK(shipped.client),
         QueueOK(Packets(shipped.out)), Ship(c, shipped), UNCHANGED <<scene, fs>>
  PROVE  Inv'
<1>1. /\ cl' = [cl EXCEPT ![c] = shipped.client]
      /\ up' = [up EXCEPT ![c] = up[c] \o Packets(shipped.out)]
  BY DEF Ship
<1>2. QueueOK(up[c] \o Packets(shipped.out))
  BY QueuesJoin DEF Inv
<1> QED  BY <1>1, <1>2 DEF Inv

\* A step that touches neither the server nor a client and takes a packet out
\* of a queue, or none.
LEMMA LossKeeps ==
  ASSUME Inv, NEW c \in Client, NEW q, QueueOK(q), up' = [up EXCEPT ![c] = q],
         UNCHANGED <<scene, cl>>, Sound(fs')
  PROVE  Inv'
BY DEF Inv

\* Every step of the network.
LEMMA InvNext == Inv /\ [Next]_vars => Inv'
<1> SUFFICES ASSUME Inv, [Next]_vars PROVE Inv'
  OBVIOUS
<1>0. /\ Sound(fs) /\ scene \in DOMAIN Scenario
      /\ DOMAIN cl = Client /\ DOMAIN up = Client
      /\ \A c \in Client : ClientOK(cl[c]) /\ QueueOK(up[c])
  BY DEF Inv
<1>1. ASSUME NEW c \in Client, Connect(c) PROVE Inv'
  BY <1>0, <1>1, ConnectIsProper, ShipKeeps DEF Connect
<1>2. ASSUME NEW c \in Client, Disconnect(c) PROVE Inv'
  BY <1>0, <1>2, DisconnectIsProper, ShipKeeps DEF Disconnect
<1>3. ASSUME NEW c \in Client, Call(c) PROVE Inv'
  <2>0. PICK r \in Here.calls[c] :
          \E h : Ship(c, Request(cl[c], [r EXCEPT !.handle = h]))
    BY <1>3 DEF Call
  <2>1. PICK h : Ship(c, Request(cl[c], [r EXCEPT !.handle = h]))
    BY <2>0
  <2>2. /\ DOMAIN r = DOMAIN CCM /\ r.path \in Seq(STRING) /\ r.to \in Seq(STRING)
    BY <1>0, <2>1, ScenarioAssumption DEF Here
  <2> DEFINE q == [r EXCEPT !.handle = h]
  <2>3. Proper(q)
    <3>1. {"path", "to"} \subseteq DOMAIN r
      BY <2>2 DEF CCM
    <3> QED  BY <2>2, <3>1 DEF Proper, Path
  <2>4. Ship(c, Request(cl[c], q))
    BY <2>1
  <2> HIDE DEF q
  <2>5. ClientOK(Request(cl[c], q).client) /\ QueueOK(Packets(Request(cl[c], q).out))
    BY <1>0, <2>3, RequestIsTracked
  <2>6. UNCHANGED <<scene, fs>>
    BY <1>3 DEF Call
  <2> QED  BY <2>4, <2>5, <2>6, ShipKeeps
<1>4. ASSUME NEW c \in Client, Resend(c) PROVE Inv'
  <2>1. PICK t \in DOMAIN cl[c].pending :
          up' = [up EXCEPT ![c] = Append(up[c], Packet(cl[c].pending[t].request))]
    BY <1>4 DEF Resend
  <2> DEFINE r == cl[c].pending[t].request
  <2>2. Proper(r)
    BY <1>0 DEF ClientOK
  <2>3. up' = [up EXCEPT ![c] = Append(up[c], Packet(r))]
    BY <2>1
  <2> HIDE DEF r
  <2>4. PICK S : up[c] \in Seq(S) /\ \A p \in S : "message" \in DOMAIN p /\ Proper(p.message)
    BY <1>0 DEF QueueOK
  <2>5. /\ Append(up[c], Packet(r)) \in Seq(S \cup {Packet(r)})
        /\ "message" \in DOMAIN Packet(r) /\ Packet(r).message = r
    <3>1. "message" \in DOMAIN Packet(r) /\ Packet(r).message = r
      BY DEF Packet
    <3>2. up[c] \in Seq(S \cup {Packet(r)})
      BY SMT, <2>4
    <3> QED  BY SMT, <3>1, <3>2
  <2>6. QueueOK(Append(up[c], Packet(r)))
    BY <2>2, <2>4, <2>5 DEF QueueOK
  <2>7. UNCHANGED <<scene, cl>> /\ Sound(fs')
    BY <1>0, <1>4 DEF Resend
  <2> QED  BY <2>3, <2>6, <2>7, LossKeeps
<1>5. ASSUME NEW c \in Client, PowerCycle(c) PROVE Inv'
  <2>1. cl' = [cl EXCEPT ![c] = NewClient] /\ UNCHANGED <<scene, fs, up>>
    BY <1>5 DEF PowerCycle
  <2> QED  BY <1>0, <2>1, NewClientIsOK DEF Inv
<1>6. ASSUME NEW c \in Client, Serve(c) PROVE Inv'
  <2>1. PICK i \in DOMAIN up[c] :
          LET r == up[c][i].message
              s == IF running THEN handle_client_message(fs, c, r) ELSE Sent(fs, << >>)
          IN /\ up' = [up EXCEPT ![c] = Dequeued(up[c], i)]
             /\ fs' = s.fs /\ UNCHANGED <<scene, cl>>
    BY <1>6 DEF Serve, Arriving
  <2> DEFINE r == up[c][i].message
  <2>2. QueueOK(Dequeued(up[c], i)) /\ Proper(r)
    BY <1>0, QueueLoses
  <2>3. fs' = handle_client_message(fs, c, r).fs \/ fs' = fs
    BY <2>1 DEF Sent
  <2> HIDE DEF r
  <2>4. Sound(fs')
    BY SMT, <1>0, <2>2, <2>3, MessagesKeepSound DEF Proper
  <2> QED  BY <2>1, <2>2, <2>4, LossKeeps
<1>7. ASSUME NEW c \in Client, Receive(c) PROVE Inv'
  <2>1. PICK m : /\ cl' = [cl EXCEPT ![c] = handle_server_response(cl[c], m)]
                 /\ UNCHANGED <<scene, fs, up>>
    BY <1>7 DEF Receive
  <2>2. ClientOK(handle_server_response(cl[c], m))
    BY <1>0, AnswerKeeps
  <2> QED  BY <1>0, <2>1, <2>2 DEF Inv
<1>8. ASSUME NEW c \in Client, LoseRequest(c) PROVE Inv'
  <2>1. PICK i \in DOMAIN up[c] : up' = [up EXCEPT ![c] = Dequeued(up[c], i)]
    BY <1>8 DEF LoseRequest, Arriving
  <2>2. UNCHANGED <<scene, cl>> /\ Sound(fs')
    BY <1>0, <1>8 DEF LoseRequest
  <2> QED  BY <1>0, <2>1, <2>2, QueueLoses, LossKeeps
<1>9. ASSUME NEW c \in Client, LoseAnswer(c) PROVE Inv'
  BY <1>9 DEF LoseAnswer, Inv
<1>10. ASSUME HostStep PROVE Inv'
  <2>1. fs' \in {prepare_volume_for_removal(fs).fs, set_volume_removed(fs).fs,
                 reinsert_volume(fs).fs, set_busy(fs, ~fs.busy).fs}
        /\ UNCHANGED <<scene, cl, up>>
    BY <1>10 DEF HostStep, Host
  <2>2. Sound(fs')
    BY <1>0, <2>1, VolumeKeeps DEF Keeps
  <2> QED  BY <2>1, <2>2 DEF Inv
<1>11. ASSUME ServerStops PROVE Inv'
  BY <1>11 DEF ServerStops, Inv
<1>12. ASSUME Tick PROVE Inv'
  <2>1. PICK mute \in SUBSET Client, deaf \in SUBSET Client :
          fs' = Ticked(mute, deaf).fs /\ cl' = Ticked(mute, deaf).cl
    BY <1>12 DEF Tick
  <2> DEFINE s == IF running THEN server_update(fs) ELSE Sent(fs, << >>)
             u == [c \in Client |-> client_update(cl[c])]
             alive == {c \in Client : u[c].out # << >>}
  <2>2. /\ fs' = IF running THEN Heard(s.fs, alive \ mute) ELSE s.fs
        /\ cl' = [c \in Client |->
                    IF c \in deaf THEN u[c].client ELSE Informed(u[c].client, s.out)]
    BY <2>1 DEF Ticked
  <2>3. up' = [c \in Client |-> Late(up[c])] /\ scene' = scene
    BY <1>12 DEF Tick
  <2>4. Sound(s.fs)
    BY <1>0, UpdateKeepsSound DEF Sent
  <2>5. ASSUME NEW c \in Client PROVE ClientOK(u[c].client)
    BY <1>0, ClientTicks
  <2> HIDE DEF s, u, alive
  <2>6. Sound(fs')
    BY <2>2, <2>4, HeardIsSound
  <2>7. ASSUME NEW c \in Client PROVE ClientOK(cl'[c]) /\ QueueOK(up'[c])
    <3>1. QueueOK(up'[c])
      BY <1>0, <2>3, QueueWaits
    <3>2. ClientOK(Informed(u[c].client, s.out))
      BY <2>5, AnswerKeeps DEF Informed
    <3> QED  BY <2>2, <2>5, <3>1, <3>2
  <2>8. DOMAIN cl' = Client /\ DOMAIN up' = Client
    BY <2>2, <2>3
  <2> QED  BY <1>0, <2>3, <2>6, <2>7, <2>8 DEF Inv
<1>13. CASE UNCHANGED vars
  BY <1>13 DEF vars, Inv
<1> QED
  BY <1>1, <1>2, <1>3, <1>4, <1>5, <1>6, <1>7, <1>8, <1>9, <1>10, <1>11, <1>12, <1>13 DEF Next

\* The server is sound for ever.
LEMMA Invariance == Spec => []Inv
BY InvInit, InvNext, PTL DEF Spec

\* A file that is open for writing is open once, in every reachable state of the
\* service: whatever the clients send, in whatever order it arrives.
THEOREM SafeSingleWriter == Spec => []SingleWriter
<1>1. Inv => SingleWriter
  BY DEF Inv, Sound, Single, SingleWriter
<1> QED  BY <1>1, Invariance, PTL

\* The table of open files and the connections agree and keep their limits.
THEOREM SafeHandlesAccounted == Spec => []HandlesAccounted
<1>1. Inv => HandlesAccounted
  BY DEF Inv, Sound, Accounted, HandlesAccounted
<1> QED  BY <1>1, Invariance, PTL

\* The volume stays a tree, and what is open is on it.
THEOREM SafeVolumeIsWhole == Spec => []VolumeIsWhole
<1>1. Inv => VolumeIsWhole
  BY DEF Inv, Sound, Whole, VolumeIsWhole
<1> QED  BY <1>1, Invariance, PTL
===============================================================================
