------------------------------ MODULE FileClient ------------------------------
(***************************************************************************)
(* The file client (isobus/fs/client) behind its session plugin            *)
(* (session/plugins/fs_client.rs): the connection to one server, the       *)
(* requests in flight by transaction number (TAN), and a mirror of what    *)
(* the server keeps for it: open files with their positions, and the       *)
(* working directory.                                                      *)
(*                                                                         *)
(* A client is one record.  A request operator returns [client, out]: the  *)
(* new record and the request to send, if any.                             *)
(***************************************************************************)
EXTENDS FileServer

CONSTANTS
  CcmInterval,          \* ccm_interval_ms, in ticks
  RequestTimeout,       \* request_timeout_ms
  ServerStatusTimeout   \* server_status_timeout_ms

ASSUME ClientAssumption ==
  /\ CcmInterval \in Nat \ {0} /\ RequestTimeout \in Nat
  /\ ServerStatusTimeout \in Nat \ {0}

ClientState == {"Disconnected", "WaitingForStatus", "Connected"}

NewClient ==
  [state |-> "Disconnected", ccm |-> 0, quiet |-> 0, tan |-> 0,
   pending |-> << >>, files |-> << >>, cwd |-> Root]

Shipped(client, out) == [client |-> client, out |-> out]

-----------------------------------------------------------------------------
(* Requests.                                                               *)

allocate_tan(client) == [client EXCEPT !.tan = (@ + 1) % TanCount]

\* A request gets the next TAN and is tracked until it is answered.
Request(client, request) ==
  LET r == [request EXCEPT !.tan = client.tan]
  IN Shipped([allocate_tan(client) EXCEPT
                !.pending = With(@, r.tan, [request |-> r, age |-> 0])], <<r>>)

try_connect_to_server(client) ==
  Request([client EXCEPT !.state = "WaitingForStatus", !.ccm = 0, !.quiet = 0],
          [CCM EXCEPT !.function = "GetProperties"])

\* The keys of a BTreeMap.
InOrder(keys) ==
  [i \in 1 .. Cardinality(keys) |->
     CHOOSE k \in keys : Cardinality({j \in keys : j < k}) = i - 1]

\* disconnect: the handles are closed by requests nobody waits for.
disconnect(client) ==
  LET handles == InOrder(DOMAIN client.files)
      close(i) == [CCM EXCEPT !.function = "Close", !.handle = handles[i],
                              !.tan = (client.tan + i - 1) % TanCount]
  IN Shipped([client EXCEPT !.state = "Disconnected", !.pending = << >>,
                !.files = << >>, !.cwd = Root,
                !.tan = (@ + Len(handles)) % TanCount],
             [i \in DOMAIN handles |-> close(i)])

-----------------------------------------------------------------------------
(* Answers.                                                                *)

Forget(client) == [client EXCEPT !.files = << >>, !.cwd = Root]

handle_open_response(client, r, handle) ==
  [client EXCEPT !.files = With(@, handle,
     [path |-> r.path, mode |-> r.mode, flags |-> r.flags, position |-> 0])]

\* The position of a handle after `n` bytes or entries.
Advance(client, handle, n) ==
  IF handle \notin DOMAIN client.files THEN client
  ELSE [client EXCEPT !.files[handle].position = @ + n]

handle_seek_response(client, handle, position) ==
  IF handle \notin DOMAIN client.files THEN client
  ELSE [client EXCEPT !.files[handle].position = position]

handle_properties_response(client) ==
  IF client.state = "WaitingForStatus" THEN [client EXCEPT !.state = "Connected"] ELSE client

handle_close_response(client, r) == [client EXCEPT !.files = Without(@, {r.handle})]

handle_get_directory_response(client, path) == [client EXCEPT !.cwd = path]

handle_change_directory_response(client, r) ==
  [client EXCEPT !.cwd = ChangedDirectory(@, r.path)]

\* Of the operations that answer with an error code alone, one clears the mirror.
parse_simple_operation_response(client, r) ==
  IF r.function = "InitializeVolume" THEN Forget(client) ELSE client

\* What a successful answer changes in the mirror.
ApplyAnswer(client, r, value) ==
  CASE r.function = "GetProperties" -> handle_properties_response(client)
    [] r.function = "Open" -> handle_open_response(client, r, value[1])
    [] r.function = "Close" -> handle_close_response(client, r)
    [] r.function \in {"Read", "Write"} -> Advance(client, r.handle, value[1])
    [] r.function = "Seek" -> handle_seek_response(client, r.handle, value[1])
    [] r.function = "GetCurrentDirectory" -> handle_get_directory_response(client, value)
    [] r.function = "ChangeDirectory" -> handle_change_directory_response(client, r)
    [] r.function \in {"Move", "Delete", "SetAttributes", "InitializeVolume"} ->
         parse_simple_operation_response(client, r)
    [] OTHER -> client

\* A volume status, to one request or to all of them.
handle_volume_status_response(client, tans, state) ==
  LET settled == [client EXCEPT !.pending = Without(@, tans), !.quiet = 0]
  IN IF state = "Removed" THEN Forget(settled) ELSE settled

VolumeRequests(client) ==
  {t \in DOMAIN client.pending : client.pending[t].request.function = "VolumeStatus"}

Rearmed(pending) == [t \in DOMAIN pending |-> [pending[t] EXCEPT !.age = 0]]

\* Broadcasts: the server's status, which rearms requests while it is busy, and
\* the volume's.
handle_status_broadcast(client, m) ==
  IF m.function = "VolumeStatus"
  THEN handle_volume_status_response(client, VolumeRequests(client), m.value[1])
  ELSE [client EXCEPT !.quiet = 0,
                      !.pending = IF m.value = << >> THEN @ ELSE Rearmed(@)]

handle_server_response(client, m) ==
  IF m.tan = INVALID_TAN THEN handle_status_broadcast(client, m)
  ELSE IF m.tan \notin DOMAIN client.pending THEN client
  ELSE LET r == client.pending[m.tan].request
           heard == [client EXCEPT !.pending = Without(@, {m.tan}), !.quiet = 0]
       IN IF r.function # m.function THEN client
          ELSE IF m.function = "VolumeStatus"
          THEN handle_volume_status_response(client, {m.tan}, m.value[1])
          ELSE IF m.error # "Success" THEN heard
          ELSE ApplyAnswer(heard, r, m.value)

-----------------------------------------------------------------------------
(* Time.                                                                   *)

\* The keepalive part of update().
Keepalive(client) ==
  IF client.state # "Connected" THEN Shipped(client, << >>)
  ELSE IF client.ccm + 1 < CcmInterval THEN Shipped([client EXCEPT !.ccm = @ + 1], << >>)
  ELSE Shipped([client EXCEPT !.ccm = 0], <<CCM>>)

\* Mutant: a client that is still connecting is not supervised.
SuperviseConnected(client) ==
  IF client.state # "Connected" THEN client
  ELSE IF client.quiet + 1 < ServerStatusTimeout THEN [client EXCEPT !.quiet = @ + 1]
  ELSE disconnect([client EXCEPT !.quiet = @ + 1]).client

\* Mutant: only a client that is still connecting is supervised.
SuperviseConnecting(client) ==
  IF client.state # "WaitingForStatus" THEN client
  ELSE IF client.quiet + 1 < ServerStatusTimeout THEN [client EXCEPT !.quiet = @ + 1]
  ELSE disconnect([client EXCEPT !.quiet = @ + 1]).client

\* The part that gives up on a server that has gone quiet; the close requests
\* of disconnect() are not sent.
Supervise(client) ==
  IF client.state = "Disconnected" THEN client
  ELSE IF client.quiet + 1 < ServerStatusTimeout THEN [client EXCEPT !.quiet = @ + 1]
  ELSE disconnect([client EXCEPT !.quiet = @ + 1]).client

\* Mutant: requests wait for ever.
KeepsExpired(client) == client

\* Requests that have waited too long are dropped.
DropExpired(client) ==
  LET aged == [t \in DOMAIN client.pending |-> [client.pending[t] EXCEPT !.age = @ + 1]]
  IN [client EXCEPT !.pending =
        Without(aged, {t \in DOMAIN aged : aged[t].age > RequestTimeout})]

client_update(client) ==
  LET alive == Keepalive(client)
  IN Shipped(DropExpired(Supervise(alive.client)), alive.out)
===============================================================================
