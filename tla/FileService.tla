----------------------------- MODULE FileService ------------------------------
(***************************************************************************)
(* A file server and its clients on one network.                           *)
(*                                                                         *)
(* A message of more than eight bytes travels by the transport protocol,   *)
(* and what is sent after it on another lane can overtake it; messages of  *)
(* one lane keep their order.  A message waits through at most one Tick,   *)
(* may be lost, and a request still pending may be sent again under its    *)
(* TAN, as the file server's documentation asks of an application.  A      *)
(* scenario gives the volume, what the applications call and the faults.   *)
(***************************************************************************)
EXTENDS FileClient

CONSTANTS
  Scenario   \* [id -> scenario]: see MCFileService

\* The volume is a tree, and the applications name files by paths.
ASSUME ScenarioAssumption ==
  \A id \in DOMAIN Scenario :
    LET s == Scenario[id]
    IN /\ DOMAIN s.files \subseteq Seq(STRING) /\ s.dirs \subseteq Seq(STRING)
       /\ DOMAIN s.files \cap (s.dirs \cup {Root}) = {}
       /\ \A p \in DOMAIN s.files \cup s.dirs : Parent(p) \in s.dirs \cup {Root}
       /\ \A c \in Client : \A r \in s.calls[c] :
            /\ DOMAIN r = DOMAIN CCM
            /\ r.path \in Seq(STRING) /\ r.to \in Seq(STRING)

VARIABLES
  scene,      \* the scenario of this behaviour
  left,       \* how many of each bounded step it still has
  running,    \* whether the server is running
  fs,         \* the server
  cl,         \* [Client -> client record]
  up,         \* [Client -> requests on their way to the server]
  down,       \* [Client -> answers and broadcasts on their way to the client]
  estranged,  \* clients that have missed something: see Misses
  unheard     \* clients whose request to connect was lost or came to nothing

vars == <<scene, left, running, fs, cl, up, down, estranged, unheard>>

Here == Scenario[scene]

\* A client that is connected since before the behaviour starts.
Established(c) == c \in Here.established

Init ==
  /\ scene \in DOMAIN Scenario
  /\ left = Here.bounds
  /\ running = TRUE
  /\ fs = LET new == NewServer(Here.files, Here.dirs, Here.uptime)
          IN [new EXCEPT !.conn = [c \in Here.established |->
                [NewConnection(new) EXCEPT !.seen = TRUE, !.silent = 0]]]
  /\ cl = [c \in Client |->
       [NewClient EXCEPT !.state = IF Established(c) THEN "Connected" ELSE "Disconnected"]]
  /\ up = [c \in Client |-> << >>]
  /\ down = [c \in Client |-> << >>]
  /\ estranged = {}
  /\ unheard = {}

Use(what) == left[what] > 0 /\ left' = [left EXCEPT ![what] = @ - 1]

-----------------------------------------------------------------------------
(* The network.                                                            *)

Packet(message) == [message |-> message, late |-> FALSE]
Packets(messages) == [i \in DOMAIN messages |-> Packet(messages[i])]

RequestLane(r) ==
  IF r.function \in {"GetProperties", "Close", "Read", "Seek",
                     "GetCurrentDirectory", "VolumeStatus"}
  THEN "frame" ELSE "transport"

AnswerLane(m) ==
  IF m.function = "VolumeStatus" /\ m.tan = INVALID_TAN THEN "broadcast"
  ELSE IF m.function \in {"Read", "GetCurrentDirectory", "VolumeStatus"} THEN "transport"
  ELSE "frame"

\* The packets of q that can arrive next: a single frame is not overtaken.
Arriving(q, Lane(_)) ==
  {i \in DOMAIN q :
     \A j \in 1 .. (i - 1) : Lane(q[j].message) \notin {"frame", Lane(q[i].message)}}

\* The queue without the message at i.
Dequeued(q, i) == SubSeq(q, 1, i - 1) \o SubSeq(q, i + 1, Len(q))

\* The clients' queues with what the server has put out.
Delivered(queues, out) ==
  LET For(c) == SelectSeq(out, LAMBDA x : x.to \in {c, "all"})
  IN [c \in Client |-> queues[c] \o [i \in DOMAIN For(c) |-> Packet(For(c)[i].message)]]

Waiting == {q \in {up[c] : c \in Client} \cup {down[c] : c \in Client} : q # << >>}

\* No packet waits through a second tick, and on a prompt network through none.
OnTime == \A q \in Waiting : ~Here.prompt /\ \A i \in DOMAIN q : ~q[i].late

Late(q) == [i \in DOMAIN q |-> [q[i] EXCEPT !.late = TRUE]]

\* Whether m is the request client c is connecting with, or the answer to it.
Awaited(c, m) == m.function = "GetProperties" /\ m.tan \in DOMAIN cl[c].pending

\* The client in question, if losing m ends its attempt to connect.
Unheard(c, m) == IF Awaited(c, m) THEN {c} ELSE {}

-----------------------------------------------------------------------------
(* The applications of the clients.                                        *)

\* Client c becomes what `shipped` says and sends its requests.
Ship(c, shipped) ==
  /\ cl' = [cl EXCEPT ![c] = shipped.client]
  /\ up' = [up EXCEPT ![c] = @ \o Packets(shipped.out)]

Connect(c) ==
  /\ Use("connects")
  /\ cl[c].state = "Disconnected"
  /\ Ship(c, try_connect_to_server(cl[c]))
  /\ unheard' = unheard \ {c}
  /\ UNCHANGED <<scene, running, fs, down, estranged>>

\* A client that comes back has forgotten what the server may still keep.
Disconnect(c) ==
  /\ Use("disconnects")
  /\ cl[c].state # "Disconnected"
  /\ Ship(c, disconnect(cl[c]))
  /\ estranged' = estranged \cup {c}
  /\ UNCHANGED <<scene, running, fs, down, unheard>>

\* The handles a request is made for.
HandlesFor(c, r) ==
  IF r.function \in {"Close", "Read", "Write", "Seek"} THEN DOMAIN cl[c].files ELSE {0}

Call(c) ==
  /\ Use("calls")
  /\ cl[c].state = "Connected"
  /\ Here.pipelined \/ cl[c].pending = << >>
  /\ \E r \in Here.calls[c] : \E h \in HandlesFor(c, r) :
       Ship(c, Request(cl[c], [r EXCEPT !.handle = h]))
  /\ UNCHANGED <<scene, running, fs, down, estranged, unheard>>

\* A request without an answer is sent again as it was.
Resend(c) ==
  /\ Use("resends")
  /\ \E t \in DOMAIN cl[c].pending :
       up' = [up EXCEPT ![c] = Append(@, Packet(cl[c].pending[t].request))]
  /\ UNCHANGED <<scene, running, fs, cl, down, estranged, unheard>>

PowerCycle(c) ==
  /\ Use("cycles")
  /\ cl' = [cl EXCEPT ![c] = NewClient]
  /\ down' = [down EXCEPT ![c] = << >>]
  /\ estranged' = estranged \cup {c}
  /\ UNCHANGED <<scene, running, fs, up, unheard>>

-----------------------------------------------------------------------------
(* Messages.                                                               *)

\* Another client's cleared volume takes everyone's working directory.
Unsettled(c, r, before, after) ==
  IF r.function = "InitializeVolume" /\ after.files # before.files
  THEN Client \ {c} ELSE {}

Serve(c) ==
  \E i \in Arriving(up[c], RequestLane) :
    LET r == up[c][i].message
        s == IF running THEN handle_client_message(fs, c, r) ELSE Sent(fs, << >>)
    IN /\ up' = [up EXCEPT ![c] = Dequeued(@, i)]
       /\ fs' = s.fs
       /\ down' = Delivered(down, s.out)
       /\ estranged' = estranged \cup Unsettled(c, r, fs, s.fs)
       /\ UNCHANGED <<scene, left, running, cl, unheard>>

Receive(c) ==
  \E i \in Arriving(down[c], AnswerLane) :
    /\ cl' = [cl EXCEPT ![c] = handle_server_response(@, down[c][i].message)]
    /\ down' = [down EXCEPT ![c] = Dequeued(@, i)]
    /\ UNCHANGED <<scene, left, running, fs, up, estranged, unheard>>

LoseRequest(c) ==
  /\ Use("lost")
  /\ \E i \in Arriving(up[c], RequestLane) :
       /\ up' = [up EXCEPT ![c] = Dequeued(@, i)]
       /\ unheard' = unheard \cup Unheard(c, up[c][i].message)
  /\ UNCHANGED <<scene, running, fs, cl, down, estranged>>

\* A lost volume broadcast leaves the client with files it no longer has.
LoseAnswer(c) ==
  /\ Use("lost")
  /\ \E i \in Arriving(down[c], AnswerLane) :
       /\ down' = [down EXCEPT ![c] = Dequeued(@, i)]
       /\ estranged' = IF AnswerLane(down[c][i].message) = "broadcast"
                       THEN estranged \cup {c} ELSE estranged
       /\ unheard' = unheard \cup Unheard(c, down[c][i].message)
  /\ UNCHANGED <<scene, running, fs, cl, up>>

-----------------------------------------------------------------------------
(* The server's host, and time.                                            *)

Host(what, s) ==
  /\ running
  /\ what \in Here.host
  /\ Use("host")
  /\ fs' = s.fs
  /\ down' = Delivered(down, s.out)
  /\ UNCHANGED <<scene, running, cl, up, estranged, unheard>>

HostStep ==
  \/ Host("prepare", prepare_volume_for_removal(fs))
  \/ Host("remove", set_volume_removed(fs))
  \/ Host("reinsert", reinsert_volume(fs))
  \/ Host("busy", set_busy(fs, ~fs.busy))

ServerStops ==
  /\ running
  /\ Use("stops")
  /\ running' = FALSE
  /\ UNCHANGED <<scene, fs, cl, up, down, estranged, unheard>>

\* Clients that give up a request or the server at this tick, and clients that
\* the server gives up before it has heard their first keepalive.
Misses(after, server) ==
  {c \in Client : \/ DOMAIN after[c].client.pending # DOMAIN cl[c].pending
                  \/ after[c].client.state # cl[c].state
                  \/ c \in DOMAIN fs.conn \ DOMAIN server.conn /\ ~fs.conn[c].seen}

\* Clients that give their request to connect up at this tick, while it or its
\* answer is still on its way.
Overtaken(after) ==
  {c \in Client : \E q \in {up[c], down[c]} : \E i \in DOMAIN q :
     Awaited(c, q[i].message) /\ q[i].message.tan \notin DOMAIN after[c].client.pending}

\* The server after the keepalives of the clients in `heard`.
Heard(server, heard) ==
  [server EXCEPT !.conn = [c \in DOMAIN @ \cup heard |->
     IF c \in heard THEN handle_client_message(server, c, CCM).fs.conn[c] ELSE @[c]]]

\* The client after the status broadcasts among `out`.
Informed(client, out) ==
  LET statuses == SelectSeq(out, LAMBDA x : x.message.function = "Status")
  IN IF statuses = << >> THEN client
     ELSE handle_server_response(client, statuses[1].message)

\* update() of the server and of the clients.  Keepalives and status broadcasts
\* are single frames and arrive in the tick that sends them, unless lost: the
\* server misses those of `mute`, the clients in `deaf` miss the server's.
Ticked(mute, deaf) ==
  LET s == IF running THEN server_update(fs) ELSE Sent(fs, << >>)
      u == [c \in Client |-> client_update(cl[c])]
      alive == {c \in Client : u[c].out # << >>}
  IN [fs |-> IF running THEN Heard(s.fs, alive \ mute) ELSE s.fs,
      cl |-> [c \in Client |->
        IF c \in deaf THEN u[c].client ELSE Informed(u[c].client, s.out)],
      down |-> Delivered([c \in Client |-> Late(down[c])],
                         SelectSeq(s.out, LAMBDA x : x.message.function # "Status")),
      estranged |-> estranged \cup Misses(u, s.fs),
      unheard |-> unheard \cup Overtaken(u)]

Tick ==
  /\ OnTime
  /\ \E mute, deaf \in SUBSET Client :
       LET now == Ticked(mute, deaf)
           missed == Cardinality(mute) + Cardinality(deaf)
       IN /\ missed <= left["lost"] /\ left' = [left EXCEPT !["lost"] = @ - missed]
          /\ fs' = now.fs /\ cl' = now.cl /\ down' = now.down
          /\ estranged' = now.estranged /\ unheard' = now.unheard
  /\ up' = [c \in Client |-> Late(up[c])]
  /\ UNCHANGED <<scene, running>>

Next ==
  \/ \E c \in Client :
       \/ Connect(c) \/ Disconnect(c) \/ Call(c) \/ Resend(c) \/ PowerCycle(c)
       \/ Serve(c) \/ Receive(c) \/ LoseRequest(c) \/ LoseAnswer(c)
  \/ HostStep
  \/ ServerStops
  \/ Tick

Spec == Init /\ [][Next]_vars

\* Nothing is on its way, and a tick that loses nothing changes nothing.  (That
\* the answer caches are empty follows, and is asked first to spare TLC the tick.)
Steady ==
  /\ Waiting = {}
  /\ running => \A c \in DOMAIN fs.conn : fs.conn[c].cache = << >>
  /\ Ticked({}, {}) = [fs |-> fs, cl |-> cl, down |-> down,
                       estranged |-> estranged, unheard |-> unheard]

\* WF_vars(Next) with its enabling condition written out: packets arrive or are
\* lost, and the owners of server and clients keep calling update().  OnTime and
\* the bounds of the other steps leave nothing to be said about either alone.
FairSpec == Spec /\ ([]<>Steady \/ []<><<TRUE>>_vars)

\* The same driving, step by step: update() is called again and again, and what
\* is on its way arrives if it is not lost.
DrivenSpec ==
  /\ Spec
  /\ WF_vars(Tick)
  /\ \A c \in Client : WF_vars(Serve(c)) /\ WF_vars(Receive(c))

-----------------------------------------------------------------------------
(* Properties.                                                             *)

\* A file that is open for writing is open once: the access conflicts of
\* handle_open_file hold across every way a file is made, moved or reopened.
SingleWriter ==
  \A g, h \in DOMAIN fs.open :
    (/\ g # h /\ fs.open[g].path = fs.open[h].path
     /\ fs.open[g].mode # "OpenDir" /\ fs.open[h].mode # "OpenDir")
      => ~open_mode_writes(fs.open[g])

\* The open-file table and the connections agree, and the limits hold: no handle
\* outlives its client's connection or the volume.
HandlesAccounted ==
  /\ \A c \in DOMAIN fs.conn :
       /\ fs.conn[c].handles = {h \in DOMAIN fs.open : fs.open[h].owner = c}
       /\ Cardinality(fs.conn[c].handles) <= MaxOpenPerClient
  /\ \A h \in DOMAIN fs.open : fs.open[h].owner \in DOMAIN fs.conn
  /\ Cardinality(DOMAIN fs.open) <= MaxOpenTotal
  /\ Removed(fs) => DOMAIN fs.open = {}

\* The volume stays whole: whatever is on it has its parent directory, no name
\* is both a file and a directory, and an open file is on it: no client can
\* delete, move or initialise it away under another one's handle.
VolumeIsWhole ==
  /\ Root \in fs.dirs
  /\ DOMAIN fs.files \cap fs.dirs = {}
  /\ \A p \in DOMAIN fs.files \cup fs.dirs : Parent(p) \in fs.dirs
  /\ \A h \in DOMAIN fs.open :
       fs.open[h].mode # "OpenDir" => fs.open[h].path \in DOMAIN fs.files

\* Nothing is on its way to or from client c.
AtRest(c) == up[c] = << >> /\ down[c] = << >> /\ cl[c].pending = << >>

\* A client that has its answers knows what the server keeps for it: the files
\* it believes open are its own and open and, if it sends one request at a time,
\* at the positions it believes, and the working directory is the one it
\* believes.  Requests sent again and answers that come twice or late change
\* nothing.  (A client with several requests in flight may lose track of
\* positions, but not of its handles.  A file opened with Append is at its end
\* on the server and at 0 in the mirror.)
MirrorsAgree ==
  \A c \in Client \ estranged :
    (running /\ AtRest(c)) =>
      /\ \A h \in DOMAIN cl[c].files : Owns(fs, c, h)
      /\ ~Here.pipelined /\ cl[c].state = "Connected" =>
           /\ c \in DOMAIN fs.conn
           /\ fs.conn[c].cwd = cl[c].cwd
           /\ \A h \in DOMAIN cl[c].files :
                "Append" \in fs.open[h].flags \/ fs.open[h].position = cl[c].files[h].position

\* Connecting ends: with an answer, with the server's silence, or never if the
\* one request, or the answer to it, was lost or came too late while the server
\* goes on sending its status.  Nothing else keeps a client connecting: not a
\* busy server, an earlier attempt, or anything else the client has missed.
ConnectingSettles ==
  \A c \in Client :
    cl[c].state = "WaitingForStatus" ~>
      (cl[c].state # "WaitingForStatus" \/ (running /\ c \in unheard))

\* What file-server.md:205 and the comment on update() say of the client: it
\* retries expired requests, so a request lost once does not keep a client of
\* a running server connecting for ever.  DropExpired only forgets the request.
LostRequestIsRetried ==
  \A c \in Client :
    cl[c].state = "WaitingForStatus" ~> cl[c].state # "WaitingForStatus"

\* Every request is answered or dropped; only a server that keeps reporting
\* itself busy keeps one alive.
RequestsSettle ==
  \A c \in Client : cl[c].pending # << >> ~> (cl[c].pending = << >> \/ fs.busy)

\* A server that has stopped is noticed by every client.
ClientsNotice == ~running ~> (\A c \in Client : cl[c].state = "Disconnected")

\* What a client leaves open when it goes away is closed by the server.
LeftoversAreClosed ==
  \A c \in Client :
    cl[c].state = "Disconnected" ~>
      (~running \/ cl[c].state # "Disconnected" \/ \A h \in DOMAIN fs.open : fs.open[h].owner # c)

\* A volume being prepared for removal is removed, whatever the clients hold
\* open and whoever still asks to maintain it.
RemovalCompletes == fs.volume = "PreparingForRemoval" ~> (~running \/ Removed(fs))
===============================================================================
