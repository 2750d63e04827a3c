---------------------------- MODULE MCFileService -----------------------------
(* Scenarios of a file server with two clients for TLC.                     *)
EXTENDS FileService, TLC

CONSTANTS a, b   \* the clients

Both == {a, b}

\* The volume: a file of two bytes, a read-only file, an empty directory.
F == <<"f">>
G == <<"g">>
D == <<"d">>
N == <<"n">>
DF == <<"d", "f">>
FileOf(size, readOnly) == [size |-> size, readOnly |-> readOnly]

Volume ==
  [p \in {F, G} |-> FileOf(IF p = F THEN 2 ELSE 1, p = G)]

NoBounds ==
  [calls |-> 0, connects |-> 0, disconnects |-> 0, resends |-> 0, lost |-> 0,
   cycles |-> 0, host |-> 0, stops |-> 0]

Absolute(path) == <<Separator>> \o path

Open(path, mode, flags) ==
  [CCM EXCEPT !.function = "Open", !.path = path, !.mode = mode, !.flags = flags]
Ask(function) == [CCM EXCEPT !.function = function]
AskOf(function, path) == [CCM EXCEPT !.function = function, !.path = path]
Transfer(function, count) == [CCM EXCEPT !.function = function, !.count = count]
Seek(whence, offset) == [CCM EXCEPT !.function = "Seek", !.mode = whence, !.count = offset]
Move(from, to) == [CCM EXCEPT !.function = "Move", !.path = from, !.to = to]
Volumes(mode) == [CCM EXCEPT !.function = "VolumeStatus", !.mode = mode]

Base ==
  [files |-> Volume, dirs |-> {D}, uptime |-> 0, established |-> {a, b},
   calls |-> [c \in {a, b} |-> {}], pipelined |-> FALSE, prompt |-> TRUE, host |-> {},
   bounds |-> NoBounds]

\* Two clients compete for a file.
Sharing ==
  [Base EXCEPT
     !.calls = (a :> {Open(F, "Read", {}), Open(F, "ReadWrite", {"Append"}), Ask("Close")})
            @@ (b :> {Open(F, "Write", {"Create"}), AskOf("Delete", F), Move(F, N),
                      Ask("InitializeVolume")}),
     !.bounds.calls = 3]

\* One client moves about in a file over a network that loses messages.
Positions ==
  [Base EXCEPT
     !.established = {a},
     !.calls[a] = {Open(F, "ReadWrite", {}), Transfer("Read", 1), Transfer("Write", 2),
                   Seek("Current", -1)},
     !.bounds.calls = 3, !.bounds.resends = 1, !.bounds.lost = 1]

\* Directories are made, entered, left and deleted.
Directories ==
  [Base EXCEPT
     !.calls = (a :> {Open(N, "OpenDir", {"Create"}), Open(F, "Read", {"Create", "Exclusive"}),
                      AskOf("ChangeDirectory", D), AskOf("ChangeDirectory", <<"..">>),
                      Ask("GetCurrentDirectory"), Transfer("Read", 2)})
            @@ (b :> {AskOf("Delete", D), Move(F, DF)}),
     !.bounds.calls = 3]

\* Attributes, and what a read-only file refuses.
Attributes ==
  [Base EXCEPT
     !.established = {a},
     !.calls[a] = {AskOf("SetAttributes", G), AskOf("GetAttributes", G), AskOf("GetDateTime", D),
                   Open(G, "Write", {}), Transfer("Write", 1), AskOf("Delete", G), Move(G, N)},
     !.bounds.calls = 2]

\* The volume is taken out while clients have files open, and put back.
Removal ==
  [Base EXCEPT
     !.calls = (a :> {Open(F, "Read", {})})
            @@ (b :> {Volumes("Maintain"), Volumes("Query")}),
     !.host = {"prepare", "reinsert"},
     !.bounds.calls = 2, !.bounds.host = 2]

\* Clients come and go.
Joining ==
  [Base EXCEPT
     !.established = {},
     !.calls[a] = {Open(F, "Write", {}), AskOf("ChangeDirectory", Absolute(D))},
     !.bounds.calls = 1, !.bounds.connects = 2, !.bounds.disconnects = 1, !.bounds.lost = 1]

\* A client connects to a server that stops.
Unanswered ==
  [Base EXCEPT
     !.established = {}, !.prompt = FALSE,
     !.bounds.connects = 1, !.bounds.stops = 1, !.bounds.lost = 1]

\* A client loses power while it connects, and connects again under the same
\* TAN, to a server that may be busy.
Returning ==
  [Base EXCEPT
     !.established = {}, !.host = {"busy"},
     !.bounds.connects = 2, !.bounds.cycles = 1, !.bounds.lost = 1, !.bounds.host = 1]

\* The network is slow, the server busy or stopped, a client loses power.
Stopping ==
  [Base EXCEPT
     !.established = {a}, !.prompt = FALSE,
     !.calls[a] = {Open(F, "Read", {}), Volumes("Prepare")}, !.host = {"busy"},
     !.bounds.calls = 1, !.bounds.host = 1, !.bounds.stops = 1, !.bounds.lost = 1,
     !.bounds.cycles = 1]

\* Handles are given out until their numbers wrap, past those still in use.
Recycling ==
  [Base EXCEPT
     !.established = {a}, !.calls[a] = {Open(F, "Read", {}), Ask("Close")},
     !.bounds.calls = 6]

\* A client does not wait for its answers.
Pipelining ==
  [Base EXCEPT
     !.established = {a}, !.pipelined = TRUE,
     !.calls[a] = {Open(F, "Read", {}), Ask("Close"), Transfer("Read", 1)},
     !.host = {"remove"},
     !.bounds.calls = 3, !.bounds.host = 1]

\* A client connects over a network that loses one message, and the server
\* keeps running.
Retrying ==
  [Base EXCEPT !.established = {}, !.bounds.connects = 1, !.bounds.lost = 1]

Retries == [retrying |-> Retrying]

Scenes ==
  [sharing |-> Sharing, positions |-> Positions, directories |-> Directories,
   attributes |-> Attributes, removal |-> Removal, joining |-> Joining,
   unanswered |-> Unanswered, returning |-> Returning, stopping |-> Stopping,
   recycling |-> Recycling, pipelining |-> Pipelining]
===============================================================================
