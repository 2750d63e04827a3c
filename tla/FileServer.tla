------------------------------ MODULE FileServer ------------------------------
(***************************************************************************)
(* The ISO 11783-13 file server (isobus/fs/server): a volume held in       *)
(* memory, the table of open files, one connection per client with its     *)
(* working directory and its cache of answers, and the removal of the      *)
(* volume.                                                                 *)
(*                                                                         *)
(* The server is one record, `fs`.  A handler is an operator that takes it *)
(* and a request and returns the new record with the answer.  A handler's  *)
(* early returns are a list of checks in the order of the code, and        *)
(* Verdict is the first that applies.  A path is the sequence of its       *)
(* names; a file is its length and its read-only bit.  Requests are well   *)
(* formed: FileClient sends no other.                                      *)
(***************************************************************************)
EXTENDS Integers, Sequences, FiniteSetsExt

CONSTANTS
  Client,              \* source addresses of the clients
  TanCount,            \* transaction numbers: 0 .. TanCount - 1
  MaxHandle,           \* file handles: 1 .. MaxHandle
  MaxOpenPerClient,    \* max_open_files_per_client
  MaxOpenTotal,        \* max_open_files_total
  CcmTimeout,          \* ccm_timeout_ms, in ticks
  TanTimeout,          \* tan_cache_timeout_ms
  StatusInterval,      \* status_broadcast_interval_ms
  BusyStatusInterval,  \* busy_status_interval_ms
  RemovalTime          \* volume_max_removal_time_ms

ASSUME ServerAssumption ==
  /\ TanCount \in Nat \ {0} /\ MaxHandle \in Nat
  /\ MaxOpenPerClient \in Nat /\ MaxOpenTotal \in Nat /\ MaxOpenTotal < MaxHandle
  /\ CcmTimeout \in Nat /\ TanTimeout \in Nat /\ RemovalTime \in Nat
  /\ StatusInterval \in Nat \ {0} /\ BusyStatusInterval \in Nat \ {0}

INVALID_TAN == TanCount
Handle == 1 .. MaxHandle
Root == << >>
Separator == "\\"   \* the first component of an absolute path

VolumeState == {"Present", "InUse", "PreparingForRemoval", "Removed"}
AccessMode == {"Read", "Write", "ReadWrite", "OpenDir"}

\* f with x mapped to v, and f without the arguments in S.
With(f, x, v) == [y \in DOMAIN f \cup {x} |-> IF y = x THEN v ELSE f[y]]
Without(f, S) == [y \in DOMAIN f \ S |-> f[y]]

AtMost(n, bound) == IF n < bound THEN n ELSE bound

\* The error of the first check that applies.
Verdict(checks) ==
  LET applying == {i \in DOMAIN checks : checks[i][1]}
  IN IF applying = {} THEN "Success" ELSE checks[Min(applying)][2]

\* The client's keepalive, C.1.3; in other requests the fields that their
\* function does not use have these values too.
CCM ==
  [function |-> "CCM", tan |-> INVALID_TAN, handle |-> 0, path |-> Root, to |-> Root,
   mode |-> "Read", flags |-> {}, count |-> 0]

Message(function, tan, error, value) ==
  [function |-> function, tan |-> tan, error |-> error, value |-> value]

-----------------------------------------------------------------------------
(* The server's state.                                                     *)

\* ServerClientConnection::new; `silent` is the age of last_ccm_timestamp_ms,
\* which a new connection has at the start of the server.
NewConnection(fs) ==
  [seen |-> FALSE, silent |-> fs.uptime, cwd |-> Root, handles |-> {}, cache |-> << >>]

\* FileServer::new with the files and directories its host has added.
NewServer(files, dirs, uptime) ==
  [files |-> files, dirs |-> dirs \cup {Root}, open |-> << >>, next |-> 1,
   conn |-> << >>, volume |-> "Present", removal |-> 0, maintain |-> {},
   busy |-> FALSE, uptime |-> uptime, status |-> 0]

\* Mutant: a file that is only read does not count as open.
WritersOnly(fs, path) ==
  \E h \in DOMAIN fs.open : fs.open[h].mode = "Write" /\ fs.open[h].path = path

is_path_open(fs, path) ==
  \E h \in DOMAIN fs.open : fs.open[h].mode # "OpenDir" /\ fs.open[h].path = path

\* A path of a request, against the working directory when it is relative.
Resolve(cwd, path) ==
  IF path # << >> /\ Head(path) = Separator THEN Tail(path) ELSE cwd \o path

Parent(path) == IF path = Root THEN Root ELSE SubSeq(path, 1, Len(path) - 1)

\* Whether p is below the directory.
IsBelow(p, directory) ==
  Len(p) > Len(directory) /\ SubSeq(p, 1, Len(directory)) = directory

Entries(fs, directory) ==
  {p \in DOMAIN fs.files \cup fs.dirs : p # Root /\ Parent(p) = directory}

IsReadOnly(fs, path) == path \in DOMAIN fs.files /\ fs.files[path].readOnly

Removed(fs) == fs.volume = "Removed"

\* Whether h is a handle that client c has open.
Owns(fs, c, h) == h \in DOMAIN fs.open /\ fs.open[h].owner = c

effective_volume_state(fs) ==
  IF fs.volume \in {"Removed", "PreparingForRemoval"} THEN fs.volume
  ELSE IF DOMAIN fs.open # {} \/ fs.maintain # {} THEN "InUse" ELSE "Present"

clear_media_dependent_client_state(fs) ==
  [fs EXCEPT !.open = << >>,
             !.conn = [c \in DOMAIN @ |-> [@[c] EXCEPT !.handles = {}, !.cwd = Root]]]

\* What a handler returns: the state, and the error and value of its answer.
Answer(fs, error, value) == [fs |-> fs, error |-> error, value |-> value]

\* The answer of a handler whose checks gave `error`: only Success takes effect.
Conclude(fs, error, served, value) ==
  IF error = "Success" THEN Answer(served, error, value) ELSE Answer(fs, error, << >>)

-----------------------------------------------------------------------------
(* Opening and closing.                                                    *)

open_mode_writes(o) == o.mode \in {"Write", "ReadWrite"} \/ "Append" \in o.flags

\* Mutant: only a new writer conflicts with those who have the file open.
NewWriterConflicts(fs, path, r) ==
  \E h \in DOMAIN fs.open :
    fs.open[h].mode # "OpenDir" /\ fs.open[h].path = path /\ open_mode_writes(r)

open_file_access_conflicts(fs, path, r) ==
  \E h \in DOMAIN fs.open :
    /\ fs.open[h].mode # "OpenDir" /\ fs.open[h].path = path
    /\ open_mode_writes(r) \/ open_mode_writes(fs.open[h])

\* The first free handle at or after next_handle, cyclically.
allocate_handle(fs) ==
  LET free == Handle \ DOMAIN fs.open
      distance(h) == (h - fs.next) % MaxHandle
  IN CHOOSE h \in free : \A g \in free : distance(h) <= distance(g)

OpenDirectoryChecks(fs, path, r) ==
  LET missing == path \notin fs.dirs
  IN << <<missing /\ path \in DOMAIN fs.files, "InvalidAccess">>,
        <<missing /\ "Create" \notin r.flags, "NotFound">>,
        <<missing /\ Parent(path) \notin fs.dirs, "NotFound">> >>

OpenFileChecks(fs, path, r) ==
  LET exists == path \in DOMAIN fs.files
  IN << <<path \in fs.dirs, "InvalidAccess">>,
        <<exists /\ {"Create", "Exclusive"} \subseteq r.flags, "AccessDenied">>,
        <<exists /\ open_file_access_conflicts(fs, path, r), "AccessDenied">>,
        <<~exists /\ "Create" \notin r.flags, "NotFound">>,
        <<~exists /\ Parent(path) \in DOMAIN fs.files, "InvalidAccess">>,
        <<~exists /\ Parent(path) \notin fs.dirs, "NotFound">> >>

OpenChecks(fs, c, path, r) ==
  << <<Removed(fs), "MediaNotPresent">>,
     <<"Append" \in r.flags /\ r.mode \in {"Read", "OpenDir"}, "InvalidAccess">>,
     <<r.mode # "OpenDir" /\ path = Root, "InvalidSourceName">>,
     <<Cardinality(fs.conn[c].handles) >= MaxOpenPerClient, "TooManyOpen">>,
     <<Cardinality(DOMAIN fs.open) >= MaxOpenTotal, "TooManyOpen">> >>
    \o (IF r.mode = "OpenDir" THEN OpenDirectoryChecks(fs, path, r)
        ELSE OpenFileChecks(fs, path, r))

\* The volume after an open: the file or directory is there.
Created(fs, path, r) ==
  IF r.mode = "OpenDir" THEN [fs EXCEPT !.dirs = @ \cup {path}]
  ELSE IF path \in DOMAIN fs.files THEN fs
  ELSE [fs EXCEPT !.files = With(@, path, [size |-> 0, readOnly |-> FALSE])]

\* The table entry of a new open file and its bookkeeping.
Opened(fs, c, path, r) ==
  LET h == allocate_handle(fs)
      entry == [owner |-> c, path |-> path, mode |-> r.mode, flags |-> r.flags,
                position |-> IF r.mode # "OpenDir" /\ "Append" \in r.flags
                             THEN fs.files[path].size ELSE 0]
  IN [fs EXCEPT !.open = With(@, h, entry),
                !.next = (h % MaxHandle) + 1,
                !.conn[c].handles = @ \cup {h}]

handle_open_file(fs, c, r) ==
  LET path == Resolve(fs.conn[c].cwd, r.path)
  IN Conclude(fs, Verdict(OpenChecks(fs, c, path, r)),
              Opened(Created(fs, path, r), c, path, r), <<allocate_handle(fs)>>)

\* Mutant: the connection keeps the handle.
CloseKeepsHandle(fs, c, r) ==
  Conclude(fs, IF Owns(fs, c, r.handle) THEN "Success" ELSE "InvalidHandle",
           [fs EXCEPT !.open = Without(@, {r.handle})], << >>)

handle_close_file(fs, c, r) ==
  Conclude(fs, IF Owns(fs, c, r.handle) THEN "Success" ELSE "InvalidHandle",
           [fs EXCEPT !.open = Without(@, {r.handle}),
                      !.conn[c].handles = @ \ {r.handle}], << >>)

-----------------------------------------------------------------------------
(* Reading, writing and seeking.                                           *)

\* A file's length, or the number of entries of a directory.
Length(fs, o) ==
  IF o.mode = "OpenDir" THEN Cardinality(Entries(fs, o.path))
  ELSE IF o.path \in DOMAIN fs.files THEN fs.files[o.path].size ELSE 0

handle_read_file(fs, c, r) ==
  LET o == fs.open[r.handle]
      owns == Owns(fs, c, r.handle)
      n == AtMost(r.count, Length(fs, o) - o.position)
      error == Verdict(<<
        <<Removed(fs), "MediaNotPresent">>,
        <<~owns, "InvalidHandle">>,
        <<owns /\ o.mode = "Write", "InvalidAccess">>,
        <<owns /\ o.mode # "OpenDir" /\ o.path \notin DOMAIN fs.files, "NotFound">>,
        <<owns /\ o.position >= Length(fs, o), "EndOfFile">> >>)
  IN Conclude(fs, error, [fs EXCEPT !.open[r.handle].position = @ + n], <<n>>)

handle_write_file(fs, c, r) ==
  LET o == fs.open[r.handle]
      owns == Owns(fs, c, r.handle)
      end == o.position + r.count
      error == Verdict(<<
        <<Removed(fs), "MediaNotPresent">>,
        <<~owns, "InvalidHandle">>,
        <<owns /\ o.mode = "OpenDir", "InvalidHandle">>,
        <<owns /\ o.mode = "Read", "InvalidAccess">>,
        <<owns /\ IsReadOnly(fs, o.path), "AccessDenied">>,
        <<owns /\ o.path \notin DOMAIN fs.files, "NotFound">> >>)
  IN Conclude(fs, error,
              [fs EXCEPT !.files[o.path].size = IF end > @ THEN end ELSE @,
                         !.open[r.handle].position = end], <<r.count>>)

SeekBase(fs, o, whence) ==
  CASE whence = "Start" -> 0 [] whence = "Current" -> o.position [] whence = "End" -> Length(fs, o)

handle_seek_file(fs, c, r) ==
  LET o == fs.open[r.handle]
      owns == Owns(fs, c, r.handle) /\ o.mode # "OpenDir"
      end == Length(fs, o)
      target == SeekBase(fs, o, r.mode) + r.count
      error == Verdict(<<
        <<Removed(fs), "MediaNotPresent">>,
        <<~owns, "InvalidHandle">>,
        <<owns /\ target > end /\ o.position = end, "EndOfFile">>,
        <<owns /\ (target < 0 \/ target > end), "InvalidLength">> >>)
  IN Conclude(fs, error, [fs EXCEPT !.open[r.handle].position = target], <<target>>)

-----------------------------------------------------------------------------
(* Directories and files.                                                  *)

handle_get_current_directory(fs, c, r) ==
  Conclude(fs, Verdict(<< <<Removed(fs), "MediaNotPresent">> >>), fs, fs.conn[c].cwd)

\* The directory a ChangeDirectory leads to; "." and ".." are not looked up.
ChangedDirectory(cwd, path) ==
  CASE path = <<"..">> -> Parent(cwd)
    [] path = <<".">> -> cwd
    [] OTHER -> Resolve(cwd, path)

handle_change_directory(fs, c, r) ==
  LET target == ChangedDirectory(fs.conn[c].cwd, r.path)
      looked == r.path \notin {<<".">>, <<"..">>, <<Separator>>}
      error == Verdict(<<
        <<Removed(fs), "MediaNotPresent">>,
        <<looked /\ target \in DOMAIN fs.files, "InvalidAccess">>,
        <<looked /\ target \notin fs.dirs, "NotFound">> >>)
  IN Conclude(fs, error, [fs EXCEPT !.conn[c].cwd = target], << >>)

handle_move_file(fs, c, r) ==
  LET from == Resolve(fs.conn[c].cwd, r.path)
      to == Resolve(fs.conn[c].cwd, r.to)
      error == Verdict(<<
        <<Removed(fs), "MediaNotPresent">>,
        <<from = to, "InvalidDestName">>,
        <<from \in fs.dirs, "InvalidAccess">>,
        <<is_path_open(fs, from) \/ is_path_open(fs, to), "AccessDenied">>,
        <<to \in DOMAIN fs.files \cup fs.dirs, "AccessDenied">>,
        <<Parent(to) \in DOMAIN fs.files, "InvalidAccess">>,
        <<Parent(to) \notin fs.dirs, "InvalidDestName">>,
        <<IsReadOnly(fs, from), "AccessDenied">>,
        <<from \notin DOMAIN fs.files, "NotFound">> >>)
  IN Conclude(fs, error,
              [fs EXCEPT !.files = With(Without(@, {from}), to, @[from])], << >>)

handle_delete_file(fs, c, r) ==
  LET path == Resolve(fs.conn[c].cwd, r.path)
      directory == path \in fs.dirs
      inside == {p \in DOMAIN fs.files \cup fs.dirs : IsBelow(p, path)}
      error == Verdict(<<
        <<Removed(fs), "MediaNotPresent">>,
        <<directory /\ (path = Root \/ inside # {}), "AccessDenied">>,
        <<~directory /\ is_path_open(fs, path), "AccessDenied">>,
        <<IsReadOnly(fs, path), "AccessDenied">>,
        <<~directory /\ path \notin DOMAIN fs.files, "NotFound">> >>)
  IN Conclude(fs, error,
              [fs EXCEPT !.dirs = @ \ {path},
                         !.files = IF directory THEN @ ELSE Without(@, {path})], << >>)

handle_get_file_attributes(fs, c, r) ==
  LET path == Resolve(fs.conn[c].cwd, r.path)
      error == Verdict(<<
        <<Removed(fs), "MediaNotPresent">>,
        <<path \notin DOMAIN fs.files \cup fs.dirs, "NotFound">> >>)
  IN Conclude(fs, error, fs, IF IsReadOnly(fs, path) THEN <<"ReadOnly">> ELSE << >>)

\* The attribute that matters here is set or cleared.
handle_set_file_attributes(fs, c, r) ==
  LET path == Resolve(fs.conn[c].cwd, r.path)
      error == Verdict(<<
        <<Removed(fs), "MediaNotPresent">>,
        <<path \in fs.dirs, "InvalidAccess">>,
        <<path \notin DOMAIN fs.files, "NotFound">>,
        <<is_path_open(fs, path), "AccessDenied">> >>)
  IN Conclude(fs, error,
              [fs EXCEPT !.files[path].readOnly = "ReadOnly" \in r.flags], << >>)

handle_get_file_date_time(fs, c, r) ==
  LET path == Resolve(fs.conn[c].cwd, r.path)
      error == Verdict(<<
        <<Removed(fs), "MediaNotPresent">>,
        <<path = Root, "AccessDenied">>,
        <<path \notin DOMAIN fs.files \cup fs.dirs, "NotFound">> >>)
  IN Conclude(fs, error, fs, << >>)

handle_initialize_volume(fs, c, r) ==
  LET error == Verdict(<<
        <<Removed(fs), "MediaNotPresent">>,
        <<DOMAIN fs.open # {}, "AccessDenied">> >>)
  IN Conclude(fs, error,
              clear_media_dependent_client_state([fs EXCEPT !.files = << >>, !.dirs = {Root}]),
              << >>)

execute_function(fs, c, r) ==
  CASE r.function = "GetProperties" -> Answer(fs, "Success", << >>)
    [] r.function = "Open" -> handle_open_file(fs, c, r)
    [] r.function = "Close" -> handle_close_file(fs, c, r)
    [] r.function = "Read" -> handle_read_file(fs, c, r)
    [] r.function = "Write" -> handle_write_file(fs, c, r)
    [] r.function = "Seek" -> handle_seek_file(fs, c, r)
    [] r.function = "GetCurrentDirectory" -> handle_get_current_directory(fs, c, r)
    [] r.function = "ChangeDirectory" -> handle_change_directory(fs, c, r)
    [] r.function = "Move" -> handle_move_file(fs, c, r)
    [] r.function = "Delete" -> handle_delete_file(fs, c, r)
    [] r.function = "GetAttributes" -> handle_get_file_attributes(fs, c, r)
    [] r.function = "SetAttributes" -> handle_set_file_attributes(fs, c, r)
    [] r.function = "GetDateTime" -> handle_get_file_date_time(fs, c, r)
    [] r.function = "InitializeVolume" -> handle_initialize_volume(fs, c, r)
    [] OTHER -> Answer(fs, "NotSupported", << >>)

-----------------------------------------------------------------------------
(* The volume.  What these return is the state and the messages to send,   *)
(* each with its destination: a client or "all".                           *)

Sent(fs, out) == [fs |-> fs, out |-> out]
To(destination, message) == [to |-> destination, message |-> message]

VolumeStatus(fs, tan) ==
  Message("VolumeStatus", tan, "Success", <<effective_volume_state(fs)>>)

broadcast_volume_status(fs) == To("all", VolumeStatus(fs, INVALID_TAN))

broadcast_status(fs) ==
  To("all", Message("Status", INVALID_TAN, "Success", IF fs.busy THEN <<"busy">> ELSE << >>))

prepare_volume_for_removal(fs) ==
  IF fs.volume \notin {"Present", "InUse"} THEN Sent(fs, << >>)
  ELSE LET prepared == [fs EXCEPT !.volume = "PreparingForRemoval", !.removal = 0,
                                  !.maintain = {}]
       IN Sent(prepared, <<broadcast_volume_status(prepared)>>)

set_volume_removed(fs) ==
  LET gone == clear_media_dependent_client_state([fs EXCEPT !.volume = "Removed"])
  IN Sent(gone, <<broadcast_volume_status(gone)>>)

reinsert_volume(fs) ==
  LET back == [fs EXCEPT !.volume = "Present"]
  IN IF ~Removed(fs) THEN Sent(fs, << >>)
     ELSE Sent(back, <<broadcast_volume_status(back)>>)

\* set_busy_reading and set_busy_writing.
set_busy(fs, busy) == Sent([fs EXCEPT !.busy = busy], << >>)

MayRemove(fs) ==
  fs.volume = "PreparingForRemoval" /\ DOMAIN fs.open = {} /\ fs.maintain = {}

\* The mode of the request: prepare for removal, maintain, or neither.
handle_volume_status(fs, c, r) ==
  LET prepared == prepare_volume_for_removal(fs)
      maintained == IF fs.volume = "PreparingForRemoval"
                    THEN [fs EXCEPT !.maintain = @ \cup {c}] ELSE fs
      released == [fs EXCEPT !.maintain = @ \ {c}]
      told(s) == Sent(s, <<To(c, VolumeStatus(s, r.tan))>>)
  IN CASE r.mode = "Prepare" -> IF prepared.out = << >> THEN told(fs) ELSE prepared
       [] r.mode = "Maintain" -> told(maintained)
       [] r.mode = "Query" ->
            IF MayRemove(released) THEN set_volume_removed(released) ELSE told(released)
       [] OTHER -> told(fs)

\* Mutant: a volume with open files is waited for without limit.
WaitsForClients(fs) ==
  CASE fs.volume \in {"Present", "InUse"} ->
         Sent([fs EXCEPT !.volume = IF DOMAIN fs.open = {} THEN "Present" ELSE "InUse"], << >>)
    [] fs.volume = "PreparingForRemoval" ->
         IF MayRemove(fs) THEN set_volume_removed(fs) ELSE Sent(fs, << >>)
    [] fs.volume = "Removed" -> Sent(fs, << >>)

update_volume_state_machine(fs) ==
  LET waited == [fs EXCEPT !.removal = AtMost(@ + 1, RemovalTime)]
  IN CASE fs.volume \in {"Present", "InUse"} ->
            Sent([fs EXCEPT !.volume = IF DOMAIN fs.open = {} THEN "Present" ELSE "InUse"], << >>)
       [] fs.volume = "PreparingForRemoval" ->
            IF MayRemove(waited) \/ waited.removal >= RemovalTime
            THEN set_volume_removed(waited) ELSE Sent(waited, << >>)
       [] fs.volume = "Removed" -> Sent(fs, << >>)

-----------------------------------------------------------------------------
(* Requests and time.                                                      *)

\* The connection of c, made for its first message.
Connected(fs, c) ==
  IF c \in DOMAIN fs.conn THEN fs ELSE [fs EXCEPT !.conn = With(@, c, NewConnection(fs))]

handle_ccm(fs, c) == [fs EXCEPT !.conn[c].seen = TRUE, !.conn[c].silent = 0]

\* Mutant: a request that is sent again is executed again.
NeverCached(fs, c, r) == FALSE

\* A request that has been answered already, byte for byte.
IsRetransmission(fs, c, r) ==
  r.tan \in DOMAIN fs.conn[c].cache /\ fs.conn[c].cache[r.tan].request = r

CacheAnswer(fs, c, r, message) ==
  [fs EXCEPT !.conn[c].cache = With(@, r.tan, [request |-> r, answer |-> message, age |-> 0])]

Served(fs, c, r) ==
  IF r.function = "VolumeStatus" THEN handle_volume_status(fs, c, r)
  ELSE LET done == execute_function(fs, c, r)
       IN Sent(done.fs, <<To(c, Message(r.function, r.tan, done.error, done.value))>>)

handle_client_message(fs, c, r) ==
  LET known == Connected(fs, c)
      done == Served(known, c, r)
  IN IF r.function = "CCM" THEN Sent(handle_ccm(known, c), << >>)
     ELSE IF IsRetransmission(known, c, r)
     THEN Sent(known, <<To(c, known.conn[c].cache[r.tan].answer)>>)
     ELSE Sent(CacheAnswer(done.fs, c, r, done.out[1].message), done.out)

\* The clocks of update().
OlderAnswers(cache) == [t \in DOMAIN cache |-> [cache[t] EXCEPT !.age = @ + 1]]

OlderConnection(conn) ==
  [conn EXCEPT !.silent = AtMost(@ + 1, CcmTimeout + 1), !.cache = OlderAnswers(@)]

Aged(fs) ==
  [fs EXCEPT !.uptime = AtMost(@ + 1, CcmTimeout + 1), !.status = @ + 1,
             !.conn = [c \in DOMAIN @ |-> OlderConnection(@[c])]]

WithoutExpired(conn) ==
  LET expired == {t \in DOMAIN conn.cache : conn.cache[t].age > TanTimeout}
  IN [conn EXCEPT !.cache = Without(@, expired)]

cleanup_expired_tan_cache(fs) ==
  [fs EXCEPT !.conn = [c \in DOMAIN @ |-> WithoutExpired(@[c])]]

\* Mutant: only a client that has sent a keepalive can be lost.
CleanupOfSeen(fs) ==
  LET lost == {c \in DOMAIN fs.conn : fs.conn[c].seen /\ fs.conn[c].silent > CcmTimeout}
  IN [fs EXCEPT !.open = Without(@, {h \in DOMAIN @ : @[h].owner \in lost}),
                !.conn = Without(@, lost)]

cleanup_disconnected_clients(fs) ==
  LET lost == {c \in DOMAIN fs.conn : fs.conn[c].silent > CcmTimeout}
  IN [fs EXCEPT !.open = Without(@, {h \in DOMAIN @ : @[h].owner \in lost}),
                !.conn = Without(@, lost)]

server_update(fs) ==
  LET moved == update_volume_state_machine(Aged(fs))
      kept == cleanup_disconnected_clients(cleanup_expired_tan_cache(moved.fs))
      interval == IF kept.busy THEN BusyStatusInterval ELSE StatusInterval
  IN IF kept.status < interval THEN Sent(kept, moved.out)
     ELSE LET reset == [kept EXCEPT !.status = 0]
          IN Sent(reset, Append(moved.out, broadcast_status(reset)))
===============================================================================
