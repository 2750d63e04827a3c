-------------------------- MODULE FileServerProofs ----------------------------
(***************************************************************************)
(* What every entry point of the file server keeps, for any limits on      *)
(* handles, any timeouts, any volume and any number of clients: no file is *)
(* open twice when one of the two may write it, every handle is counted to *)
(* the one connection that owns it and within both limits, and the volume  *)
(* is a tree in which open files exist (Sound).                            *)
(*                                                                         *)
(* A handler is a list of checks and then a change (Conclude), so a proof  *)
(* has two parts: a verdict of success means that no check has failed      *)
(* (Checks2 and its like), and what the checks exclude makes the change    *)
(* sound.  Most changes are of two kinds: alike, touching nothing Sound    *)
(* looks at, and reduced, closing files and forgetting connections.        *)
(***************************************************************************)
EXTENDS FileServer, FiniteSetTheorems, SequenceTheorems, WellFoundedInduction, TLAPS

\* Most leaves are first-order; those with arithmetic or sequences cite SMT.
USE Zenon

Path == Seq(STRING)

ServerFields ==
  {"files", "dirs", "open", "next", "conn", "volume", "removal", "maintain",
   "busy", "uptime", "status"}
ConnectionFields == {"seen", "silent", "cwd", "handles", "cache"}
OpenFields == {"owner", "path", "mode", "flags", "position"}

\* The server's record has its fields, and its names are paths.
Shaped(s) ==
  /\ DOMAIN s = ServerFields
  /\ DOMAIN s.files \subseteq Path /\ s.dirs \subseteq Path
  /\ DOMAIN s.open \subseteq Handle /\ s.next \in Handle
  /\ \A h \in DOMAIN s.open : DOMAIN s.open[h] = OpenFields
  /\ \A c \in DOMAIN s.conn : DOMAIN s.conn[c] = ConnectionFields /\ s.conn[c].cwd \in Path
  /\ s.volume \in VolumeState

\* The three invariants of the server, of a record.
Single(s) ==
  \A g, h \in DOMAIN s.open :
    (/\ g # h /\ s.open[g].path = s.open[h].path
     /\ s.open[g].mode # "OpenDir" /\ s.open[h].mode # "OpenDir")
      => ~open_mode_writes(s.open[g])

Accounted(s) ==
  /\ \A c \in DOMAIN s.conn :
       /\ s.conn[c].handles = {h \in DOMAIN s.open : s.open[h].owner = c}
       /\ Cardinality(s.conn[c].handles) <= MaxOpenPerClient
  /\ \A h \in DOMAIN s.open : s.open[h].owner \in DOMAIN s.conn
  /\ Cardinality(DOMAIN s.open) <= MaxOpenTotal
  /\ Removed(s) => DOMAIN s.open = {}

Whole(s) ==
  /\ Root \in s.dirs
  /\ DOMAIN s.files \cap s.dirs = {}
  /\ \A p \in DOMAIN s.files \cup s.dirs : Parent(p) \in s.dirs
  /\ \A h \in DOMAIN s.open :
       s.open[h].mode # "OpenDir" => s.open[h].path \in DOMAIN s.files

Sound(s) == Shaped(s) /\ Single(s) /\ Accounted(s) /\ Whole(s)

\* t differs from s in nothing that Sound looks at, or is a volume that may
\* have gone because nothing on it is open.
Alike(s, t) ==
  /\ DOMAIN t = ServerFields
  /\ DOMAIN t.files = DOMAIN s.files /\ t.dirs = s.dirs /\ t.next = s.next
  /\ DOMAIN t.open = DOMAIN s.open
  /\ \A h \in DOMAIN s.open :
       /\ DOMAIN t.open[h] = OpenFields
       /\ t.open[h].owner = s.open[h].owner /\ t.open[h].path = s.open[h].path
       /\ t.open[h].mode = s.open[h].mode /\ t.open[h].flags = s.open[h].flags
  /\ DOMAIN t.conn = DOMAIN s.conn
  /\ \A c \in DOMAIN s.conn :
       /\ DOMAIN t.conn[c] = ConnectionFields
       /\ t.conn[c].handles = s.conn[c].handles /\ t.conn[c].cwd \in Path
  /\ t.volume \in VolumeState
  /\ Removed(t) => DOMAIN s.open = {}

-----------------------------------------------------------------------------
(* Helpers.                                                                *)

\* A nonempty set of naturals has a least element.
LEMMA Least ==
  ASSUME NEW S, S \subseteq Nat, S # {}
  PROVE  \E n \in S : \A m \in S : n <= m
<1>1. PICK n \in S : \A m \in S : <<m, n>> \notin OpToRel(<, Nat)
  BY NatLessThanWellFounded, WFMin, Zenon
<1>2. \A m \in S : ~(m < n)
  BY <1>1 DEF OpToRel
<1> QED  BY SMT, <1>2

\* Min of a nonempty set is one of its elements.
LEMMA MinIsLeast ==
  ASSUME NEW S, S \subseteq Nat, S # {}
  PROVE  Min(S) \in S
BY Least DEF Min

\* A verdict of Success means that no check applied.
LEMMA VerdictHolds ==
  ASSUME NEW checks, DOMAIN checks \subseteq Nat,
         \A i \in DOMAIN checks : checks[i][2] # "Success",
         Verdict(checks) = "Success"
  PROVE  \A i \in DOMAIN checks : ~checks[i][1]
<1> DEFINE applying == {i \in DOMAIN checks : checks[i][1]}
<1>1. CASE applying = {}
  BY <1>1
<1>2. CASE applying # {}
  <2>1. Min(applying) \in applying
    BY <1>2, MinIsLeast
  <2> QED  BY <1>2, <2>1 DEF Verdict
<1> QED  BY <1>1, <1>2

\* What is alike is as sound.
LEMMA AlikeIsSound ==
  ASSUME NEW s, NEW t, Sound(s), Alike(s, t)
  PROVE  Sound(t)
<1>1. Shaped(t)
  BY DEF Sound, Shaped, Alike
<1>2. Single(t)
  BY SMT DEF Sound, Single, Alike, open_mode_writes
<1>3. Accounted(t)
  BY SMT DEF Sound, Accounted, Alike
<1>4. Whole(t)
  BY SMT DEF Sound, Whole, Alike
<1> QED  BY <1>1, <1>2, <1>3, <1>4 DEF Sound

\* A sound server is like itself.
LEMMA AlikeSelf ==
  ASSUME NEW s, Sound(s)
  PROVE  Alike(s, s)
BY DEF Alike, Sound, Shaped, Accounted

\* Taking handles out of a set does not exceed the bound that the set is under.
LEMMA FewerHandles ==
  ASSUME NEW S, S \subseteq Handle, NEW T, T \subseteq S, NEW n \in Nat, Cardinality(S) <= n
  PROVE  Cardinality(T) <= n
<1>1. IsFiniteSet(Handle)
  BY SMT, FS_Interval, ServerAssumption DEF Handle
<1>2. IsFiniteSet(S)
  BY <1>1, FS_Subset
<1>3. IsFiniteSet(T) /\ Cardinality(T) <= Cardinality(S)
  BY <1>2, FS_Subset
<1>4. Cardinality(S) \in Nat /\ Cardinality(T) \in Nat
  BY <1>2, <1>3, FS_CardinalityType
<1> QED  BY SMT, <1>3, <1>4

\* t is s with some handles closed and some clients gone, the volume and the
\* working directories changed at will; no one who is gone has a handle, and a
\* volume that is removed has none at all.
Reduced(s, t) ==
  /\ DOMAIN t = ServerFields
  /\ DOMAIN t.files = DOMAIN s.files /\ t.dirs = s.dirs /\ t.next = s.next
  /\ DOMAIN t.open \subseteq DOMAIN s.open
  /\ \A h \in DOMAIN t.open : t.open[h] = s.open[h] /\ t.open[h].owner \in DOMAIN t.conn
  /\ DOMAIN t.conn \subseteq DOMAIN s.conn
  /\ \A c \in DOMAIN t.conn :
       /\ DOMAIN t.conn[c] = ConnectionFields /\ t.conn[c].cwd \in Path
       /\ t.conn[c].handles = s.conn[c].handles \cap DOMAIN t.open
  /\ t.volume \in VolumeState
  /\ Removed(t) => DOMAIN t.open = {}

\* Closing files and forgetting connections keeps a server sound.
LEMMA ReducedIsSound ==
  ASSUME NEW s, NEW t, Sound(s), Reduced(s, t)
  PROVE  Sound(t)
<1>1. Shaped(t)
  BY DEF Reduced, Sound, Shaped
<1>2. Single(t)
  BY DEF Reduced, Sound, Single
<1>3. Whole(t)
  BY SMT DEF Reduced, Sound, Whole
<1>4. DOMAIN s.open \subseteq Handle
  BY DEF Sound, Shaped
<1>5. Cardinality(DOMAIN t.open) <= MaxOpenTotal
  <2>1. Cardinality(DOMAIN s.open) <= MaxOpenTotal
    BY DEF Sound, Accounted
  <2>2. DOMAIN t.open \subseteq DOMAIN s.open
    BY DEF Reduced
  <2> QED  BY <1>4, <2>1, <2>2, FewerHandles, ServerAssumption
<1>6. ASSUME NEW c \in DOMAIN t.conn
      PROVE  /\ t.conn[c].handles = {h \in DOMAIN t.open : t.open[h].owner = c}
             /\ Cardinality(t.conn[c].handles) <= MaxOpenPerClient
  <2>1. s.conn[c].handles = {h \in DOMAIN s.open : s.open[h].owner = c}
    BY DEF Reduced, Sound, Accounted
  <2>2. Cardinality(s.conn[c].handles) <= MaxOpenPerClient
    BY DEF Reduced, Sound, Accounted
  <2>3. t.conn[c].handles = s.conn[c].handles \cap DOMAIN t.open
    BY DEF Reduced
  <2>4. t.conn[c].handles = {h \in DOMAIN t.open : t.open[h].owner = c}
    BY <2>1, <2>3 DEF Reduced
  <2>5. s.conn[c].handles \subseteq Handle /\ t.conn[c].handles \subseteq s.conn[c].handles
    BY <1>4, <2>1, <2>3
  <2>6. Cardinality(t.conn[c].handles) <= MaxOpenPerClient
    BY <2>2, <2>5, FewerHandles, ServerAssumption
  <2> QED  BY <2>4, <2>6
<1>7. Accounted(t)
  BY <1>5, <1>6 DEF Reduced, Accounted
<1> QED  BY <1>1, <1>2, <1>3, <1>7 DEF Sound

-----------------------------------------------------------------------------
(* The handlers that touch positions, sizes and directories only.          *)

PositionStep(s, t) ==
  /\ DOMAIN t = ServerFields
  /\ \A f \in ServerFields \ {"files", "open"} : t[f] = s[f]
  /\ DOMAIN t.files = DOMAIN s.files
  /\ \E h \in DOMAIN s.open : \E x : t.open = [s.open EXCEPT ![h] = [s.open[h] EXCEPT !.position = x]]

\* Moving the positions of open files changes nothing Sound looks at.
LEMMA PositionsAlike ==
  ASSUME NEW s, NEW t, Sound(s), PositionStep(s, t)
  PROVE  Alike(s, t)
<1>1. PICK h \in DOMAIN s.open : \E x : t.open = [s.open EXCEPT ![h] = [s.open[h] EXCEPT !.position = x]]
  BY DEF PositionStep
<1>2. PICK x : t.open = [s.open EXCEPT ![h] = [s.open[h] EXCEPT !.position = x]]
  BY <1>1
<1>3. DOMAIN t.open = DOMAIN s.open
  BY <1>2
<1>4. ASSUME NEW g \in DOMAIN s.open
      PROVE  /\ DOMAIN t.open[g] = OpenFields
             /\ t.open[g].owner = s.open[g].owner /\ t.open[g].path = s.open[g].path
             /\ t.open[g].mode = s.open[g].mode /\ t.open[g].flags = s.open[g].flags
  <2>1. DOMAIN s.open[g] = OpenFields
    BY DEF Sound, Shaped
  <2>2. t.open[g] = IF g = h THEN [s.open[g] EXCEPT !.position = x] ELSE s.open[g]
    BY <1>2
  <2> QED  BY <2>1, <2>2 DEF OpenFields
<1>5. t.dirs = s.dirs /\ t.next = s.next /\ t.conn = s.conn /\ t.volume = s.volume
  BY DEF PositionStep, ServerFields
<1>6. DOMAIN t = ServerFields /\ DOMAIN t.files = DOMAIN s.files
  BY DEF PositionStep
<1> QED  BY <1>3, <1>4, <1>5, <1>6 DEF Alike, Sound, Shaped, Accounted, Removed

\* A verdict of success means that no check has failed; here for two checks.
LEMMA Checks2 ==
  ASSUME NEW k1, NEW k2,
         k1[2] # "Success", k2[2] # "Success",
         Verdict(<<k1, k2>>) = "Success"
  PROVE  ~k1[1] /\ ~k2[1]
<1> DEFINE checks == <<k1, k2>>
<1>1. DOMAIN checks = 1 .. 2
  BY SMT
<1>2. /\ checks[1] = k1 /\ checks[2] = k2
  OBVIOUS
<1> HIDE DEF checks
<1>3. \A i \in DOMAIN checks : checks[i][2] # "Success"
  BY SMT, <1>1, <1>2
<1>4. \A i \in DOMAIN checks : ~checks[i][1]
  BY SMT, <1>1, <1>3, VerdictHolds DEF checks
<1> QED  BY SMT, <1>1, <1>2, <1>4

\* The same for four checks.
LEMMA Checks4 ==
  ASSUME NEW k1, NEW k2, NEW k3, NEW k4,
         k1[2] # "Success", k2[2] # "Success", k3[2] # "Success", k4[2] # "Success",
         Verdict(<<k1, k2, k3, k4>>) = "Success"
  PROVE  ~k1[1] /\ ~k2[1] /\ ~k3[1] /\ ~k4[1]
<1> DEFINE checks == <<k1, k2, k3, k4>>
<1>1. DOMAIN checks = 1 .. 4
  BY SMT
<1>2. /\ checks[1] = k1 /\ checks[2] = k2 /\ checks[3] = k3 /\ checks[4] = k4
  OBVIOUS
<1> HIDE DEF checks
<1>3. \A i \in DOMAIN checks : checks[i][2] # "Success"
  BY SMT, <1>1, <1>2
<1>4. \A i \in DOMAIN checks : ~checks[i][1]
  BY SMT, <1>1, <1>3, VerdictHolds DEF checks
<1> QED  BY SMT, <1>1, <1>2, <1>4

\* The same for five checks.
LEMMA Checks5 ==
  ASSUME NEW k1, NEW k2, NEW k3, NEW k4, NEW k5,
         k1[2] # "Success", k2[2] # "Success", k3[2] # "Success", k4[2] # "Success",
         k5[2] # "Success",
         Verdict(<<k1, k2, k3, k4, k5>>) = "Success"
  PROVE  ~k1[1] /\ ~k2[1] /\ ~k3[1] /\ ~k4[1] /\ ~k5[1]
<1> DEFINE checks == <<k1, k2, k3, k4, k5>>
<1>1. DOMAIN checks = 1 .. 5
  BY SMT
<1>2. /\ checks[1] = k1 /\ checks[2] = k2 /\ checks[3] = k3 /\ checks[4] = k4 /\ checks[5] = k5
  OBVIOUS
<1> HIDE DEF checks
<1>3. \A i \in DOMAIN checks : checks[i][2] # "Success"
  BY SMT, <1>1, <1>2
<1>4. \A i \in DOMAIN checks : ~checks[i][1]
  BY SMT, <1>1, <1>3, VerdictHolds DEF checks
<1> QED  BY SMT, <1>1, <1>2, <1>4

\* The same for six checks.
LEMMA Checks6 ==
  ASSUME NEW k1, NEW k2, NEW k3, NEW k4, NEW k5, NEW k6,
         k1[2] # "Success", k2[2] # "Success", k3[2] # "Success", k4[2] # "Success",
         k5[2] # "Success", k6[2] # "Success",
         Verdict(<<k1, k2, k3, k4, k5, k6>>) = "Success"
  PROVE  ~k1[1] /\ ~k2[1] /\ ~k3[1] /\ ~k4[1] /\ ~k5[1] /\ ~k6[1]
<1> DEFINE checks == <<k1, k2, k3, k4, k5, k6>>
<1>1. DOMAIN checks = 1 .. 6
  BY SMT
<1>2. /\ checks[1] = k1 /\ checks[2] = k2 /\ checks[3] = k3 /\ checks[4] = k4 /\ checks[5] = k5
      /\ checks[6] = k6
  OBVIOUS
<1> HIDE DEF checks
<1>3. \A i \in DOMAIN checks : checks[i][2] # "Success"
  BY SMT, <1>1, <1>2
<1>4. \A i \in DOMAIN checks : ~checks[i][1]
  BY SMT, <1>1, <1>3, VerdictHolds DEF checks
<1> QED  BY SMT, <1>1, <1>2, <1>4

\* The same for nine checks.
LEMMA Checks9 ==
  ASSUME NEW k1, NEW k2, NEW k3, NEW k4, NEW k5, NEW k6, NEW k7, NEW k8, NEW k9,
         k1[2] # "Success", k2[2] # "Success", k3[2] # "Success", k4[2] # "Success",
         k5[2] # "Success", k6[2] # "Success", k7[2] # "Success", k8[2] # "Success", k9[2] # "Success",
         Verdict(<<k1, k2, k3, k4, k5, k6, k7, k8, k9>>) = "Success"
  PROVE  ~k1[1] /\ ~k2[1] /\ ~k3[1] /\ ~k4[1] /\ ~k5[1] /\ ~k6[1] /\ ~k7[1] /\ ~k8[1] /\ ~k9[1]
<1> DEFINE checks == <<k1, k2, k3, k4, k5, k6, k7, k8, k9>>
<1>1. DOMAIN checks = 1 .. 9
  BY SMT
<1>2. /\ checks[1] = k1 /\ checks[2] = k2 /\ checks[3] = k3 /\ checks[4] = k4 /\ checks[5] = k5
      /\ checks[6] = k6 /\ checks[7] = k7 /\ checks[8] = k8 /\ checks[9] = k9
  OBVIOUS
<1> HIDE DEF checks
<1>3. \A i \in DOMAIN checks : checks[i][2] # "Success"
  BY SMT, <1>1, <1>2
<1>4. \A i \in DOMAIN checks : ~checks[i][1]
  BY SMT, <1>1, <1>3, VerdictHolds DEF checks
<1> QED  BY SMT, <1>1, <1>2, <1>4

\* What a handler that succeeds or fails leaves behind.
Keeps(s, t) == Sound(t) /\ DOMAIN t.conn = DOMAIN s.conn

\* A handler with an alike result keeps the server sound.
LEMMA AlikeKeeps ==
  ASSUME NEW s, NEW t, Sound(s), Alike(s, t)
  PROVE  Keeps(s, t)
BY AlikeIsSound DEF Keeps, Alike

\* A handler that fails leaves the server as it was.
LEMMA ConcludeKeeps ==
  ASSUME NEW s, NEW error, NEW t, NEW value, Sound(s),
         error = "Success" => Keeps(s, t)
  PROVE  Keeps(s, Conclude(s, error, t, value).fs)
BY DEF Keeps, Conclude, Answer

\* Reading moves the position of the file.
LEMMA ReadKeeps ==
  ASSUME NEW s, NEW c, NEW r, Sound(s)
  PROVE  Keeps(s, handle_read_file(s, c, r).fs)
<1> DEFINE o == s.open[r.handle]
           owns == Owns(s, c, r.handle)
           n == AtMost(r.count, Length(s, o) - o.position)
           k1 == <<Removed(s), "MediaNotPresent">>
           k2 == <<~owns, "InvalidHandle">>
           k3 == <<owns /\ o.mode = "Write", "InvalidAccess">>
           k4 == <<owns /\ o.mode # "OpenDir" /\ o.path \notin DOMAIN s.files, "NotFound">>
           k5 == <<owns /\ o.position >= Length(s, o), "EndOfFile">>
           error == Verdict(<<k1, k2, k3, k4, k5>>)
           t == [s EXCEPT !.open[r.handle].position = @ + n]
<1>1. handle_read_file(s, c, r) = Conclude(s, error, t, <<n>>)
  BY DEF handle_read_file
<1>2. /\ k1[2] # "Success" /\ k2[2] # "Success" /\ k3[2] # "Success"
      /\ k4[2] # "Success" /\ k5[2] # "Success"
  OBVIOUS
<1>3. ~k2[1] => r.handle \in DOMAIN s.open
  BY DEF Owns
<1> HIDE DEF k1, k2, k3, k4, k5
<1>4. ASSUME error = "Success" PROVE Keeps(s, t)
  <2>1. r.handle \in DOMAIN s.open
    BY SMT, <1>2, <1>3, <1>4, Checks5
  <2>2. PositionStep(s, t)
    BY <2>1 DEF PositionStep, Sound, Shaped, ServerFields
  <2> QED  BY <2>2, PositionsAlike, AlikeKeeps
<1> QED  BY <1>1, <1>4, ConcludeKeeps

\* Writing changes the contents and the position of the file.
LEMMA WriteKeeps ==
  ASSUME NEW s, NEW c, NEW r, Sound(s)
  PROVE  Keeps(s, handle_write_file(s, c, r).fs)
<1> DEFINE o == s.open[r.handle]
           owns == Owns(s, c, r.handle)
           end == o.position + r.count
           k1 == <<Removed(s), "MediaNotPresent">>
           k2 == <<~owns, "InvalidHandle">>
           k3 == <<owns /\ o.mode = "OpenDir", "InvalidHandle">>
           k4 == <<owns /\ o.mode = "Read", "InvalidAccess">>
           k5 == <<owns /\ IsReadOnly(s, o.path), "AccessDenied">>
           k6 == <<owns /\ o.path \notin DOMAIN s.files, "NotFound">>
           error == Verdict(<<k1, k2, k3, k4, k5, k6>>)
           t == [s EXCEPT !.files[o.path].size = IF end > @ THEN end ELSE @,
                          !.open[r.handle].position = end]
<1>1. handle_write_file(s, c, r) = Conclude(s, error, t, <<r.count>>)
  BY DEF handle_write_file
<1>2. /\ k1[2] # "Success" /\ k2[2] # "Success" /\ k3[2] # "Success"
      /\ k4[2] # "Success" /\ k5[2] # "Success" /\ k6[2] # "Success"
  OBVIOUS
<1>3. ~k2[1] => r.handle \in DOMAIN s.open
  BY DEF Owns
<1> HIDE DEF k1, k2, k3, k4, k5, k6
<1>4. ASSUME error = "Success" PROVE Keeps(s, t)
  <2>1. r.handle \in DOMAIN s.open
    BY SMT, <1>2, <1>3, <1>4, Checks6
  <2>2. PositionStep(s, t)
    BY <2>1 DEF PositionStep, Sound, Shaped, ServerFields
  <2> QED  BY <2>2, PositionsAlike, AlikeKeeps
<1> QED  BY <1>1, <1>4, ConcludeKeeps

\* Seeking moves the position of the file.
LEMMA SeekKeeps ==
  ASSUME NEW s, NEW c, NEW r, Sound(s)
  PROVE  Keeps(s, handle_seek_file(s, c, r).fs)
<1> DEFINE o == s.open[r.handle]
           owns == Owns(s, c, r.handle) /\ o.mode # "OpenDir"
           end == Length(s, o)
           target == SeekBase(s, o, r.mode) + r.count
           k1 == <<Removed(s), "MediaNotPresent">>
           k2 == <<~owns, "InvalidHandle">>
           k3 == <<owns /\ target > end /\ o.position = end, "EndOfFile">>
           k4 == <<owns /\ (target < 0 \/ target > end), "InvalidLength">>
           error == Verdict(<<k1, k2, k3, k4>>)
           t == [s EXCEPT !.open[r.handle].position = target]
<1>1. handle_seek_file(s, c, r) = Conclude(s, error, t, <<target>>)
  BY DEF handle_seek_file
<1>2. k1[2] # "Success" /\ k2[2] # "Success" /\ k3[2] # "Success" /\ k4[2] # "Success"
  OBVIOUS
<1>3. ~k2[1] => r.handle \in DOMAIN s.open
  BY DEF Owns
<1> HIDE DEF k1, k2, k3, k4
<1>4. ASSUME error = "Success" PROVE Keeps(s, t)
  <2>1. r.handle \in DOMAIN s.open
    BY <1>2, <1>3, <1>4, Checks4
  <2>2. PositionStep(s, t)
    BY <2>1 DEF PositionStep, Sound, Shaped, ServerFields
  <2> QED  BY <2>2, PositionsAlike, AlikeKeeps
<1> QED  BY <1>1, <1>4, ConcludeKeeps

-----------------------------------------------------------------------------
(* Paths.                                                                  *)

\* The parent of a path is the path without its last name.
LEMMA ParentOfPath ==
  ASSUME NEW p \in Path, p # Root
  PROVE  /\ Parent(p) = SubSeq(p, 1, Len(p) - 1)
         /\ Parent(p) \in Path
         /\ Len(Parent(p)) = Len(p) - 1
<1>1. Len(p) \in Nat \ {0}
  BY EmptySeq DEF Path, Root
<1>2. \A i \in 1 .. Len(p) - 1 : p[i] \in STRING
  BY SMT, <1>1, ElementOfSeq DEF Path
<1> DEFINE n == Len(p) - 1
<1>3. n \in Nat /\ n \in Int /\ 1 \in Int /\ n < Len(p)
  BY SMT, <1>1
<1> HIDE DEF n
<1>4. SubSeq(p, 1, n) \in Seq(STRING)
  BY <1>2, <1>3, SubSeqProperties, Zenon DEF n
<1>5. Len(SubSeq(p, 1, n)) = n
  BY SMT, <1>3 DEF Path
<1> QED  BY <1>1, <1>4, <1>5 DEF Parent, Path, n

\* Names that are resolved are paths.
LEMMA PathsArePaths ==
  ASSUME NEW cwd \in Path, NEW path \in Path
  PROVE  /\ Root \in Path
         /\ Resolve(cwd, path) \in Path
         /\ Parent(path) \in Path
         /\ ChangedDirectory(cwd, path) \in Path
<1>1. Root \in Path
  BY SMT DEF Root, Path
<1>2. Resolve(cwd, path) \in Path
  BY HeadTailProperties, ConcatProperties DEF Resolve, Path
<1>3. ASSUME NEW p \in Path PROVE Parent(p) \in Path
  BY <1>1, ParentOfPath DEF Parent
<1>4. ChangedDirectory(cwd, path) \in Path
  BY <1>2, <1>3 DEF ChangedDirectory
<1> QED  BY <1>1, <1>2, <1>3, <1>4

\* What has a directory as its parent is below it.
LEMMA ChildIsBelow ==
  ASSUME NEW p \in Path, p # Root
  PROVE  IsBelow(p, Parent(p))
<1>1. Len(p) \in Nat \ {0}
  BY EmptySeq DEF Path, Root
<1>2. /\ Len(Parent(p)) = Len(p) - 1
      /\ Parent(p) = SubSeq(p, 1, Len(p) - 1)
  BY ParentOfPath
<1> QED  BY SMT, <1>1, <1>2 DEF IsBelow

-----------------------------------------------------------------------------
(* Directories, attributes, and what removes things.                       *)

\* Changing the directory of a connection.
LEMMA ChangeDirectoryKeeps ==
  ASSUME NEW s, NEW c, NEW r, Sound(s), c \in DOMAIN s.conn, r.path \in Path
  PROVE  Keeps(s, handle_change_directory(s, c, r).fs)
<1> DEFINE target == ChangedDirectory(s.conn[c].cwd, r.path)
           t == [s EXCEPT !.conn[c].cwd = target]
<1>1. target \in Path
  BY PathsArePaths DEF Sound, Shaped
<1>2. /\ DOMAIN t = ServerFields
      /\ t.files = s.files /\ t.dirs = s.dirs /\ t.next = s.next /\ t.open = s.open
      /\ t.volume = s.volume
      /\ t.conn = [s.conn EXCEPT ![c] = [s.conn[c] EXCEPT !.cwd = target]]
  BY DEF Sound, Shaped, ServerFields
<1> HIDE DEF t, target
<1>3. \A d \in DOMAIN s.conn :
        /\ DOMAIN t.conn[d] = ConnectionFields
        /\ t.conn[d].handles = s.conn[d].handles /\ t.conn[d].cwd \in Path
  BY SMT, <1>1, <1>2 DEF Sound, Shaped, ConnectionFields
<1>4. Alike(s, t)
  BY <1>2, <1>3 DEF Alike, Sound, Shaped, Accounted, Removed
<1>5. Keeps(s, t)
  BY <1>4, AlikeKeeps
<1> QED  BY <1>5, ConcludeKeeps DEF handle_change_directory, t, target

\* Setting attributes.
LEMMA SetAttributesKeeps ==
  ASSUME NEW s, NEW c, NEW r, Sound(s)
  PROVE  Keeps(s, handle_set_file_attributes(s, c, r).fs)
<1> DEFINE path == Resolve(s.conn[c].cwd, r.path)
           t == [s EXCEPT !.files[path].readOnly = "ReadOnly" \in r.flags]
<1>1. /\ DOMAIN t = ServerFields /\ DOMAIN t.files = DOMAIN s.files
      /\ \A f \in ServerFields \ {"files"} : t[f] = s[f]
  BY DEF Sound, Shaped, ServerFields
<1> HIDE DEF t
<1>2. Alike(s, t)
  BY <1>1 DEF Alike, Sound, Shaped, Accounted, Removed, ServerFields
<1>3. Keeps(s, t)
  BY <1>2, AlikeKeeps
<1> QED  BY <1>3, ConcludeKeeps DEF handle_set_file_attributes, t

\* Initializing the volume: refused while a file is open, and then all
\* that is left is the root.
LEMMA InitializeKeeps ==
  ASSUME NEW s, NEW c, NEW r, Sound(s)
  PROVE  Keeps(s, handle_initialize_volume(s, c, r).fs)
<1> DEFINE u == [s EXCEPT !.files = << >>, !.dirs = {Root}]
           t == clear_media_dependent_client_state(u)
<1>1. /\ DOMAIN t = ServerFields
      /\ DOMAIN t.files = {} /\ t.dirs = {Root} /\ t.next = s.next /\ DOMAIN t.open = {}
      /\ t.volume = s.volume
      /\ t.conn = [d \in DOMAIN s.conn |-> [s.conn[d] EXCEPT !.handles = {}, !.cwd = Root]]
  BY SMT DEF Sound, Shaped, ServerFields, clear_media_dependent_client_state
<1>2. Root \in Path
  BY SMT DEF Root, Path
<1> HIDE DEF t
<1>3. ASSUME NEW d \in DOMAIN s.conn
      PROVE  /\ DOMAIN t.conn[d] = ConnectionFields
             /\ t.conn[d].handles = {} /\ t.conn[d].cwd = Root
  <2>1. DOMAIN s.conn[d] = ConnectionFields
    BY DEF Sound, Shaped
  <2>2. t.conn[d] = [s.conn[d] EXCEPT !.handles = {}, !.cwd = Root]
    BY <1>1
  <2> QED  BY <2>1, <2>2 DEF ConnectionFields
<1>4. Shaped(t)
  BY <1>1, <1>2, <1>3 DEF Sound, Shaped
<1>5. Accounted(t)
  <2>1. Cardinality({}) <= MaxOpenPerClient /\ Cardinality({}) <= MaxOpenTotal
    BY SMT, FS_EmptySet, ServerAssumption
  <2>2. ASSUME NEW d \in DOMAIN t.conn
        PROVE  /\ t.conn[d].handles = {h \in DOMAIN t.open : t.open[h].owner = d}
               /\ Cardinality(t.conn[d].handles) <= MaxOpenPerClient
    <3>1. t.conn[d].handles = {}
      BY <1>1, <1>3
    <3> QED  BY <1>1, <2>1, <3>1
  <2> QED  BY <1>1, <2>1, <2>2 DEF Accounted
<1>6. Single(t) /\ Whole(t)
  BY <1>1 DEF Single, Whole, Parent
<1>7. Keeps(s, t)
  BY <1>1, <1>4, <1>5, <1>6 DEF Keeps, Sound
<1> QED  BY <1>7, ConcludeKeeps DEF handle_initialize_volume, t

\* Closing takes the handle from the table and from its owner.
LEMMA CloseKeeps ==
  ASSUME NEW s, NEW c, NEW r, Sound(s), c \in DOMAIN s.conn
  PROVE  Keeps(s, handle_close_file(s, c, r).fs)
<1> DEFINE k == r.handle
           t == [s EXCEPT !.open = Without(@, {k}), !.conn[c].handles = @ \ {k}]
           error == IF Owns(s, c, k) THEN "Success" ELSE "InvalidHandle"
<1>1. ASSUME error = "Success" PROVE Keeps(s, t)
  <2>1. k \in DOMAIN s.open /\ s.open[k].owner = c
    BY <1>1 DEF Owns
  <2>2. /\ DOMAIN t = ServerFields
        /\ t.files = s.files /\ t.dirs = s.dirs /\ t.next = s.next /\ t.volume = s.volume
        /\ t.open = [h \in DOMAIN s.open \ {k} |-> s.open[h]]
        /\ t.conn = [s.conn EXCEPT ![c] = [s.conn[c] EXCEPT !.handles = @ \ {k}]]
    BY DEF Sound, Shaped, ServerFields, Without
  <2> HIDE DEF t
  <2>3. ASSUME NEW d \in DOMAIN s.conn
        PROVE  /\ DOMAIN t.conn[d] = ConnectionFields /\ t.conn[d].cwd = s.conn[d].cwd
               /\ t.conn[d].handles = s.conn[d].handles \ {k}
    <3>1. DOMAIN s.conn[d] = ConnectionFields
      BY DEF Sound, Shaped
    <3>2. s.conn[d].handles = {h \in DOMAIN s.open : s.open[h].owner = d}
      BY DEF Sound, Accounted
    <3>3. d # c => k \notin s.conn[d].handles
      BY <2>1, <3>2
    <3>4. t.conn[d] = IF d = c THEN [s.conn[d] EXCEPT !.handles = @ \ {k}] ELSE s.conn[d]
      BY <2>2
    <3> QED  BY <3>1, <3>3, <3>4 DEF ConnectionFields
  <2>4. DOMAIN t.conn = DOMAIN s.conn /\ DOMAIN t.open = DOMAIN s.open \ {k}
    BY <2>2
  <2>5. \A h \in DOMAIN t.open : t.open[h] = s.open[h] /\ t.open[h].owner \in DOMAIN t.conn
    BY <2>2, <2>4 DEF Sound, Accounted
  <2>6. \A d \in DOMAIN t.conn : t.conn[d].handles = s.conn[d].handles \cap DOMAIN t.open
    BY SMT, <2>3, <2>4 DEF Sound, Accounted
  <2>7. Removed(t) => DOMAIN t.open = {}
    BY <2>2, <2>4 DEF Sound, Accounted, Removed
  <2>8. Reduced(s, t)
    BY <2>2, <2>3, <2>4, <2>5, <2>6, <2>7 DEF Reduced, Sound, Shaped
  <2> QED  BY <2>4, <2>8, ReducedIsSound DEF Keeps
<1> QED  BY <1>1, ConcludeKeeps DEF handle_close_file

\* Moving: refused while the file is open, and the target has a parent.
LEMMA MoveKeeps ==
  ASSUME NEW s, NEW c, NEW r, Sound(s), c \in DOMAIN s.conn, r.path \in Path, r.to \in Path
  PROVE  Keeps(s, handle_move_file(s, c, r).fs)
<1> DEFINE from == Resolve(s.conn[c].cwd, r.path)
           to == Resolve(s.conn[c].cwd, r.to)
           k1 == <<Removed(s), "MediaNotPresent">>
           k2 == <<from = to, "InvalidDestName">>
           k3 == <<from \in s.dirs, "InvalidAccess">>
           k4 == <<is_path_open(s, from) \/ is_path_open(s, to), "AccessDenied">>
           k5 == <<to \in DOMAIN s.files \cup s.dirs, "AccessDenied">>
           k6 == <<Parent(to) \in DOMAIN s.files, "InvalidAccess">>
           k7 == <<Parent(to) \notin s.dirs, "InvalidDestName">>
           k8 == <<IsReadOnly(s, from), "AccessDenied">>
           k9 == <<from \notin DOMAIN s.files, "NotFound">>
           error == Verdict(<<k1, k2, k3, k4, k5, k6, k7, k8, k9>>)
           t == [s EXCEPT !.files = With(Without(@, {from}), to, @[from])]
<1>1. handle_move_file(s, c, r) = Conclude(s, error, t, << >>)
  BY DEF handle_move_file
<1>2. /\ k1[2] # "Success" /\ k2[2] # "Success" /\ k3[2] # "Success" /\ k4[2] # "Success"
      /\ k5[2] # "Success" /\ k6[2] # "Success" /\ k7[2] # "Success" /\ k8[2] # "Success"
      /\ k9[2] # "Success"
  OBVIOUS
<1>3. /\ ~k4[1] => ~is_path_open(s, from)
      /\ ~k5[1] => to \notin s.dirs
      /\ ~k7[1] => Parent(to) \in s.dirs
  OBVIOUS
<1>4. to \in Path
  BY PathsArePaths DEF Sound, Shaped
<1> HIDE DEF k1, k2, k3, k4, k5, k6, k7, k8, k9, from, to
<1>5. ASSUME error = "Success" PROVE Keeps(s, t)
  <2>1. ~is_path_open(s, from) /\ to \notin s.dirs /\ Parent(to) \in s.dirs
    BY SMT, <1>2, <1>3, <1>5, Checks9
  <2>2. /\ DOMAIN t = ServerFields
        /\ \A f \in ServerFields \ {"files"} : t[f] = s[f]
        /\ DOMAIN t.files = (DOMAIN s.files \ {from}) \cup {to}
    BY DEF Sound, Shaped, ServerFields, With, Without
  <2> HIDE DEF t
  <2>3. /\ t.dirs = s.dirs /\ t.open = s.open /\ t.conn = s.conn /\ t.next = s.next
        /\ t.volume = s.volume
    BY <2>2 DEF ServerFields
  <2>4. Shaped(t)
    BY <1>4, <2>2, <2>3 DEF Sound, Shaped
  <2>5. Single(t) /\ Accounted(t)
    BY SMT, <2>3 DEF Sound, Single, Accounted, Removed
  <2>6. Whole(t)
    BY <2>1, <2>2, <2>3 DEF Sound, Whole, is_path_open
  <2> QED  BY <2>3, <2>4, <2>5, <2>6 DEF Keeps, Sound
<1> QED  BY <1>1, <1>5, ConcludeKeeps

\* Deleting: refused while the file is open or the directory has children.
LEMMA DeleteKeeps ==
  ASSUME NEW s, NEW c, NEW r, Sound(s), c \in DOMAIN s.conn
  PROVE  Keeps(s, handle_delete_file(s, c, r).fs)
<1> DEFINE path == Resolve(s.conn[c].cwd, r.path)
           directory == path \in s.dirs
           inside == {p \in DOMAIN s.files \cup s.dirs : IsBelow(p, path)}
           k1 == <<Removed(s), "MediaNotPresent">>
           k2 == <<directory /\ (path = Root \/ inside # {}), "AccessDenied">>
           k3 == <<~directory /\ is_path_open(s, path), "AccessDenied">>
           k4 == <<IsReadOnly(s, path), "AccessDenied">>
           k5 == <<~directory /\ path \notin DOMAIN s.files, "NotFound">>
           error == Verdict(<<k1, k2, k3, k4, k5>>)
           t == [s EXCEPT !.dirs = @ \ {path},
                          !.files = IF directory THEN @ ELSE Without(@, {path})]
<1>1. handle_delete_file(s, c, r) = Conclude(s, error, t, << >>)
  BY DEF handle_delete_file
<1>2. /\ k1[2] # "Success" /\ k2[2] # "Success" /\ k3[2] # "Success" /\ k4[2] # "Success"
      /\ k5[2] # "Success"
  OBVIOUS
<1>3. /\ ~k2[1] => (directory => path # Root /\ inside = {})
      /\ ~k3[1] => (directory \/ ~is_path_open(s, path))
  OBVIOUS
<1> HIDE DEF k1, k2, k3, k4, k5, path
<1>4. ASSUME error = "Success" PROVE Keeps(s, t)
  <2>1. /\ directory => path # Root /\ inside = {}
        /\ directory \/ ~is_path_open(s, path)
    BY SMT, <1>2, <1>3, <1>4, Checks5
  <2>2. /\ DOMAIN t = ServerFields
        /\ \A f \in ServerFields \ {"files", "dirs"} : t[f] = s[f]
        /\ t.dirs = s.dirs \ {path}
        /\ DOMAIN t.files = IF directory THEN DOMAIN s.files ELSE DOMAIN s.files \ {path}
    BY DEF Sound, Shaped, ServerFields, Without
  <2> HIDE DEF t
  <2>3. /\ t.open = s.open /\ t.conn = s.conn /\ t.next = s.next /\ t.volume = s.volume
    BY <2>2 DEF ServerFields
  <2>4. Shaped(t)
    BY <2>2, <2>3 DEF Sound, Shaped
  <2>5. Single(t) /\ Accounted(t)
    BY SMT, <2>3 DEF Sound, Single, Accounted, Removed
  <2>6. Whole(t)
    <3>1. CASE directory
      <4>1. \A p \in DOMAIN s.files \cup s.dirs : Parent(p) # path
        <5> SUFFICES ASSUME NEW p \in DOMAIN s.files \cup s.dirs, Parent(p) = path
                     PROVE  FALSE
          OBVIOUS
        <5>1. p # Root
          BY <2>1, <3>1 DEF Parent
        <5>2. p \in Path
          BY DEF Sound, Shaped
        <5> QED  BY <2>1, <3>1, <5>1, <5>2, ChildIsBelow
      <4> QED  BY SMT, <2>1, <2>2, <2>3, <3>1, <4>1 DEF Sound, Whole
    <3>2. CASE ~directory
      BY SMT, <2>1, <2>2, <2>3, <3>2 DEF Sound, Whole, is_path_open
    <3> QED  BY <3>1, <3>2
  <2> QED  BY <2>3, <2>4, <2>5, <2>6 DEF Keeps, Sound
<1> QED  BY <1>1, <1>4, ConcludeKeeps

\* A verdict of success over two lists of checks.
LEMMA BothChecked ==
  ASSUME NEW S, NEW a \in Seq(S), NEW b \in Seq(S), \A k \in S : k[2] # "Success",
         Verdict(a \o b) = "Success"
  PROVE  (\A i \in 1 .. Len(a) : ~a[i][1]) /\ (\A i \in 1 .. Len(b) : ~b[i][1])
<1> DEFINE ab == a \o b
<1>1. ab \in Seq(S) /\ Len(ab) = Len(a) + Len(b)
  BY ConcatProperties
<1>2. \A i \in 1 .. Len(a) + Len(b) : ab[i] = IF i <= Len(a) THEN a[i] ELSE b[i - Len(a)]
  BY ConcatProperties
<1> HIDE DEF ab
<1>3. DOMAIN ab = 1 .. Len(a) + Len(b) /\ Len(a) \in Nat /\ Len(b) \in Nat
  BY SMT, <1>1
<1>4. \A i \in DOMAIN ab : ab[i][2] # "Success"
  BY SMT, <1>1
<1>5. \A i \in DOMAIN ab : ~ab[i][1]
  <2>1. Verdict(ab) = "Success"
    BY DEF ab
  <2>2. DOMAIN ab \subseteq Nat
    BY SMT, <1>3
  <2> QED  BY <1>4, <2>1, <2>2, VerdictHolds
<1>6. ASSUME NEW i \in 1 .. Len(a) PROVE ~a[i][1]
  <2>1. i \in 1 .. Len(a) + Len(b) /\ i <= Len(a)
    BY SMT, <1>3
  <2>2. ab[i] = a[i]
    BY <1>2, <2>1
  <2> QED  BY <1>3, <1>5, <2>1, <2>2, Zenon
<1>7. ASSUME NEW i \in 1 .. Len(b) PROVE ~b[i][1]
  <2> DEFINE j == i + Len(a)
  <2>1. j \in 1 .. Len(a) + Len(b) /\ ~(j <= Len(a)) /\ j - Len(a) = i
    BY SMT, <1>3
  <2> HIDE DEF j
  <2>2. ab[j] = b[j - Len(a)]
    BY <1>2, <2>1, Zenon
  <2> QED  BY <1>3, <1>5, <2>1, <2>2, Zenon
<1> QED  BY <1>6, <1>7

\* The same for five checks and three more.
LEMMA Checks5And3 ==
  ASSUME NEW k1, NEW k2, NEW k3, NEW k4, NEW k5,
         NEW m1, NEW m2, NEW m3,
         k1[2] # "Success", k2[2] # "Success", k3[2] # "Success", k4[2] # "Success",
         k5[2] # "Success", m1[2] # "Success", m2[2] # "Success", m3[2] # "Success",
         Verdict(<<k1, k2, k3, k4, k5>> \o <<m1, m2, m3>>) = "Success"
  PROVE  /\ ~k1[1] /\ ~k2[1] /\ ~k3[1] /\ ~k4[1] /\ ~k5[1]
         /\ ~m1[1] /\ ~m2[1] /\ ~m3[1]
<1> DEFINE S == {k1, k2, k3, k4, k5, m1, m2, m3}
           a == <<k1, k2, k3, k4, k5>>
           b == <<m1, m2, m3>>
<1>1. \A k \in S : k[2] # "Success"
  OBVIOUS
<1>2. a \in Seq(S) /\ b \in Seq(S) /\ Len(a) = 5 /\ Len(b) = 3
  BY SMT
<1>3. /\ a[1] = k1 /\ a[2] = k2 /\ a[3] = k3 /\ a[4] = k4 /\ a[5] = k5
      /\ b[1] = m1 /\ b[2] = m2 /\ b[3] = m3
  OBVIOUS
<1>4. Verdict(a \o b) = "Success"
  OBVIOUS
<1> HIDE DEF S, a, b
<1>5. (\A i \in 1 .. 5 : ~a[i][1]) /\ (\A i \in 1 .. 3 : ~b[i][1])
  BY <1>1, <1>2, <1>4, BothChecked
<1> QED  BY SMT, <1>3, <1>5

\* A table with room has a free handle, which is the one that is allocated.
LEMMA AllocatesFree ==
  ASSUME NEW s, Sound(s), Cardinality(DOMAIN s.open) < MaxOpenTotal
  PROVE  allocate_handle(s) \in Handle \ DOMAIN s.open
<1> DEFINE free == Handle \ DOMAIN s.open
           distance(h) == (h - s.next) % MaxHandle
           D == {distance(h) : h \in free}
<1>1. DOMAIN s.open \subseteq Handle /\ s.next \in Handle
  BY DEF Sound, Shaped
<1>2. IsFiniteSet(Handle) /\ Cardinality(Handle) = MaxHandle
  BY SMT, FS_Interval, ServerAssumption DEF Handle
<1>3. free # {}
  <2> SUFFICES ASSUME DOMAIN s.open = Handle PROVE FALSE
    BY <1>1
  <2> QED  BY SMT, <1>2, ServerAssumption
<1>4. \A h \in free : distance(h) \in Nat
  BY SMT, <1>1, ServerAssumption DEF Handle
<1>5. PICK n \in D : \A m \in D : n <= m
  BY <1>3, <1>4, Least
<1>6. \E h \in free : \A g \in free : distance(h) <= distance(g)
  BY <1>5
<1> QED  BY <1>6, Zenon DEF allocate_handle

\* A new handle, once the limits and the conflicts have been checked.
LEMMA OpenedKeeps ==
  ASSUME NEW s, NEW c, NEW path, NEW r, Sound(s), c \in DOMAIN s.conn, ~Removed(s),
         Cardinality(s.conn[c].handles) < MaxOpenPerClient,
         Cardinality(DOMAIN s.open) < MaxOpenTotal,
         r.mode # "OpenDir" => path \in DOMAIN s.files,
         r.mode # "OpenDir" => ~open_file_access_conflicts(s, path, r)
  PROVE  Keeps(s, Opened(s, c, path, r))
<1> DEFINE k == allocate_handle(s)
           e == [owner |-> c, path |-> path, mode |-> r.mode, flags |-> r.flags,
                 position |-> IF r.mode # "OpenDir" /\ "Append" \in r.flags
                              THEN s.files[path].size ELSE 0]
           t == Opened(s, c, path, r)
<1>1. k \in Handle /\ k \notin DOMAIN s.open
  BY AllocatesFree
<1>2. /\ DOMAIN e = OpenFields /\ e.owner = c /\ e.path = path /\ e.mode = r.mode
      /\ e.flags = r.flags
  BY DEF OpenFields
<1>3. t = [s EXCEPT !.open = With(@, k, e), !.next = (k % MaxHandle) + 1,
                    !.conn[c].handles = @ \cup {k}]
  BY DEF Opened
<1> HIDE DEF k, e, t
<1>4. /\ DOMAIN t = ServerFields
      /\ t.files = s.files /\ t.dirs = s.dirs /\ t.volume = s.volume
      /\ t.next = (k % MaxHandle) + 1
      /\ t.open = [h \in DOMAIN s.open \cup {k} |-> IF h = k THEN e ELSE s.open[h]]
      /\ t.conn = [s.conn EXCEPT ![c] = [s.conn[c] EXCEPT !.handles = @ \cup {k}]]
  BY <1>3 DEF Sound, Shaped, ServerFields, With
<1>5. t.next \in Handle
  BY SMT, <1>1, <1>4, ServerAssumption DEF Handle
<1>6. /\ DOMAIN t.open = DOMAIN s.open \cup {k} /\ t.open[k] = e
      /\ \A h \in DOMAIN s.open : t.open[h] = s.open[h]
  BY <1>1, <1>4
<1>7. DOMAIN t.conn = DOMAIN s.conn
  BY <1>4
<1>8. ASSUME NEW d \in DOMAIN s.conn
      PROVE  /\ DOMAIN t.conn[d] = ConnectionFields /\ t.conn[d].cwd = s.conn[d].cwd
             /\ t.conn[d].handles = IF d = c THEN s.conn[d].handles \cup {k}
                                    ELSE s.conn[d].handles
  <2>1. DOMAIN s.conn[d] = ConnectionFields
    BY DEF Sound, Shaped
  <2>2. t.conn[d] = IF d = c THEN [s.conn[d] EXCEPT !.handles = @ \cup {k}] ELSE s.conn[d]
    BY <1>4
  <2> QED  BY <2>1, <2>2 DEF ConnectionFields
<1>9. Shaped(t)
  BY SMT, <1>1, <1>2, <1>4, <1>5, <1>6, <1>7, <1>8 DEF Sound, Shaped
<1>10. Single(t)
  <2> SUFFICES ASSUME NEW g \in DOMAIN t.open, NEW h \in DOMAIN t.open, g # h,
                      t.open[g].path = t.open[h].path,
                      t.open[g].mode # "OpenDir", t.open[h].mode # "OpenDir"
               PROVE  ~open_mode_writes(t.open[g])
    BY DEF Single
  <2>1. CASE g # k /\ h # k
    BY <1>6, <2>1 DEF Sound, Single
  <2>2. CASE g = k /\ h # k
    BY <1>2, <1>6, <2>2 DEF open_file_access_conflicts, open_mode_writes
  <2>3. CASE g # k /\ h = k
    BY <1>2, <1>6, <2>3 DEF open_file_access_conflicts, open_mode_writes
  <2> QED  BY <2>1, <2>2, <2>3
<1>11. Whole(t)
  BY SMT, <1>2, <1>4, <1>6 DEF Sound, Whole
<1>12. IsFiniteSet(DOMAIN s.open)
  <2>1. IsFiniteSet(Handle)
    BY SMT, FS_Interval, ServerAssumption DEF Handle
  <2> QED  BY <2>1, FS_Subset DEF Sound, Shaped
<1>13. Cardinality(DOMAIN t.open) <= MaxOpenTotal
  <2>1. Cardinality(DOMAIN t.open) = Cardinality(DOMAIN s.open) + 1
    BY <1>1, <1>6, <1>12, FS_AddElement
  <2>2. Cardinality(DOMAIN s.open) \in Nat
    BY <1>12, FS_CardinalityType
  <2> QED  BY SMT, <2>1, <2>2, ServerAssumption
<1>14. ASSUME NEW d \in DOMAIN s.conn
       PROVE  /\ t.conn[d].handles = {h \in DOMAIN t.open : t.open[h].owner = d}
              /\ Cardinality(t.conn[d].handles) <= MaxOpenPerClient
  <2>1. /\ s.conn[d].handles = {h \in DOMAIN s.open : s.open[h].owner = d}
        /\ Cardinality(s.conn[d].handles) <= MaxOpenPerClient
    BY DEF Sound, Accounted
  <2>2. t.conn[d].handles = {h \in DOMAIN t.open : t.open[h].owner = d}
    <3>1. ASSUME NEW h
          PROVE  h \in t.conn[d].handles <=> h \in DOMAIN t.open /\ t.open[h].owner = d
      <4>1. CASE h = k
        <5>1. h \notin s.conn[d].handles
          BY <1>1, <2>1, <4>1
        <5> QED  BY <1>2, <1>6, <1>8, <4>1, <5>1
      <4>2. CASE h # k
        <5>1. h \in t.conn[d].handles <=> h \in s.conn[d].handles
          BY <1>8, <4>2
        <5>2. h \in DOMAIN t.open <=> h \in DOMAIN s.open
          BY <1>6, <4>2
        <5>3. h \in DOMAIN s.open => t.open[h] = s.open[h]
          BY <1>6
        <5> QED  BY <2>1, <5>1, <5>2, <5>3
      <4> QED  BY <4>1, <4>2
    <3> QED  BY <3>1
  <2>3. IsFiniteSet(s.conn[d].handles) /\ k \notin s.conn[d].handles
    <3>1. s.conn[d].handles \subseteq DOMAIN s.open
      BY <2>1
    <3> QED  BY <1>1, <1>12, <3>1, FS_Subset
  <2>4. CASE d = c
    <3>1. Cardinality(t.conn[d].handles) = Cardinality(s.conn[d].handles) + 1
      <4>1. t.conn[d].handles = s.conn[d].handles \cup {k}
        BY <1>8, <2>4
      <4> QED  BY <2>3, <4>1, FS_AddElement
    <3>2. Cardinality(s.conn[d].handles) \in Nat
      BY <2>3, FS_CardinalityType
    <3> QED  BY SMT, <2>2, <2>4, <3>1, <3>2, ServerAssumption
  <2>5. CASE d # c
    BY <1>8, <2>1, <2>2, <2>5
  <2> QED  BY <2>4, <2>5
<1>15. Accounted(t)
  BY <1>2, <1>4, <1>6, <1>7, <1>13, <1>14 DEF Sound, Accounted, Removed
<1> QED  BY <1>7, <1>9, <1>10, <1>11, <1>15 DEF t, Keeps, Sound

\* The handles of a sound server are finitely many.
LEMMA HandlesAreCounted ==
  ASSUME NEW s, Sound(s)
  PROVE  /\ Cardinality(DOMAIN s.open) \in Nat
         /\ \A c \in DOMAIN s.conn : Cardinality(s.conn[c].handles) \in Nat
<1>1. IsFiniteSet(Handle)
  BY SMT, FS_Interval, ServerAssumption DEF Handle
<1>2. IsFiniteSet(DOMAIN s.open)
  BY <1>1, FS_Subset DEF Sound, Shaped
<1>3. ASSUME NEW c \in DOMAIN s.conn PROVE Cardinality(s.conn[c].handles) \in Nat
  <2>1. s.conn[c].handles \subseteq DOMAIN s.open
    BY DEF Sound, Accounted
  <2>2. IsFiniteSet(s.conn[c].handles)
    BY <1>2, <2>1, FS_Subset
  <2> QED  BY <2>2, FS_CardinalityType
<1> QED  BY <1>2, <1>3, FS_CardinalityType

\* What an open creates has its parent and no name twice.
LEMMA CreatedIsSound ==
  ASSUME NEW s, NEW path \in Path, NEW r, Sound(s),
         r.mode = "OpenDir" =>
           path \in s.dirs \/ (path \notin DOMAIN s.files /\ Parent(path) \in s.dirs),
         r.mode # "OpenDir" =>
           path \notin s.dirs /\ (path \in DOMAIN s.files \/ Parent(path) \in s.dirs)
  PROVE  /\ Keeps(s, Created(s, path, r))
         /\ Created(s, path, r).open = s.open /\ Created(s, path, r).conn = s.conn
         /\ Created(s, path, r).volume = s.volume
         /\ r.mode # "OpenDir" => path \in DOMAIN Created(s, path, r).files
<1> DEFINE u == Created(s, path, r)
<1>1. /\ DOMAIN u = ServerFields
      /\ \A f \in ServerFields \ {"files", "dirs"} : u[f] = s[f]
      /\ u.dirs = IF r.mode = "OpenDir" THEN s.dirs \cup {path} ELSE s.dirs
      /\ DOMAIN u.files = IF r.mode = "OpenDir" THEN DOMAIN s.files
                          ELSE DOMAIN s.files \cup {path}
  <2>1. CASE r.mode = "OpenDir"
    BY <2>1 DEF Created, Sound, Shaped, ServerFields
  <2>2. CASE r.mode # "OpenDir" /\ path \in DOMAIN s.files
    BY <2>2 DEF Created, Sound, Shaped, ServerFields
  <2>3. CASE r.mode # "OpenDir" /\ path \notin DOMAIN s.files
    BY <2>3 DEF Created, Sound, Shaped, ServerFields, With
  <2> QED  BY <2>1, <2>2, <2>3
<1> HIDE DEF u
<1>2. /\ u.open = s.open /\ u.conn = s.conn /\ u.next = s.next /\ u.volume = s.volume
  BY <1>1 DEF ServerFields
<1>3. Shaped(u)
  BY <1>1, <1>2 DEF Sound, Shaped
<1>4. Single(u) /\ Accounted(u)
  BY SMT, <1>2 DEF Sound, Single, Accounted, Removed
<1>5. Whole(u)
  BY SMT, <1>1, <1>2 DEF Sound, Whole
<1>6. r.mode # "OpenDir" => path \in DOMAIN u.files
  BY <1>1
<1>7. Keeps(s, u)
  BY <1>2, <1>3, <1>4, <1>5 DEF Keeps, Sound
<1> QED  BY <1>2, <1>6, <1>7 DEF u

\* Opening, creating included.
LEMMA OpenKeeps ==
  ASSUME NEW s, NEW c, NEW r, Sound(s), c \in DOMAIN s.conn, r.path \in Path
  PROVE  Keeps(s, handle_open_file(s, c, r).fs)
<1> DEFINE path == Resolve(s.conn[c].cwd, r.path)
           k1 == <<Removed(s), "MediaNotPresent">>
           k2 == <<"Append" \in r.flags /\ r.mode \in {"Read", "OpenDir"}, "InvalidAccess">>
           k3 == <<r.mode # "OpenDir" /\ path = Root, "InvalidSourceName">>
           k4 == <<Cardinality(s.conn[c].handles) >= MaxOpenPerClient, "TooManyOpen">>
           k5 == <<Cardinality(DOMAIN s.open) >= MaxOpenTotal, "TooManyOpen">>
           missing == path \notin s.dirs
           exists == path \in DOMAIN s.files
           m1 == <<missing /\ path \in DOMAIN s.files, "InvalidAccess">>
           m2 == <<missing /\ "Create" \notin r.flags, "NotFound">>
           m3 == <<missing /\ Parent(path) \notin s.dirs, "NotFound">>
           n1 == <<path \in s.dirs, "InvalidAccess">>
           n2 == <<exists /\ {"Create", "Exclusive"} \subseteq r.flags, "AccessDenied">>
           n3 == <<exists /\ open_file_access_conflicts(s, path, r), "AccessDenied">>
           n4 == <<~exists /\ "Create" \notin r.flags, "NotFound">>
           n5 == <<~exists /\ Parent(path) \in DOMAIN s.files, "InvalidAccess">>
           n6 == <<~exists /\ Parent(path) \notin s.dirs, "NotFound">>
           error == Verdict(OpenChecks(s, c, path, r))
           u == Created(s, path, r)
           t == Opened(u, c, path, r)
<1>1. handle_open_file(s, c, r) = Conclude(s, error, t, <<allocate_handle(s)>>)
  BY DEF handle_open_file
<1>2. /\ r.mode = "OpenDir" => error = Verdict(<<k1, k2, k3, k4, k5>> \o <<m1, m2, m3>>)
      /\ r.mode # "OpenDir" =>
           error = Verdict(<<k1, k2, k3, k4, k5>> \o <<n1, n2, n3, n4, n5, n6>>)
  BY DEF OpenChecks, OpenDirectoryChecks, OpenFileChecks
<1>3. /\ k1[2] # "Success" /\ k2[2] # "Success" /\ k3[2] # "Success" /\ k4[2] # "Success"
      /\ k5[2] # "Success" /\ m1[2] # "Success" /\ m2[2] # "Success" /\ m3[2] # "Success"
      /\ n1[2] # "Success" /\ n2[2] # "Success" /\ n3[2] # "Success" /\ n4[2] # "Success"
      /\ n5[2] # "Success" /\ n6[2] # "Success"
  OBVIOUS
<1>4. /\ ~k1[1] => ~Removed(s)
      /\ ~k4[1] => ~(Cardinality(s.conn[c].handles) >= MaxOpenPerClient)
      /\ ~k5[1] => ~(Cardinality(DOMAIN s.open) >= MaxOpenTotal)
      /\ ~m1[1] /\ ~m3[1] =>
           path \in s.dirs \/ (path \notin DOMAIN s.files /\ Parent(path) \in s.dirs)
      /\ ~n1[1] /\ ~n6[1] =>
           path \notin s.dirs /\ (path \in DOMAIN s.files \/ Parent(path) \in s.dirs)
      /\ ~n3[1] => path \notin DOMAIN s.files \/ ~open_file_access_conflicts(s, path, r)
  OBVIOUS
<1>5. path \in Path
  BY PathsArePaths DEF Sound, Shaped
<1> HIDE DEF k1, k2, k3, k4, k5, m1, m2, m3, n1, n2, n3, n4, n5, n6, path, error
<1>6. ASSUME error = "Success" PROVE Keeps(s, t)
  <2>1. /\ ~k1[1] /\ ~k4[1] /\ ~k5[1]
        /\ r.mode = "OpenDir" => ~m1[1] /\ ~m3[1]
        /\ r.mode # "OpenDir" => ~n1[1] /\ ~n3[1] /\ ~n6[1]
    <3>1. CASE r.mode = "OpenDir"
      BY SMT, <1>2, <1>3, <1>6, <3>1, Checks5And3
    <3>2. CASE r.mode # "OpenDir"
      <4>1. Verdict(<<k1, k2, k3, k4, k5>> \o <<n1, n2, n3, n4, n5, n6>>) = "Success"
        BY <1>2, <1>6, <3>2
      <4> DEFINE S == {k1, k2, k3, k4, k5, n1, n2, n3, n4, n5, n6}
                 a == <<k1, k2, k3, k4, k5>>
                 b == <<n1, n2, n3, n4, n5, n6>>
      <4>2. \A k \in S : k[2] # "Success"
        BY <1>3
      <4>3. a \in Seq(S) /\ b \in Seq(S) /\ Len(a) = 5 /\ Len(b) = 6
        BY SMT
      <4>4. /\ a[1] = k1 /\ a[4] = k4 /\ a[5] = k5
            /\ b[1] = n1 /\ b[3] = n3 /\ b[6] = n6
        OBVIOUS
      <4>5. Verdict(a \o b) = "Success"
        BY <4>1
      <4> HIDE DEF S, a, b
      <4>6. (\A i \in 1 .. 5 : ~a[i][1]) /\ (\A i \in 1 .. 6 : ~b[i][1])
        BY <4>2, <4>3, <4>5, BothChecked
      <4> QED  BY SMT, <3>2, <4>4, <4>6
    <3> QED  BY <3>1, <3>2
  <2>2. /\ ~Removed(s)
        /\ Cardinality(s.conn[c].handles) < MaxOpenPerClient
        /\ Cardinality(DOMAIN s.open) < MaxOpenTotal
    BY SMT, <1>4, <2>1, HandlesAreCounted, ServerAssumption
  <2>3. /\ r.mode = "OpenDir" =>
             path \in s.dirs \/ (path \notin DOMAIN s.files /\ Parent(path) \in s.dirs)
        /\ r.mode # "OpenDir" =>
             path \notin s.dirs /\ (path \in DOMAIN s.files \/ Parent(path) \in s.dirs)
    BY <1>4, <2>1
  <2>4. /\ Keeps(s, u) /\ u.open = s.open /\ u.conn = s.conn /\ u.volume = s.volume
        /\ r.mode # "OpenDir" => path \in DOMAIN u.files
    BY SMT, <1>5, <2>3, CreatedIsSound
  <2> HIDE DEF u
  <2>5. r.mode # "OpenDir" => ~open_file_access_conflicts(s, path, r)
    <3>1. path \notin DOMAIN s.files => ~open_file_access_conflicts(s, path, r)
      BY DEF open_file_access_conflicts, Sound, Whole
    <3> QED  BY <1>4, <2>1, <3>1
  <2>6. /\ Sound(u) /\ c \in DOMAIN u.conn /\ ~Removed(u)
        /\ Cardinality(u.conn[c].handles) < MaxOpenPerClient
        /\ Cardinality(DOMAIN u.open) < MaxOpenTotal
    BY <2>2, <2>4 DEF Keeps, Removed
  <2>7. r.mode # "OpenDir" => ~open_file_access_conflicts(u, path, r)
    BY <2>4, <2>5 DEF open_file_access_conflicts
  <2>8. Keeps(u, t)
    BY <2>4, <2>6, <2>7, OpenedKeeps
  <2> QED  BY <2>4, <2>8 DEF Keeps
<1> QED  BY <1>1, <1>6, ConcludeKeeps

\* Every function of the server.
LEMMA ExecuteKeeps ==
  ASSUME NEW s, NEW c, NEW r, Sound(s), c \in DOMAIN s.conn, r.path \in Path, r.to \in Path
  PROVE  Keeps(s, execute_function(s, c, r).fs)
<1>1. Keeps(s, s)
  BY DEF Keeps
<1>2. /\ Keeps(s, handle_get_current_directory(s, c, r).fs)
      /\ Keeps(s, handle_get_file_attributes(s, c, r).fs)
      /\ Keeps(s, handle_get_file_date_time(s, c, r).fs)
  BY <1>1, ConcludeKeeps DEF handle_get_current_directory, handle_get_file_attributes,
     handle_get_file_date_time
<1>3. /\ Keeps(s, handle_open_file(s, c, r).fs) /\ Keeps(s, handle_close_file(s, c, r).fs)
      /\ Keeps(s, handle_read_file(s, c, r).fs) /\ Keeps(s, handle_write_file(s, c, r).fs)
      /\ Keeps(s, handle_seek_file(s, c, r).fs)
  BY OpenKeeps, CloseKeeps, ReadKeeps, WriteKeeps, SeekKeeps
<1>4. /\ Keeps(s, handle_change_directory(s, c, r).fs)
      /\ Keeps(s, handle_move_file(s, c, r).fs) /\ Keeps(s, handle_delete_file(s, c, r).fs)
      /\ Keeps(s, handle_set_file_attributes(s, c, r).fs)
      /\ Keeps(s, handle_initialize_volume(s, c, r).fs)
  BY ChangeDirectoryKeeps, MoveKeeps, DeleteKeeps, SetAttributesKeeps, InitializeKeeps
<1>5. \A e, v : Keeps(s, Answer(s, e, v).fs)
  BY <1>1 DEF Answer
<1> QED  BY <1>2, <1>3, <1>4, <1>5, Zenon DEF execute_function

-----------------------------------------------------------------------------
(* The volume, connections and time.                                       *)

\* Fields that are of no concern to Sound may be changed.
LEMMA OtherFieldsKeep ==
  ASSUME NEW s, NEW t, Sound(s), DOMAIN t = ServerFields, t.files = s.files, t.dirs = s.dirs,
         t.open = s.open, t.next = s.next, t.conn = s.conn,
         t.volume \in VolumeState, t.volume = "Removed" => DOMAIN t.open = {}
  PROVE  Keeps(s, t)
BY AlikeKeeps DEF Alike, Sound, Shaped, Removed

\* A volume that goes or comes back takes every handle with it.
LEMMA ClearedKeeps ==
  ASSUME NEW s, NEW volume \in VolumeState, Sound(s)
  PROVE  Keeps(s, clear_media_dependent_client_state([s EXCEPT !.volume = volume]))
<1> DEFINE t == clear_media_dependent_client_state([s EXCEPT !.volume = volume])
<1>1. /\ DOMAIN t = ServerFields
      /\ t.files = s.files /\ t.dirs = s.dirs /\ t.next = s.next /\ DOMAIN t.open = {}
      /\ t.volume = volume
      /\ t.conn = [d \in DOMAIN s.conn |-> [s.conn[d] EXCEPT !.handles = {}, !.cwd = Root]]
  BY SMT DEF Sound, Shaped, ServerFields, clear_media_dependent_client_state
<1> HIDE DEF t
<1>2. Root \in Path
  BY SMT DEF Root, Path
<1>3. DOMAIN t.conn = DOMAIN s.conn
  BY <1>1
<1>4. ASSUME NEW d \in DOMAIN t.conn
      PROVE  /\ DOMAIN t.conn[d] = ConnectionFields /\ t.conn[d].cwd \in Path
             /\ t.conn[d].handles = {}
  <2>1. t.conn[d] = [s.conn[d] EXCEPT !.handles = {}, !.cwd = Root]
    BY <1>1, <1>3
  <2>2. DOMAIN s.conn[d] = ConnectionFields
    BY <1>3 DEF Sound, Shaped
  <2> QED  BY <1>2, <2>1, <2>2 DEF ConnectionFields
<1>5. Reduced(s, t)
  BY <1>1, <1>3, <1>4 DEF Reduced, Removed
<1>6. Sound(t)
  BY <1>5, ReducedIsSound
<1> QED  BY <1>3, <1>6 DEF Keeps, t

\* The life of the volume.
LEMMA VolumeKeeps ==
  ASSUME NEW s, Sound(s)
  PROVE  /\ Keeps(s, prepare_volume_for_removal(s).fs)
         /\ Keeps(s, set_volume_removed(s).fs)
         /\ Keeps(s, reinsert_volume(s).fs)
         /\ \A busy : Keeps(s, set_busy(s, busy).fs)
         /\ Keeps(s, update_volume_state_machine(s).fs)
<1>1. Keeps(s, s)
  BY DEF Keeps
<1>2. Keeps(s, prepare_volume_for_removal(s).fs)
  <2> DEFINE t == [s EXCEPT !.volume = "PreparingForRemoval", !.removal = 0, !.maintain = {}]
  <2>1. Keeps(s, t)
    <3>1. /\ DOMAIN t = ServerFields /\ t.volume = "PreparingForRemoval"
          /\ t.files = s.files /\ t.dirs = s.dirs
          /\ t.open = s.open /\ t.next = s.next /\ t.conn = s.conn
      BY DEF Sound, Shaped, ServerFields
    <3> HIDE DEF t
    <3> QED  BY <3>1, OtherFieldsKeep DEF VolumeState
  <2> QED  BY <1>1, <2>1 DEF prepare_volume_for_removal, Sent
<1>3. Keeps(s, set_volume_removed(s).fs)
  BY ClearedKeeps DEF set_volume_removed, Sent, VolumeState
<1>4. Keeps(s, reinsert_volume(s).fs)
  <2> DEFINE t == [s EXCEPT !.volume = "Present"]
  <2>1. Keeps(s, t)
    <3>1. /\ DOMAIN t = ServerFields /\ t.volume = "Present"
          /\ t.files = s.files /\ t.dirs = s.dirs
          /\ t.open = s.open /\ t.next = s.next /\ t.conn = s.conn
      BY DEF Sound, Shaped, ServerFields
    <3> HIDE DEF t
    <3> QED  BY <3>1, OtherFieldsKeep DEF VolumeState
  <2> QED  BY <1>1, <2>1 DEF reinsert_volume, Sent
<1>5. ASSUME NEW busy PROVE Keeps(s, set_busy(s, busy).fs)
  <2> DEFINE t == [s EXCEPT !.busy = busy]
  <2>1. /\ DOMAIN t = ServerFields /\ t.volume = s.volume
        /\ t.files = s.files /\ t.dirs = s.dirs
        /\ t.open = s.open /\ t.next = s.next /\ t.conn = s.conn
    BY DEF Sound, Shaped, ServerFields
  <2>2. set_busy(s, busy).fs = t
    BY DEF set_busy, Sent
  <2> HIDE DEF t
  <2> QED  BY <2>1, <2>2, OtherFieldsKeep DEF Sound, Shaped, Accounted, Removed
<1>6. Keeps(s, update_volume_state_machine(s).fs)
  <2> DEFINE t == [s EXCEPT !.volume = IF DOMAIN s.open = {} THEN "Present" ELSE "InUse"]
             w == [s EXCEPT !.removal = AtMost(@ + 1, RemovalTime)]
  <2>1. Keeps(s, t)
    <3>1. /\ DOMAIN t = ServerFields /\ t.volume \in {"Present", "InUse"}
          /\ t.files = s.files /\ t.dirs = s.dirs
          /\ t.open = s.open /\ t.next = s.next /\ t.conn = s.conn
      BY DEF Sound, Shaped, ServerFields
    <3> HIDE DEF t
    <3> QED  BY <3>1, OtherFieldsKeep DEF VolumeState
  <2>2. Keeps(s, w)
    <3>1. /\ DOMAIN w = ServerFields /\ w.volume = s.volume
          /\ w.files = s.files /\ w.dirs = s.dirs
          /\ w.open = s.open /\ w.next = s.next /\ w.conn = s.conn
      BY DEF Sound, Shaped, ServerFields
    <3> HIDE DEF w
    <3> QED  BY <3>1, OtherFieldsKeep DEF Sound, Shaped, Accounted, Removed
  <2>3. Keeps(s, set_volume_removed(w).fs)
    <3>1. Keeps(w, set_volume_removed(w).fs)
      <4> HIDE DEF w
      <4> QED  BY <2>2, ClearedKeeps DEF set_volume_removed, Sent, VolumeState, Keeps
    <3> QED  BY <2>2, <3>1 DEF Keeps
  <2>4. \A x, out : Sent(x, out).fs = x
    BY DEF Sent
  <2>5. s.volume \in VolumeState
    BY DEF Sound, Shaped
  <2>6. CASE s.volume \in {"Present", "InUse"}
    <3>1. update_volume_state_machine(s).fs = t
      BY <2>4, <2>6 DEF update_volume_state_machine
    <3> QED  BY <2>1, <3>1
  <2>7. CASE s.volume = "PreparingForRemoval"
    <3>1. \/ update_volume_state_machine(s).fs = w
          \/ update_volume_state_machine(s) = set_volume_removed(w)
      BY <2>4, <2>7 DEF update_volume_state_machine
    <3> QED  BY <2>2, <2>3, <3>1
  <2>8. CASE s.volume = "Removed"
    <3>1. update_volume_state_machine(s).fs = s
      BY <2>4, <2>8 DEF update_volume_state_machine
    <3> QED  BY <1>1, <3>1
  <2> QED  BY <2>5, <2>6, <2>7, <2>8 DEF VolumeState
<1> QED  BY <1>2, <1>3, <1>4, <1>5, <1>6

\* A volume status request, with its maintain request.
LEMMA VolumeStatusKeeps ==
  ASSUME NEW s, NEW c, NEW r, Sound(s)
  PROVE  Keeps(s, handle_volume_status(s, c, r).fs)
<1> DEFINE maintained == IF s.volume = "PreparingForRemoval"
                         THEN [s EXCEPT !.maintain = @ \cup {c}] ELSE s
           released == [s EXCEPT !.maintain = @ \ {c}]
<1>1. Keeps(s, s)
  BY DEF Keeps
<1>2. Keeps(s, prepare_volume_for_removal(s).fs)
  BY VolumeKeeps
<1>3. ASSUME NEW S PROVE Keeps(s, [s EXCEPT !.maintain = S])
  <2> DEFINE t == [s EXCEPT !.maintain = S]
  <2>1. /\ DOMAIN t = ServerFields /\ t.volume = s.volume
        /\ t.files = s.files /\ t.dirs = s.dirs
        /\ t.open = s.open /\ t.next = s.next /\ t.conn = s.conn
    BY DEF Sound, Shaped, ServerFields
  <2> HIDE DEF t
  <2> QED  BY <2>1, OtherFieldsKeep DEF Sound, Shaped, Accounted, Removed, t
<1>4. Keeps(s, maintained) /\ Keeps(s, released)
  BY <1>1, <1>3
<1> HIDE DEF maintained, released
<1>5. Keeps(s, set_volume_removed(released).fs)
  BY <1>4, VolumeKeeps DEF Keeps
<1>6. \A x, out : Sent(x, out).fs = x
  BY DEF Sent
<1>7. \/ handle_volume_status(s, c, r).fs \in {s, maintained, released}
      \/ handle_volume_status(s, c, r) = prepare_volume_for_removal(s)
      \/ handle_volume_status(s, c, r) = set_volume_removed(released)
  <2>1. CASE r.mode = "Prepare"
    BY <1>6, <2>1 DEF handle_volume_status
  <2>2. CASE r.mode = "Maintain"
    BY <1>6, <2>2 DEF handle_volume_status, maintained
  <2>3. CASE r.mode = "Query"
    BY <1>6, <2>3 DEF handle_volume_status, released
  <2>4. CASE r.mode \notin {"Prepare", "Maintain", "Query"}
    BY <1>6, <2>4 DEF handle_volume_status
  <2> QED  BY <2>1, <2>2, <2>3, <2>4
<1> QED  BY <1>1, <1>2, <1>4, <1>5, <1>7

\* Connections may change in what is of no concern to Sound.
LEMMA ConnectionsKeep ==
  ASSUME NEW s, NEW t, Sound(s), DOMAIN t = ServerFields, t.files = s.files, t.dirs = s.dirs,
         t.open = s.open, t.next = s.next, t.volume = s.volume, DOMAIN t.conn = DOMAIN s.conn,
         \A c \in DOMAIN s.conn :
           /\ DOMAIN t.conn[c] = ConnectionFields
           /\ t.conn[c].handles = s.conn[c].handles /\ t.conn[c].cwd = s.conn[c].cwd
  PROVE  Keeps(s, t)
BY AlikeKeeps DEF Alike, Sound, Shaped, Accounted, Removed

\* A new connection has no handle.
LEMMA ConnectedIsSound ==
  ASSUME NEW s, NEW c, Sound(s)
  PROVE  Sound(Connected(s, c)) /\ DOMAIN Connected(s, c).conn = DOMAIN s.conn \cup {c}
<1>1. CASE c \in DOMAIN s.conn
  BY <1>1 DEF Connected
<1>2. CASE c \notin DOMAIN s.conn
  <2> DEFINE t == Connected(s, c)
  <2>1. /\ DOMAIN t = ServerFields
        /\ t.files = s.files /\ t.dirs = s.dirs /\ t.next = s.next /\ t.open = s.open
        /\ t.volume = s.volume
        /\ t.conn = [d \in DOMAIN s.conn \cup {c} |->
                       IF d = c THEN NewConnection(s) ELSE s.conn[d]]
    BY <1>2 DEF Connected, With, Sound, Shaped, ServerFields
  <2> HIDE DEF t
  <2>2. /\ DOMAIN t.conn = DOMAIN s.conn \cup {c} /\ t.conn[c] = NewConnection(s)
        /\ \A d \in DOMAIN s.conn : t.conn[d] = s.conn[d]
    BY <1>2, <2>1
  <2>3. /\ DOMAIN NewConnection(s) = ConnectionFields
        /\ NewConnection(s).cwd = Root /\ NewConnection(s).handles = {}
    BY DEF NewConnection, ConnectionFields
  <2>4. Root \in Path
    BY SMT DEF Root, Path
  <2>5. Shaped(t)
    BY <2>1, <2>2, <2>3, <2>4 DEF Sound, Shaped
  <2>6. Single(t) /\ Whole(t)
    <3>1. Single(t)
      BY <2>1 DEF Sound, Single
    <3>2. Whole(t)
      BY SMT, <2>1 DEF Sound, Whole
    <3> QED  BY <3>1, <3>2
  <2>7. {h \in DOMAIN t.open : t.open[h].owner = c} = {}
    BY SMT, <1>2, <2>1 DEF Sound, Accounted
  <2>8. Cardinality({}) <= MaxOpenPerClient
    BY SMT, FS_EmptySet, ServerAssumption
  <2>9. \A d \in DOMAIN t.conn :
          /\ t.conn[d].handles = {h \in DOMAIN t.open : t.open[h].owner = d}
          /\ Cardinality(t.conn[d].handles) <= MaxOpenPerClient
    <3> SUFFICES ASSUME NEW d \in DOMAIN t.conn
                 PROVE  /\ t.conn[d].handles = {h \in DOMAIN t.open : t.open[h].owner = d}
                        /\ Cardinality(t.conn[d].handles) <= MaxOpenPerClient
      OBVIOUS
    <3>1. CASE d = c
      BY <2>2, <2>3, <2>7, <2>8, <3>1
    <3>2. CASE d # c
      BY SMT, <2>1, <2>2, <3>2 DEF Sound, Accounted
    <3> QED  BY <3>1, <3>2
  <2>10. Accounted(t)
    BY <2>1, <2>2, <2>9 DEF Sound, Accounted, Removed
  <2> QED  BY <2>2, <2>5, <2>6, <2>10 DEF Sound, t
<1> QED  BY <1>1, <1>2

\* A client connection maintenance message.
LEMMA KeepaliveKeeps ==
  ASSUME NEW s, NEW c, Sound(s), c \in DOMAIN s.conn
  PROVE  Keeps(s, handle_ccm(s, c))
<1> DEFINE t == handle_ccm(s, c)
<1>1. /\ DOMAIN t = ServerFields
      /\ t.files = s.files /\ t.dirs = s.dirs /\ t.next = s.next /\ t.open = s.open
      /\ t.volume = s.volume
      /\ t.conn = [s.conn EXCEPT ![c] = [s.conn[c] EXCEPT !.seen = TRUE, !.silent = 0]]
  BY DEF handle_ccm, Sound, Shaped, ServerFields
<1> HIDE DEF t
<1>2. \A d \in DOMAIN s.conn :
        /\ DOMAIN t.conn[d] = ConnectionFields
        /\ t.conn[d].handles = s.conn[d].handles /\ t.conn[d].cwd = s.conn[d].cwd
  BY SMT, <1>1 DEF Sound, Shaped, ConnectionFields
<1> QED  BY <1>1, <1>2, ConnectionsKeep DEF t

\* Caching an answer.
LEMMA CachingKeeps ==
  ASSUME NEW s, NEW c, NEW r, NEW message, Sound(s), c \in DOMAIN s.conn
  PROVE  Keeps(s, CacheAnswer(s, c, r, message))
<1> DEFINE t == CacheAnswer(s, c, r, message)
           cache == With(s.conn[c].cache, r.tan, [request |-> r, answer |-> message, age |-> 0])
<1>1. /\ DOMAIN t = ServerFields
      /\ t.files = s.files /\ t.dirs = s.dirs /\ t.next = s.next /\ t.open = s.open
      /\ t.volume = s.volume
      /\ t.conn = [s.conn EXCEPT ![c] = [s.conn[c] EXCEPT !.cache = cache]]
  BY DEF CacheAnswer, Sound, Shaped, ServerFields
<1> HIDE DEF t, cache
<1>2. \A d \in DOMAIN s.conn :
        /\ DOMAIN t.conn[d] = ConnectionFields
        /\ t.conn[d].handles = s.conn[d].handles /\ t.conn[d].cwd = s.conn[d].cwd
  BY SMT, <1>1 DEF Sound, Shaped, ConnectionFields
<1> QED  BY <1>1, <1>2, ConnectionsKeep DEF t

\* Time passes on the caches and the connections.
LEMMA AgingKeeps ==
  ASSUME NEW s, Sound(s)
  PROVE  Keeps(s, Aged(s)) /\ Keeps(s, cleanup_expired_tan_cache(s))
<1>1. Keeps(s, Aged(s))
  <2> DEFINE t == Aged(s)
  <2>1. /\ DOMAIN t = ServerFields
        /\ t.files = s.files /\ t.dirs = s.dirs /\ t.next = s.next /\ t.open = s.open
        /\ t.volume = s.volume /\ t.conn = [c \in DOMAIN s.conn |-> OlderConnection(s.conn[c])]
    <3>1. t = [s EXCEPT !.uptime = AtMost(@ + 1, CcmTimeout + 1), !.status = @ + 1,
                        !.conn = [c \in DOMAIN @ |-> OlderConnection(@[c])]]
      BY DEF Aged
    <3> HIDE DEF t
    <3> QED  BY <3>1 DEF Sound, Shaped, ServerFields
  <2> HIDE DEF t
  <2>2. DOMAIN t.conn = DOMAIN s.conn
    BY <2>1
  <2>3. ASSUME NEW d \in DOMAIN s.conn
        PROVE  /\ DOMAIN t.conn[d] = ConnectionFields
               /\ t.conn[d].handles = s.conn[d].handles /\ t.conn[d].cwd = s.conn[d].cwd
    <3>1. t.conn[d] = OlderConnection(s.conn[d]) /\ DOMAIN s.conn[d] = ConnectionFields
      BY <2>1 DEF Sound, Shaped
    <3> QED  BY <3>1 DEF OlderConnection, ConnectionFields
  <2> QED  BY <2>1, <2>2, <2>3, ConnectionsKeep DEF t
<1>2. Keeps(s, cleanup_expired_tan_cache(s))
  <2> DEFINE t == cleanup_expired_tan_cache(s)
  <2>1. /\ DOMAIN t = ServerFields
        /\ t.files = s.files /\ t.dirs = s.dirs /\ t.next = s.next /\ t.open = s.open
        /\ t.volume = s.volume /\ t.conn = [c \in DOMAIN s.conn |-> WithoutExpired(s.conn[c])]
    <3>1. t = [s EXCEPT !.conn = [c \in DOMAIN @ |-> WithoutExpired(@[c])]]
      BY DEF cleanup_expired_tan_cache
    <3> HIDE DEF t
    <3> QED  BY <3>1 DEF Sound, Shaped, ServerFields
  <2> HIDE DEF t
  <2>2. DOMAIN t.conn = DOMAIN s.conn
    BY <2>1
  <2>3. ASSUME NEW d \in DOMAIN s.conn
        PROVE  /\ DOMAIN t.conn[d] = ConnectionFields
               /\ t.conn[d].handles = s.conn[d].handles /\ t.conn[d].cwd = s.conn[d].cwd
    <3>1. t.conn[d] = WithoutExpired(s.conn[d]) /\ DOMAIN s.conn[d] = ConnectionFields
      BY <2>1 DEF Sound, Shaped
    <3> QED  BY <3>1 DEF WithoutExpired, ConnectionFields
  <2> QED  BY <2>1, <2>2, <2>3, ConnectionsKeep DEF t
<1> QED  BY <1>1, <1>2

\* A client that has gone silent is forgotten with all its handles.
LEMMA PruningIsSound ==
  ASSUME NEW s, Sound(s)
  PROVE  Sound(cleanup_disconnected_clients(s))
<1> DEFINE t == cleanup_disconnected_clients(s)
           lost == {c \in DOMAIN s.conn : s.conn[c].silent > CcmTimeout}
<1>1. /\ DOMAIN t = ServerFields
      /\ t.files = s.files /\ t.dirs = s.dirs /\ t.next = s.next
      /\ t.volume = s.volume
      /\ t.open = [h \in DOMAIN s.open \ {k \in DOMAIN s.open : s.open[k].owner \in lost} |->
                     s.open[h]]
      /\ t.conn = [c \in DOMAIN s.conn \ lost |-> s.conn[c]]
  BY DEF cleanup_disconnected_clients, Without, Sound, Shaped, ServerFields
<1> HIDE DEF t, lost
<1>2. /\ DOMAIN t.open = {h \in DOMAIN s.open : s.open[h].owner \notin lost}
      /\ \A h \in DOMAIN t.open : t.open[h] = s.open[h]
      /\ DOMAIN t.conn = DOMAIN s.conn \ lost
      /\ \A c \in DOMAIN t.conn : t.conn[c] = s.conn[c]
  BY <1>1
<1>3. \A h \in DOMAIN t.open : t.open[h].owner \in DOMAIN t.conn
  BY <1>2 DEF Sound, Accounted
<1>4. \A c \in DOMAIN t.conn : t.conn[c].handles = s.conn[c].handles \cap DOMAIN t.open
  BY SMT, <1>2 DEF Sound, Accounted
<1>5. Removed(t) => DOMAIN t.open = {}
  BY <1>1, <1>2 DEF Sound, Accounted, Removed
<1>6. Reduced(s, t)
  BY <1>1, <1>2, <1>3, <1>4, <1>5 DEF Reduced, Sound, Shaped
<1> QED  BY <1>6, ReducedIsSound DEF t

-----------------------------------------------------------------------------
(* The entry points.                                                       *)

\* A server as its host has set it up, with some clients connected, is sound if
\* the volume is: the files and directories form a tree.
THEOREM NewServerIsSound ==
  ASSUME NEW files, NEW dirs, NEW uptime, NEW s, NEW known,
         DOMAIN files \subseteq Path, dirs \subseteq Path,
         DOMAIN files \cap (dirs \cup {Root}) = {},
         \A p \in DOMAIN files \cup dirs : Parent(p) \in dirs \cup {Root},
         s = [NewServer(files, dirs, uptime) EXCEPT !.conn = [c \in known |->
               [NewConnection(NewServer(files, dirs, uptime)) EXCEPT
                  !.seen = TRUE, !.silent = 0]]]
  PROVE  Sound(s)
<1>1. /\ DOMAIN s = ServerFields /\ s.files = files /\ s.dirs = dirs \cup {Root}
      /\ DOMAIN s.open = {} /\ s.next = 1 /\ s.volume = "Present"
      /\ DOMAIN s.conn = known
      /\ \A c \in known : /\ DOMAIN s.conn[c] = ConnectionFields
                          /\ s.conn[c].cwd = Root /\ s.conn[c].handles = {}
  <2> DEFINE n == NewServer(files, dirs, uptime)
             k == [NewConnection(n) EXCEPT !.seen = TRUE, !.silent = 0]
  <2>1. /\ DOMAIN n = ServerFields /\ n.files = files /\ n.dirs = dirs \cup {Root}
        /\ n.open = << >> /\ n.next = 1 /\ n.volume = "Present"
    BY DEF NewServer, ServerFields
  <2>2. DOMAIN k = ConnectionFields /\ k.cwd = Root /\ k.handles = {}
    BY DEF NewConnection, ConnectionFields
  <2>3. s = [n EXCEPT !.conn = [c \in known |-> k]]
    OBVIOUS
  <2> HIDE DEF n, k
  <2>4. /\ DOMAIN s = ServerFields /\ s.files = n.files /\ s.dirs = n.dirs
        /\ s.open = n.open /\ s.next = n.next /\ s.volume = n.volume
        /\ s.conn = [c \in known |-> k]
    BY <2>1, <2>3 DEF ServerFields
  <2>5. DOMAIN << >> = {}
    BY SMT
  <2> QED  BY <2>1, <2>2, <2>4, <2>5
<1>2. Root \in Path
  BY SMT DEF Root, Path
<1>3. 1 \in Handle
  BY SMT, ServerAssumption DEF Handle
<1>4. Shaped(s)
  BY <1>1, <1>2, <1>3 DEF Shaped, VolumeState
<1>5. Single(s)
  BY <1>1 DEF Single
<1>6. Cardinality({}) <= MaxOpenPerClient /\ Cardinality({}) <= MaxOpenTotal
  BY SMT, FS_EmptySet, ServerAssumption
<1>7. Accounted(s)
  BY <1>1, <1>6 DEF Accounted, Removed
<1>8. Whole(s)
  BY <1>1 DEF Whole, Parent
<1> QED  BY <1>4, <1>5, <1>7, <1>8 DEF Sound

\* handle_client_message keeps the server sound, whatever the request, the
\* client and the state of its connection.
THEOREM MessagesKeepSound ==
  ASSUME NEW s, NEW c, NEW r, Sound(s), r.path \in Path, r.to \in Path
  PROVE  /\ Sound(handle_client_message(s, c, r).fs)
         /\ DOMAIN handle_client_message(s, c, r).fs.conn = DOMAIN s.conn \cup {c}
<1> DEFINE known == Connected(s, c)
           done == Served(known, c, r)
<1>1. Sound(known) /\ DOMAIN known.conn = DOMAIN s.conn \cup {c}
  BY ConnectedIsSound
<1> HIDE DEF known
<1>2. \A x, out : Sent(x, out).fs = x
  BY DEF Sent
<1>3. Keeps(known, done.fs)
  BY SMT, <1>1, <1>2, VolumeStatusKeeps, ExecuteKeeps DEF Served
<1> HIDE DEF done
<1>4. Keeps(known, handle_ccm(known, c))
  BY <1>1, KeepaliveKeeps
<1>5. Keeps(known, CacheAnswer(done.fs, c, r, done.out[1].message))
  BY SMT, <1>1, <1>3, CachingKeeps DEF Keeps
<1>6. handle_client_message(s, c, r).fs \in
        {handle_ccm(known, c), known, CacheAnswer(done.fs, c, r, done.out[1].message)}
  <2>1. handle_client_message(s, c, r) \in
          {Sent(handle_ccm(known, c), << >>),
           Sent(known, <<To(c, known.conn[c].cache[r.tan].answer)>>),
           Sent(CacheAnswer(done.fs, c, r, done.out[1].message), done.out)}
    BY Zenon DEF handle_client_message, known, done
  <2> QED  BY SMT, <1>2, <2>1, Zenon
<1> QED  BY <1>1, <1>4, <1>5, <1>6 DEF Keeps

\* update() keeps the server sound: clients that have fallen silent take their
\* handles with them, and a removed volume leaves none.
THEOREM UpdateKeepsSound ==
  ASSUME NEW s, Sound(s)
  PROVE  Sound(server_update(s).fs)
<1> DEFINE moved == update_volume_state_machine(Aged(s))
           kept == cleanup_disconnected_clients(cleanup_expired_tan_cache(moved.fs))
           reset == [kept EXCEPT !.status = 0]
<1>1. Sound(moved.fs)
  BY AgingKeeps, VolumeKeeps DEF Keeps
<1> HIDE DEF moved
<1>2. Sound(kept)
  BY <1>1, AgingKeeps, PruningIsSound DEF Keeps
<1>3. server_update(s).fs \in {kept, reset}
  BY DEF server_update, Sent, kept, moved
<1> HIDE DEF kept
<1>4. Sound(reset)
  <2>1. /\ DOMAIN reset = ServerFields /\ reset.volume = kept.volume
        /\ reset.files = kept.files /\ reset.dirs = kept.dirs
        /\ reset.open = kept.open /\ reset.next = kept.next /\ reset.conn = kept.conn
    BY <1>2 DEF Sound, Shaped, ServerFields
  <2> HIDE DEF reset
  <2>2. kept.volume \in VolumeState /\ (kept.volume = "Removed" => DOMAIN kept.open = {})
    BY <1>2 DEF Sound, Shaped, Accounted, Removed
  <2> QED  BY <1>2, <2>1, <2>2, OtherFieldsKeep DEF Keeps
<1> QED  BY <1>2, <1>3, <1>4
===============================================================================
