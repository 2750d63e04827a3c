------------------------------ MODULE Heartbeat ------------------------------
(***************************************************************************)
(* Heartbeat of ISO 11783-7 (j1939/heartbeat.rs, session/plugins/          *)
(* heartbeat.rs): the sender's sequence byte, and the receiver the plugin  *)
(* keeps for a peer.  Bytes 252 and 253 are ignored before any state is    *)
(* touched and are left out.                                               *)
(***************************************************************************)
EXTENDS AutoDrive

CONSTANTS
  MaxNormal,      \* hb_seq::MAX_NORMAL
  MaxJump,        \* HB_MAX_JUMP
  RecoveryCount,  \* HB_RECOVERY_COUNT
  CommTimeout     \* HB_COMM_ERROR_TIMEOUT_MS

ASSUME HeartbeatAssumption ==
  /\ MaxNormal \in Nat /\ MaxJump \in Nat \ {0} /\ MaxJump < MaxNormal
  /\ RecoveryCount \in Nat \ {0} /\ CommTimeout \in Nat \ {0}

INIT == MaxNormal + 1
SENDER_ERROR == MaxNormal + 2
SHUTDOWN == MaxNormal + 3
Byte == 0 .. SHUTDOWN

-----------------------------------------------------------------------------
(* HeartbeatSender, here the sender of the peer.                           *)

NewSender == [sequence |-> INIT, initSent |-> FALSE, special |-> FALSE]

\* next_sequence: the byte is the new `sequence`.
next_sequence(s) ==
  IF ~s.initSent THEN [s EXCEPT !.initSent = TRUE, !.sequence = INIT]
  ELSE IF s.special THEN [s EXCEPT !.special = FALSE]
  ELSE [s EXCEPT !.sequence = IF @ >= MaxNormal THEN 0 ELSE @ + 1]

signal(s, special) == [s EXCEPT !.sequence = special, !.special = TRUE]

-----------------------------------------------------------------------------
(* HeartbeatReceiver.                                                      *)

Faulted == {"SequenceError", "TransmissionError", "GracefulShutdown"}
ReceiverState == Faulted \cup {"Normal", "CommError"}

NewReceiver ==
  [state |-> "Normal", last |-> SHUTDOWN, recovered |-> 0, since |-> 0,
   first |-> FALSE, wasShutdown |-> FALSE]

\* Mutant: the rollover from the largest normal value counts as a jump.
JumpIgnoresRollover(from, to) == IF to > from THEN to - from ELSE MaxNormal

compute_jump(from, to) ==
  IF from = INIT THEN to + 1
  ELSE IF to > from THEN to - from
  ELSE (IF from > MaxNormal + 1 THEN 0 ELSE MaxNormal + 1 - from) + to

enter_fault(r, state) ==
  [r EXCEPT !.first = TRUE, !.recovered = 0, !.state = state]

\* A byte of the normal band, from a peer that is known and not lost.
Follow(r, byte) ==
  LET bad == byte = r.last \/ compute_jump(r.last, byte) > MaxJump
      at == [r EXCEPT !.last = byte]
  IN  IF bad
        THEN [at EXCEPT !.recovered = 0,
                        !.state = IF @ = "Normal" THEN "SequenceError" ELSE @]
      ELSE IF r.state = "Normal" THEN at
      ELSE IF r.recovered + 1 >= RecoveryCount
        THEN [at EXCEPT !.recovered = 0, !.state = "Normal"]
      ELSE [at EXCEPT !.recovered = @ + 1]

process(rec, byte) ==
  LET r == [rec EXCEPT !.since = 0]
      ordinary == [r EXCEPT !.wasShutdown = FALSE]
  IN  CASE byte = SENDER_ERROR -> enter_fault(r, "TransmissionError")
        [] byte = SHUTDOWN ->
             [(IF r.wasShutdown THEN r ELSE enter_fault(r, "GracefulShutdown"))
                EXCEPT !.wasShutdown = TRUE]
        [] byte <= INIT /\ r.state = "CommError" ->
             [ordinary EXCEPT !.state = "Normal", !.recovered = 0, !.last = byte]
        [] byte <= INIT /\ r.state # "CommError" /\ ~r.first ->
             [ordinary EXCEPT !.first = TRUE, !.last = byte]
        [] byte = INIT /\ r.state # "CommError" /\ r.first ->
             [ordinary EXCEPT !.last = INIT]
        [] OTHER -> Follow(ordinary, byte)

\* What the plugin tells the session about a byte, before and after process.
\* A repeated shutdown is reported again.
FaultEvents(before, byte, after) ==
  IF \/ byte \in {SENDER_ERROR, SHUTDOWN}
     \/ after = "SequenceError" /\ before # after
    THEN <<"HeartbeatFault">> ELSE << >>

HeartbeatOnFrame(r, byte) ==
  LET after == process(r, byte)
  IN  [hb |-> after, events |-> FaultEvents(r.state, byte, after.state)]

\* HeartbeatReceiver::update, and the event of the transition.
HeartbeatOnTick(r, elapsed) ==
  LET since == r.since + elapsed
      capped == IF since > CommTimeout THEN CommTimeout + 1 ELSE since
  IN  IF ~r.first THEN [hb |-> r, events |-> << >>]
      ELSE IF since > CommTimeout /\ r.state # "CommError"
        THEN [hb |-> [r EXCEPT !.since = capped, !.state = "CommError",
                               !.recovered = 0],
              events |-> <<"HeartbeatFault">>]
      ELSE [hb |-> [r EXCEPT !.since = capped], events |-> << >>]
==============================================================================
