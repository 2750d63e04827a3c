--------------------------------- MODULE Tim ---------------------------------
(***************************************************************************)
(* The TIM plugin (session/plugins/tim.rs): hitch and PTO commands guarded *)
(* by an authority (TimAuthority, isobus/tim.rs) and by the safe mode of   *)
(* ISO 11783-9 (TecuSafeMode, safety.rs).  The guards are evaluated when   *)
(* the application asks; the frame leaves when pending_tx is drained.      *)
(***************************************************************************)
EXTENDS AutoDrive

CONSTANTS
  AuthorityTimeout,  \* comms_timeout_ms of the authority
  MaxPending         \* bound: commands queued and not yet transmitted

ASSUME TimAssumption == AuthorityTimeout \in Nat \ {0} /\ MaxPending \in Nat

AuthorityState == {"Idle", "Requested", "Granted", "Denied", "Revoked"}
TimCommand == {"engage", "disengage"}

\* `blocked` is interlocks.blocking_reason().is_some(); `requested` the
\* options asked for, each needed by the command of its name.
NewTim ==
  [state |-> "Idle", requested |-> {}, blocked |-> FALSE, since |-> 0,
   safe |-> FALSE, pending |-> << >>]

request(t, options) == [t EXCEPT !.requested = options, !.state = "Requested"]

MayGrant(t) == t.state = "Requested" /\ ~t.blocked

grant(t) == [t EXCEPT !.state = "Granted", !.since = 0]

\* Mutant: an interlock that closes leaves the grant standing.
InterlocksKeepGrant(t, blocked) == [t EXCEPT !.blocked = blocked]

set_interlocks(t, blocked) ==
  [t EXCEPT !.blocked = blocked,
            !.state = IF @ = "Granted" /\ blocked THEN "Revoked" ELSE @]

ensure_option(t, option) ==
  option \in t.requested /\ ~t.blocked /\ t.state = "Granted"

allows(t, cmd) == t.safe => cmd = "disengage"

\* guarded: a refused command is only reported.
Guarded(t, cmd) == allows(t, cmd) /\ ensure_option(t, cmd)

\* Any frame of a subscribed PGN: keepalive, then drain_pending.
TimOnFrame(t) ==
  [tim |-> [t EXCEPT !.since = 0, !.pending = << >>], tx |-> t.pending]

\* TimAuthority::tick.  Beyond the timeout `since` only matters to a grant,
\* which resets it.
TimOnTick(t, elapsed) ==
  LET since == t.since + elapsed
      lost == elapsed > 0 /\ since >= AuthorityTimeout /\ t.state = "Granted"
      next == [t EXCEPT !.state = IF lost THEN "Revoked" ELSE @,
                        !.since = IF lost THEN 0
                                  ELSE IF since > AuthorityTimeout
                                  THEN AuthorityTimeout ELSE since,
                        !.pending = << >>]
  IN  [tim |-> next, tx |-> t.pending]

SafeModeEvent ==
  {"PowerOff", "FailSafe", "ClaimLost", "HeartbeatFault", "KeyOff"}

\* on_event over the events of one call: the first trigger enters safe mode
\* and drains pending_tx.
TimOnEvents(t, events) ==
  IF (\E i \in DOMAIN events : events[i] \in SafeModeEvent) /\ ~t.safe
    THEN [tim |-> [t EXCEPT !.safe = TRUE, !.pending = << >>], tx |-> t.pending]
    ELSE [tim |-> t, tx |-> << >>]
==============================================================================
