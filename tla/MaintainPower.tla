---------------------------- MODULE MaintainPower ----------------------------
(***************************************************************************)
(* The MaintainPower plugin in its TECU role (j1939/maintain_power.rs,     *)
(* session/plugins/maintain_power.rs): the key switch, the requests of     *)
(* implements to keep power on, and the shutdown.                          *)
(***************************************************************************)
EXTENDS AutoDrive

CONSTANTS
  ShutdownMin,    \* POWER_SHUTDOWN_MIN_MS
  MaintainTime,   \* POWER_MAINTAIN_REPEAT_MS * 2
  MaxExtension    \* POWER_MAX_EXTENSION_MS

ASSUME MaintainPowerAssumption ==
  ShutdownMin \in Nat /\ MaintainTime \in Nat /\ MaxExtension \in Nat

PowerState == {"Running", "ShutdownPending", "Maintaining", "PowerOff"}

\* requesting_clients is only reported to the application and left out.
NewPower ==
  [state |-> "Running", shutdown |-> 0, maintain |-> 0, told |-> "Running"]

key_off(p) ==
  IF p.state = "Running"
    THEN [p EXCEPT !.state = "ShutdownPending", !.shutdown = 0, !.maintain = 0]
    ELSE p

key_on(p) ==
  IF p.state = "Running" THEN p
  ELSE [p EXCEPT !.state = "Running", !.shutdown = 0]

\* A message that requires power for two seconds more.
handle_message(p) == [p EXCEPT !.maintain = 0]

AtMost(n, limit) == IF n > limit THEN limit ELSE n

\* Mutant: whoever asks for more power during the shutdown is not heard.
ShutdownHearsNobody(p, elapsed) ==
  LET shutdown == AtMost(p.shutdown + elapsed, MaxExtension)
      waited == [p EXCEPT !.shutdown = shutdown]
  IN  IF p.state = "ShutdownPending" /\ shutdown >= ShutdownMin
        THEN [waited EXCEPT !.state = "PowerOff"]
        ELSE IF p.state = "ShutdownPending" THEN waited ELSE p

update_tecu(p, elapsed) ==
  LET shutdown == AtMost(p.shutdown + elapsed, MaxExtension)
      maintain == AtMost(p.maintain + elapsed, MaintainTime)
      waited == [p EXCEPT !.shutdown = shutdown, !.maintain = maintain]
  IN  CASE p.state = "ShutdownPending" /\ shutdown >= ShutdownMin ->
             [waited EXCEPT !.state = IF maintain >= MaintainTime
                                      THEN "PowerOff" ELSE "Maintaining"]
        [] p.state = "ShutdownPending" /\ shutdown < ShutdownMin -> waited
        [] p.state = "Maintaining" ->
             [waited EXCEPT !.state = IF \/ shutdown >= MaxExtension
                                         \/ maintain >= MaintainTime
                                      THEN "PowerOff" ELSE @]
        [] OTHER -> p

\* emit_state_changes: only the power-off is an event others react to.
Tell(p) ==
  [mp |-> [p EXCEPT !.told = p.state],
   events |-> IF p.told # p.state /\ p.state = "PowerOff"
                THEN <<"PowerOff">> ELSE << >>]

PowerOnFrame(p) == Tell(handle_message(p))
PowerOnTick(p, elapsed) == Tell(update_tecu(p, elapsed))
==============================================================================
