------------------------------ MODULE SafeStop ------------------------------
(***************************************************************************)
(* What the stop of an autonomy path promises (safety.rs and the autodrive *)
(* tutorial: "autonomy must not resume by itself").  The autonomy path is  *)
(* idle, engaged or stopped, and a hazard stands or does not.  A hazard    *)
(* that arises stops the path in the same step; a stopped path becomes     *)
(* idle only, and only once no hazard stands; it is engaged only from      *)
(* idle, and not into a hazard.                                            *)
(***************************************************************************)
VARIABLES mode, hazard

Init == mode = "idle" /\ hazard = FALSE

Engage == mode = "idle" /\ ~hazard /\ mode' = "engaged" /\ hazard' = hazard

\* Back to idle without a stop, as arm() does.
Release == mode = "engaged" /\ mode' = "idle" /\ hazard' = hazard

\* With a hazard, or for a reason that does not last.
Stop == mode' = "stopped" /\ hazard' \in BOOLEAN

\* The hazard passes, which changes nothing else.
Pass == hazard' = FALSE /\ mode' = mode

Clear == mode = "stopped" /\ ~hazard /\ mode' = "idle" /\ hazard' = hazard

Next == Engage \/ Release \/ Stop \/ Pass \/ Clear

Spec == Init /\ [][Next]_<<mode, hazard>>
==============================================================================
