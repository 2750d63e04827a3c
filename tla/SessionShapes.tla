---------------------------- MODULE SessionShapes ----------------------------
(***************************************************************************)
(* The fields of the records a session is made of.  They are changed by    *)
(* EXCEPT, so every proof about a session needs to know that it has them.  *)
(***************************************************************************)
EXTENDS Session

AdFields ==
  {"status", "setpoint", "fit", "lastInfo", "linkAlive", "lastTx", "dirty",
   "stop", "commanded", "seqChanged", "isbSeen", "isbAsserted",
   "positionStale", "fixDegraded", "facilities"}

GnFields ==
  {"lastPosition", "positionStale", "fixDegraded", "lastQuality",
   "qualityStale", "steerable"}

HbFields == {"state", "last", "recovered", "since", "first", "wasShutdown"}
TimFields == {"state", "requested", "blocked", "since", "safe", "pending"}
PeerFields == {"sequence", "initSent", "special"}

PowerFields == {"state", "shutdown", "maintain", "told"}

HistFields ==
  {"command", "info", "keepalive", "power", "onBus", "dropped", "lost", "clean"}
==============================================================================
