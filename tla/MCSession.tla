------------------------------ MODULE MCSession ------------------------------
(* Sessions of one or two plugins, for TLC.                                *)
EXTENDS Session

Persona(plugins, inputs, faults) ==
  [plugins |-> plugins, inputs |-> inputs,
   limit |-> [b \in Bounded |-> IF b \in faults THEN 1 ELSE 0]]

Seven ==
  {Persona({"AutoDrive"}, {"drive", "info", "button", "facilities"}, {}),
   Persona({"AutoDrive"}, {"drive", "info"}, {"losses", "sendErrors"}),
   Persona({"AutoDrive"}, {"drive", "info"}, {"jumps"}),
   Persona({"AutoDrive", "Gnss"}, {"drive", "info", "position"}, {}),
   Persona({"AutoDrive", "Tim", "Heartbeat"}, {"drive", "beat"},
           {"signals", "lostBeats"}),
   Persona({"Tim"}, {"authority", "tim"}, {"jumps"}),
   Persona({"Tim", "MaintainPower"}, {"power", "switch", "key", "bus"}, {"losses"})}

Drives ==
  {[speed |-> "fast", curvature |-> "turn"], [speed |-> "slow", curvature |-> "turn"]}

GuidanceOrNot == {[guidance |-> g, speed |-> TRUE] : g \in BOOLEAN}
==============================================================================
