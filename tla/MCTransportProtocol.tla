----------------------- MODULE MCTransportProtocol -----------------------
(***************************************************************************)
(* Traffic for model checking TransportProtocol: who sends what to whom.   *)
(***************************************************************************)
EXTENDS TransportProtocol

\* From node 1 to node 2: a PGN (1), another one (2), the first one again (3),
\* and a message beyond MaxReceive (5).  Both nodes broadcast (4 and 6).
CrossPgn == [m \in Message |-> IF m \in {2, 5, 6} THEN 20 ELSE 10]
CrossSource == [m \in Message |-> IF m = 4 THEN 2 ELSE 1]
MixedDestination == [m \in Message |-> IF m \in {4, 6} THEN BROADCAST_ADDRESS ELSE 2]
OneTooLong == [m \in Message |-> CASE m \in {2, 4, 6} -> 2 [] m = 5 -> 4 [] OTHER -> 3]

\* Node 1 broadcasts two PGNs and the first one again.
BroadcastPgn == [m \in Message |-> IF m = 2 THEN 20 ELSE 10]
FromFirst == [m \in Message |-> 1]
ToAll == [m \in Message |-> BROADCAST_ADDRESS]

\* Messages of two and of three packets.
TwoPackets == [m \in Message |-> 2]
ThreePackets == [m \in Message |-> 3]

\* What is sent in one behaviour, and the faults that go with it.
Mix ==
  {[sent |-> {1, 2, 3}, faults |-> {"leave"}],
   [sent |-> {1, 5}, faults |-> {"foreign"}],
   [sent |-> {1, 4, 6}, faults |-> {}]}

\* The state constraint of tp_late: invariants are checked on each mix alone.
WithinOneMix ==
  \E x \in Mix :
    /\ {m \in Message : status[m] # "unsent"} \subseteq x.sent
    /\ offline # {} => "leave" \in x.faults
    /\ used.foreign > 0 => "foreign" \in x.faults
=============================================================================
