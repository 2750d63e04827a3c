CONSTANTS
  Node = {1, 2}
  Message = {1, 2, 3}
  PgnOf <- BroadcastPgn
  SourceOf <- FromFirst
  DestinationOf <- ToAll
  SizeOf <- TwoPackets
  MaxSessions = 3
  Advertised = 2
  PacketsPerCts = 2
  MaxRetransmits = 1
  MaxReceive = 3
  MaxPendingTx = 2
  BamInterval = 1
  T1 = 2
  T2 = 3
  T3 = 3
  Prompt = TRUE
  MaxLost = 2
  MaxForeign = 0
  Leavers = {}
SPECIFICATION Spec
INVARIANTS
  PayloadIntegrity
