CONSTANTS
  Node = {1, 2}
  Message = {1, 3, 4}
  PgnOf <- CrossPgn
  SourceOf <- CrossSource
  DestinationOf <- MixedDestination
  SizeOf <- ThreePackets
  MaxSessions = 3
  Advertised = 2
  PacketsPerCts = 2
  MaxRetransmits = 1
  MaxReceive = 3
  MaxPendingTx = 2
  BamInterval = 1
  T1 = 3
  T2 = 4
  T3 = 4
  Prompt = TRUE
  MaxLost = 2
  MaxForeign = 0
  Leavers = {}
SPECIFICATION FairSpec
PROPERTIES
  EverySendSettles
  EverySendArrives
