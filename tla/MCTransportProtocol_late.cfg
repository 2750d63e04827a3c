CONSTANTS
  Node = {1, 2}
  Message = {1, 2, 3, 4, 5, 6}
  PgnOf <- CrossPgn
  SourceOf <- CrossSource
  DestinationOf <- MixedDestination
  SizeOf <- OneTooLong
  MaxSessions = 2
  Advertised = 2
  PacketsPerCts = 2
  MaxRetransmits = 1
  MaxReceive = 3
  MaxPendingTx = 1
  BamInterval = 1
  T1 = 2
  T2 = 3
  T3 = 3
  Prompt = FALSE
  MaxLost = 0
  MaxForeign = 1
  Leavers = {1}
SPECIFICATION Spec
CONSTRAINT WithinOneMix
INVARIANTS
  TypeOK
  OneSessionPerPath
  SessionCap
  PayloadIntegrity
  AckedMeansDelivered
  DeliveredOnce
  AcceptedIsSomewhere
