CONSTANTS
  c1 = c1
  c2 = c2
  scm = scm
  Client <- OneClient
  Master <- scm
  StepId = {1, 2}
  RequiredClients = 1
  StatusInterval = 1
  MinSpacing = 1
  ActiveInterval = 2
  IdleInterval = 4
  ActiveLimit = 3
  ReadyLimit = 5
  BusyLimit = 2
  BootTime = 2
  MaxLost = 1
  MaxOff = 1
  MaxOrders = 1
SPECIFICATION Spec
INVARIANTS
  TypeOK
  CreditedAreWatched
  AcksAreEarned
  SilentClientHaltsMaster
  ClientsHaltWithoutMaster
