CONSTANTS
  c1 = c1
  c2 = c2
  scm = scm
  Client <- OneClient
  Master <- scm
  StepId = {1}
  RequiredClients = 1
  StatusInterval = 1
  MinSpacing = 1
  ActiveInterval = 2
  IdleInterval = 4
  ActiveLimit = 3
  ReadyLimit = 5
  BusyLimit = 2
  BootTime = 2
  MaxLost = 0
  MaxOff = 0
  MaxOrders = 1
SPECIFICATION FairAppSpec
PROPERTIES
  AbortEnds
