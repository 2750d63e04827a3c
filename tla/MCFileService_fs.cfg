SPECIFICATION FairSpec
CONSTANTS
  a = a
  b = b
  Client <- Both
  TanCount = 255
  MaxHandle = 3
  MaxOpenPerClient = 2
  MaxOpenTotal = 2
  CcmTimeout = 3
  TanTimeout = 1
  StatusInterval = 1
  BusyStatusInterval = 1
  RemovalTime = 2
  CcmInterval = 1
  RequestTimeout = 1
  ServerStatusTimeout = 3
  Scenario <- Scenes
INVARIANTS
  SingleWriter
  HandlesAccounted
  VolumeIsWhole
  MirrorsAgree
PROPERTIES
  ConnectingSettles
  RequestsSettle
  ClientsNotice
  LeftoversAreClosed
  RemovalCompletes
