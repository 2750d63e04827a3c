SPECIFICATION Spec
CONSTANTS
  MaxAddress = 2
  SelfConfigMin = 1
  SelfConfigMax = 2
  Name = {1}
  SelfConfigurable = {1}
  MaxRtxd = 1
  BaseTimeout = 2
  ValidationTimeout = 4
  Station = {1, 2}
  NameOf <- AllNamedOne
  PreferredOf <- PreferOwnNumber
  RtxdOf <- MixedRtxd
  WatchedBy <- NoneWatched
  AdoptableBy <- NoneAdoptable
  CommandedAddresses = {}
  TimerFirst = FALSE
  ViolationInterval = 3
  MaxStarts = 3
  MaxCommands = 0
  MaxRequests = 0
  MaxData = 0
  MaxPowerCycles = 0
  Exclusive = {}
PROPERTIES
  TimersKeepFailed
