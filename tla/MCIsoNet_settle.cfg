SPECIFICATION FairSpec
CONSTANTS
  MaxAddress = 2
  SelfConfigMin = 1
  SelfConfigMax = 2
  Name = {1, 2}
  SelfConfigurable = {1, 2}
  MaxRtxd = 1
  BaseTimeout = 4
  ValidationTimeout = 4
  Station = {1, 2}
  NameOf <- NameIsNumber
  PreferredOf <- AllPreferZero
  RtxdOf <- MixedRtxd
  WatchedBy <- NoneWatched
  AdoptableBy <- NoneAdoptable
  CommandedAddresses = {}
  TimerFirst = TRUE
  ViolationInterval = 3
  MaxStarts = 3
  MaxCommands = 0
  MaxRequests = 1
  MaxData = 0
  MaxPowerCycles = 1
  Exclusive = {"requests", "cycles"}
INVARIANTS
  TypeOK
  UniqueClaimedAddress
PROPERTIES
  ClaimingSettles
