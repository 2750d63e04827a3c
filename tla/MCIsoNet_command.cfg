SPECIFICATION Spec
CONSTANTS
  MaxAddress = 2
  SelfConfigMin = 1
  SelfConfigMax = 2
  Name = {1, 2}
  SelfConfigurable = {1, 2}
  MaxRtxd = 1
  BaseTimeout = 2
  ValidationTimeout = 4
  Station = {1, 2}
  NameOf <- NameIsNumber
  PreferredOf <- AllPreferZero
  RtxdOf <- MixedRtxd
  WatchedBy <- FirstWatches
  AdoptableBy <- FirstAdopts
  CommandedAddresses = {0, 1}
  TimerFirst = FALSE
  ViolationInterval = 3
  MaxStarts = 2
  MaxCommands = 1
  MaxRequests = 0
  MaxData = 2
  MaxPowerCycles = 0
  Exclusive = {}
INVARIANTS
  ClaimConsistent
  ConflictIsContested
  TransportOnHeldAddress
  PartnerTracksPeer
