SPECIFICATION Spec
CONSTANTS
  MaxBack = 1
  LinkTimeout = 1
  MinTx = 1
  MaxTx = 2
  CommandStale = 1
  IsbTimeout = 1
  MaxNormal = 3
  MaxJump = 2
  RecoveryCount = 2
  CommTimeout = 1
  PositionTimeout = 1
  QualityTimeout = 2
  AuthorityTimeout = 2
  MaxPending = 1
  ShutdownMin = 1
  MaintainTime = 2
  MaxExtension = 4
  Personas <- Seven
  Commands <- Drives
  InfoReports = {"NotLimited", "LimitedHigh", "EngageSwitchOff"}
  FacilityReports <- GuidanceOrNot
  TickGap = 1
INVARIANTS
  StopMeansHalt
  WithdrawalIsOwed
  SteeringIsSupervised
  CleanPeerIsTrusted
  GrantIsCovered
PROPERTIES
  SafelyStops
  FaultsStop
  PowerIsHeld
