SPECIFICATION FairSpec
CONSTANTS
  Schedules = {"every", "odd", "never"}
  Zones = {"UTC", "CET"}
  Local = "UTC"
  Fires <- MCFires
  MaxMissed = 2
  Names = {"a", "b"}
  Clusters <- MCClusters
  Second = 2
  Half = 8
  Oldest <- MCOldest
  MaxTime = 3
INVARIANTS
  TypeOK
  LoopIsUnmetTimes
  WrappedDeadlineSuppresses
  LateAtLeastIntegerOnly
  PanicNeedsNegativeLimit
  OldestGoFirst
  HistoryWithinLimits
PROPERTIES
  EachMindsItsOwn
  EachIsServed
