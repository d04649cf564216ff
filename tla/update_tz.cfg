SPECIFICATION FairSpec
CONSTANTS
  Files = {"Amsterdam", "Nuuk", "Godthab", "Kyiv"}
  Release <- MCRelease
  Embedded = {}
  Configs <- MCConfigs
  Width = 4
  Trouble = 2
INVARIANTS
  TypeOK
  CompleteIfCurrent
  ZonesLast
  BackoffIsExact
PROPERTIES
  BecomesCurrent
