SPECIFICATION FairSpec
CONSTANTS
  Clients = {"u", "v"}
  Keys <- MCKeys
  Initial <- MCInitial
  Budgets <- MCBudgets
  Callers = {"main", "other"}
  Types = {"TZCronJob", "Other"}
  Namespace = {"n1"}
INVARIANTS
  TypeOK
  OneInformerPerType
  RunOnce
  SyncedStoreIsFilled
  StoreIsOneState
  NothingLost
PROPERTIES
  CallsReturn
  WaitsEnd
  CatchesUp
CHECK_DEADLOCK FALSE
