SPECIFICATION Spec
CONSTANTS
  Schedules = {"every", "even", "never"}
  Zones = {"UTC", "CET"}
  Local = "UTC"
  Fires <- MCFires
  MaxMissed = 2
  Replicas = {r1}
  Specs <- Exclusive
  Outcomes = {"Complete", "Failed"}
  MaxTime = 4
  Budget <- Outdated
INVARIANTS
  TypeOK
  NoOverlap
  RunAtMostOnce
  RunningIsTracked
PROPERTIES
  SweepSparesRunning
  SweepKeepsNewest
