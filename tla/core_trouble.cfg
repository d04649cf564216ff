SPECIFICATION Spec
CONSTANTS
  Schedules = {"every", "even", "never"}
  Zones = {"UTC", "CET"}
  Local = "UTC"
  Fires <- MCFires
  MaxMissed = 1
  Replicas = {r1}
  Specs <- Suspendable
  Outcomes = {"Complete"}
  MaxTime = 2
  Budget <- Troubled
INVARIANTS
  RunAtMostOnce
  DecisionIsFresh
PROPERTIES
  LastScheduleMonotone
  ImplementsRuns
