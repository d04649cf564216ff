SPECIFICATION Spec
CONSTANTS
  Schedules = {"every", "even", "never"}
  Zones = {"UTC", "CET"}
  Local = "UTC"
  Fires <- MCFires
  MaxMissed = 2
  Replicas = {r1}
  Specs <- SweptAndReplaced
  Outcomes = {"Complete"}
  MaxTime = 2
  Budget <- OutdatedAndRemoved
INVARIANTS
  OrphansAreLeft
  ActiveIsOwned
PROPERTIES
  ImplementsRuns
