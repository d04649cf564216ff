SPECIFICATION Spec
CONSTANTS
  Schedules = {"every", "even", "never"}
  Zones = {"UTC", "CET"}
  Local = "UTC"
  Fires <- MCFires
  MaxMissed = 2
  Replicas = {r1, r2}
  Specs <- Swept
  Outcomes = {"Complete"}
  MaxTime = 1
  Budget <- OutdatedAndFaulty
SYMMETRY Symmetry
PROPERTIES
  StartsAfterRecord
  LastScheduleMonotone
