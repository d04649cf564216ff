SPECIFICATION Spec
CONSTANTS
  Schedules = {"every", "even", "never"}
  Zones = {"UTC", "CET"}
  Local = "UTC"
  Fires <- MCFires
  MaxMissed = 2
  Replicas = {r1}
  Specs <- ForbidEdited
  Outcomes = {"Complete"}
  MaxTime = 2
  Budget <- Edited
INVARIANTS
  NoOverlap
