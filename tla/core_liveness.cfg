SPECIFICATION FairSpec
CONSTANTS
  Schedules = {"every", "even", "never"}
  Zones = {"UTC", "CET"}
  Local = "UTC"
  Fires <- MCFires
  MaxMissed = 1
  Replicas = {r1}
  Specs <- InTime
  Outcomes = {"Complete"}
  MaxTime = 2
  Budget <- Unlucky
PROPERTIES
  LatestIsStarted
  ActiveSettles
