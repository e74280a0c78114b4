\* Two schedules; the zone of one is changed to one that is refused.
SPECIFICATION Spec
CONSTANTS
  Ids = {s1, s2}
  Handlers = {h1}
  Crons = {daily}
  Zones = {utc, atlantis}
  RejectedCrons = {}
  RejectedZones = {atlantis}
  None = None
PROPERTY
  SurvivesRestart
CHECK_DEADLOCK FALSE
