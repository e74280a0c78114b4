\* Two requests at a time, fires, failures, deletion and restarts against one schedule.
SPECIFICATION Spec
CONSTANTS
  Ids = {s1}
  Handlers = {h1, h2}
  Crons = {daily, hourly, broken}
  Zones = {utc, atlantis}
  RejectedCrons = {broken}
  RejectedZones = {atlantis}
  None = None
INVARIANTS
  TypeOK
  JobsMatchRows
  RunsAreWanted
CHECK_DEADLOCK FALSE
