\* One stop.
SPECIFICATION Spec
CONSTANTS
  Stops = {s1}
INVARIANT
  AcknowledgedStopLasts
CHECK_DEADLOCK FALSE
