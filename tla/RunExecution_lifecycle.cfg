\* Two stop requests against one execution, with deletion and crash.
SPECIFICATION Spec
CONSTANTS
  Stops = {s1, s2}
INVARIANTS
  TypeOK
  CancellationKept
  CallbackAgrees
PROPERTY
  Settles
CHECK_DEADLOCK FALSE
