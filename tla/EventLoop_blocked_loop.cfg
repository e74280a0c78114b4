\* Two instructions ahead of the pauses.
SPECIFICATION Spec
CONSTANTS
  Executions = {e1}
  Readers = {r1}
  Threads = 1
  Instructions <- MCInstructions
  MaxPauses = 1
  Careful = FALSE
  None = None
PROPERTY
  ResumesReturn
CHECK_DEADLOCK FALSE
