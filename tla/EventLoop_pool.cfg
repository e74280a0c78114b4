\* One thread for two executions and a reader; one instruction ahead of a pause at most.
SPECIFICATION Spec
CONSTANTS
  Executions = {e1, e2}
  Readers = {r1}
  Threads = 1
  Instructions <- MCInstructions
  MaxPauses = 2
  Careful = TRUE
  None = None
INVARIANTS
  TypeOK
PROPERTIES
  KeepContracts
  ResumesReturn
  AllServed
CHECK_DEADLOCK FALSE
