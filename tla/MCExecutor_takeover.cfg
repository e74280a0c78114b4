\* Two instructions, one requested pause, any interleaving.
SPECIFICATION Spec
CONSTANTS
  None = None
  Names = {"out"}
  Workflows <- MCTakeoverWorkflows
  Instructions <- MCAnyInstruction
  MaxItems = 0
  MaxJumps = 3
  MaxResumes = 2
  MaxPauses = 1
INVARIANTS
  TypeOK
  CancelWithinOneStep
  CountsMatchRows
  IdleWhilePaused
  SessionOnlyWhileAlive
  TokensTakeLastOutput
PROPERTY
  KeepsContract
