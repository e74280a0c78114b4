\* Workflows run front to back, with loops alone and nested, every kind of pause, and
\* a developer who may stay away.
SPECIFICATION Spec
CONSTANTS
  None = None
  Names = {"item", "idx", "inner", "jdx"}
  Workflows <- MCForwardWorkflows
  Instructions <- MCForwardInstructions
  MaxItems = 2
  MaxJumps = 9
  MaxResumes = 3
  MaxPauses = 1
INVARIANTS
  ArmedAfterTrigger
  RetryBounded
  RetryUncountsItsOwn
  EveryStepRuns
  FramesNest
  EveryItemVisited
  BodyReadsItsItem
PROPERTY
  EventuallyReturns
