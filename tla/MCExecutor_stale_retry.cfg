\* A requested pause between an error pause and the retry it was resumed with.
SPECIFICATION Spec
CONSTANTS
  None = None
  Names = {}
  Workflows <- MCTolerant
  Instructions <- MCForwardInstructions
  MaxItems = 0
  MaxJumps = 0
  MaxResumes = 2
  MaxPauses = 1
INVARIANT
  CompletedMeansResolved
