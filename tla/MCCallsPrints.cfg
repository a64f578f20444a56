SPECIFICATION Spec
CONSTANTS
  None = None
  Count = 2
  MaxDepth = 2
  MaxErrors = 3
  Function <- Differing
INVARIANT FalseStopsPrinting
