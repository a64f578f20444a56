SPECIFICATION Spec
CONSTANTS
  None = None
  Count = 2
  MaxDepth = 2
  MaxErrors = 3
  Function <- Typical
INVARIANTS TypeOK StopIsFinal HonestReturn MessageOrigin MessageOrder
