SPECIFICATION Spec
CONSTANTS
  v1 = v1
  v2 = v2
  v3 = v3
  v4 = v4
  n1 = n1
  n2 = n2
  n3 = n3
  Wild = Wild
  None = None
  Var <- MCVar
  Native <- MCNative
  Used <- MCUsed
  MaxClasses = 3
SYMMETRY MCSymmetry
INVARIANTS BorrowingInv FaultsAreAccused LeaksAreAccused
PROPERTY ImplementsOwnership
CHECK_DEADLOCK FALSE
