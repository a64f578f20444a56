SPECIFICATION Spec
CONSTANTS
  a1 = a1
  a2 = a2
  a3 = a3
  a4 = a4
  a5 = a5
  None = None
  Addr <- MCAddr
  Function <- Typical
  Items = 2
  MaxDepth = 2
SYMMETRY MCSymmetry
INVARIANT NotifiedDiffContinues
