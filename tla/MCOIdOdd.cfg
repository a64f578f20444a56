SPECIFICATION Spec
CONSTANTS
  Var = {o1, o2}
  NoId = NoId
  RawSz = 2
  Byte = {0, 1}
  Zero = 0
SYMMETRY VarSymmetry
CHECK_DEADLOCK FALSE
INVARIANT LengthIsDigits
