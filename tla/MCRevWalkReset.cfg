SPECIFICATION Spec
CONSTANTS
  c1 = c1
  c2 = c2
  c3 = c3
  HEAD = HEAD
  None = None
  Commit <- MCCommit
  Parents <- MCParents
  Name <- MCName
  Tip = {c2}
  Fragile = {c1, c2}
INVARIANT OverIsReset
