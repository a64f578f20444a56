SPECIFICATION Spec
CONSTANTS
  repo = repo
  other = other
  a = a
  b = b
  x = x
  y = y
  None = None
  Gone = Gone
  Side = Side
  Memory <- MCMemory
  Repo = {repo}
  Path <- MCPath
  Blob <- MCBlob
  Tree <- MCTree
  Disputed = {a}
  Pathspec <- MCPathspec
  Entry = {e}
SYMMETRY MCSymmetry
INVARIANTS TypeOK UnsavedAreEdits EntriesAreCurrent
PROPERTY FreshWritesKeepOthers
