SPECIFICATION Spec
CONSTANTS
  HEAD = HEAD
  main = main
  topic = topic
  light = light
  o1 = o1
  o2 = o2
  None = None
  Name <- MCName
  Branch <- MCBranch
  Oid <- MCOid
  h1 = h1
  h2 = h2
  Handle <- MCHandle
  Nesting = 4
SYMMETRY MCSymmetry
INVARIANTS TypeOK BranchesDirect
PROPERTIES OutdatedOverwrites BranchesKeepHead DetachedOnPurpose
