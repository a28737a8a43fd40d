\* One edit that leaves the tree to be normalised, under fairness, with crashes
\* and failing compactions.
SPECIFICATION FairSpec
CONSTANTS
  Edit = {e1}
  Op = {}
  Restored = {}
  Legacy = {e1}
  Fix = fix
  ReadOnlySize = 2
  MaxApply = 2
PROPERTIES
  AckedIsProjected
