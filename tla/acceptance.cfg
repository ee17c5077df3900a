SPECIFICATION LineageSpec
CONSTANTS
  Artifacts = {root, child, sibling, grandchild}
  Gates = {public, hidden}
  Root = root
  MaxItems = 2
  Empty = Empty
INVARIANTS
  NothingRegresses
