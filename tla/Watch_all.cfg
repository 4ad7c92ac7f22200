SPECIFICATION WatchSpec
CONSTANTS
  Root = "/"
  Dir = {"/a", "/a/b", "/c"}
  File = {"/a/b/f", "/c/f"}
  Parent <- MCParent
  Leaf <- MCLeaf
  Content = {"x", "y"}
  Ino = {i, j, k}
  MaxQueue = 4
  MaxWatch = 3
  MaxOps = 6
INVARIANT Covered
PROPERTY NoneLost
SYMMETRY Symmetry
CHECK_DEADLOCK FALSE
