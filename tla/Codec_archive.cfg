SPECIFICATION Spec
CONSTANTS
  target = target
  package = package
  Db = {target, package}
  Content = {"x", "z"}
  Inside <- InsideOne
  Dict = {d, e}
  Room <- RoomSmall
  NoDict = nodict
  Error = "error"
SYMMETRY Symmetry
INVARIANTS RawReadable
