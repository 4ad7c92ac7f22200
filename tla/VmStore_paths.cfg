SPECIFICATION Spec
CONSTANTS
  Path = {p,q}
  Piece = {a,b}
  MaxChunks = 1
  Snap = {}
  Undo = {u1}
  Conn = {c1}
  NodeKind = {"dir"}
  Live = live
  NoPiece = nopiece
  NoHash = nohash
  NoPath = nopath
  NoUndo = noundo
  NoConn = noconn
SYMMETRY Symmetry
INVARIANTS ChunkListExact
PROPERTIES UndoKeepsOrigin
