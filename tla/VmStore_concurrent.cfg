SPECIFICATION Spec
CONSTANTS
  Path = {p}
  Piece = {a,b}
  MaxChunks = 1
  Snap = {s1}
  Undo = {}
  Conn = {c1,c2}
  NodeKind = {"dir"}
  Live = live
  NoPiece = nopiece
  NoHash = nohash
  NoPath = nopath
  NoUndo = noundo
  NoConn = noconn
SYMMETRY Symmetry
INVARIANTS RefcountExact ChunkListExact SavedHashFresh
PROPERTIES SnapshotImmutable
