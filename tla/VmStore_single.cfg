SPECIFICATION Spec
CONSTANTS
  Path = {p}
  Piece = {a,b}
  MaxChunks = 2
  Snap = {s1}
  Undo = {u1}
  Conn = {c1}
  NodeKind = {"dir","symlink"}
  Live = live
  NoPiece = nopiece
  NoHash = nohash
  NoPath = nopath
  NoUndo = noundo
  NoConn = noconn
SYMMETRY Symmetry
INVARIANTS TypeOK RefcountExact ChunkListExact LiveHashFresh
