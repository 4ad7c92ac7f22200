SPECIFICATION Spec
CONSTANTS
  Path <- MCPath
  Anc <- MCAnc
  Piece = {"a","b"}
  MaxChunks = 2
  Bodies <- MCBodies
  Wide = {"d/e/y"}
  Rollback = {TRUE, FALSE}
  ReadOnly = {}
  MaxFile = 2
  Quota = 4
  Snap = {}
  Undo = {}
  Live = "live"
  NoPiece = "nopiece"
  NoHash = nohash
  NoUndo = noundo
CHECK_DEADLOCK FALSE
INVARIANTS DeltaRefsExact LayersWhole   
  
