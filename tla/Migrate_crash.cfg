SPECIFICATION MigrateSpec
CONSTANTS
  File = {f, g}
  Piece = {a, b}
  Opener = {o1, o2}
  NoHash = nohash
INVARIANTS ContentKept VerifyDeep StepsApply 
