SPECIFICATION Spec
CONSTANTS
  Path = {1, 2}
  Content = {"x","y"}
  Worlds <- ThreeWorlds
  MaxUndo = 3
INVARIANTS RewindExact Synced Durable
