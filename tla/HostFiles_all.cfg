SPECIFICATION Spec
CONSTANTS
  Proc = {"p", "q"}
  Name = {"d1", "d2", "d3"}
  Key = {"c"}
  Bundle = {"b", "e"}
  Programs = {{"b", "e"}}
  Inode = {"i1", "i2", "i3", "i4", "i5"}
  MaxJobs = 4
INVARIANTS InUse Reclaimable CopyWhole
PROPERTY Launches
CHECK_DEADLOCK FALSE
