SPECIFICATION Spec
CONSTANTS
  Runner = {"a", "b"}
  Path = {"f", "l", "s"}
  Content = {"x", "fwd"}
  ReadOnly = {"l"}
  Scaffold = {"s"}
  Forwarder = "fwd"
  MaxRuns = 2
  MaxTools = 1
INVARIANTS Chained
PROPERTIES NoLostWrite ScaffoldHidden Ends
CHECK_DEADLOCK FALSE
