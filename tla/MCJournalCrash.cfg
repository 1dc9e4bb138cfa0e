SPECIFICATION Spec
CONSTANTS
  Clients = {c1, c2}
  NumBlocks = 2
  Zero = zero
  Values = {zero, a}
  N = 2
  Ops = {"write", "trim"}
  Faults = {"crash", "torn"}
  Shutdown = {}
SYMMETRY Symmetry
INVARIANT CacheMatchesRing
PROPERTIES LiveSlotsKept CrashSafe
