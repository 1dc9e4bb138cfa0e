SPECIFICATION Spec
CONSTANTS
  Threads = {t1, t2}
  Blocks = {b1, b2}
  Bins = {0}
  Bin <- MCBin
  NoBlock = NoBlock
  Descriptors = 2
  Values = {zero, a}
  Zero = zero
  Ops = {"get", "put", "part"}
  Faults = {"meta_get", "get", "evict", "put", "store", "crash"}
SYMMETRY Symmetry
INVARIANTS TypeOK OneDescriptor NothingLost
PROPERTIES EvictedFirst
