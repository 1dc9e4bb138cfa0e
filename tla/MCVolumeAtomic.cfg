SPECIFICATION LSpec
CONSTANTS
  Threads = {t1, t2}
  BlockSize = 2
  NumBlocks = 3
  NumLocks = 2
  NumMirrors = 1
  Values = {zero, a}
  Zero = zero
  a = a
  Requests <- CoveredRequests
  Backend = "compressed-dir"
  Faults = {"get_block", "put_block"}
SYMMETRY Symmetry
INVARIANTS TypeOK NoCircularWait MirrorsAgree
PROPERTIES Linearizable
