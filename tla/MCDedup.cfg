SPECIFICATION Spec
CONSTANTS
  Threads = {t1, t2}
  BlockSize = 2
  NumBlocks = 2
  Values = {zero, a}
  Zero = zero
  a = a
  Hash <- MCHash
  NoHash = NoHash
  NoData = NoData
  Requests <- MCRequests
  Faults = {"get", "begin", "db", "commit", "crash"}
SYMMETRY Symmetry
INVARIANTS TypeOK CountsExact MappedHasData TransactionOwned
PROPERTIES ExactChange PutIsStored
