SPECIFICATION Spec
CONSTANTS
  Threads = {t1, t2}
  BlockSize = 2
  NumBlocks = 2
  NumLocks = 2
  NumMirrors = 2
  Values = {zero, a}
  Zero = zero
  a = a
  Requests <- FileRequests
  Backend = "file"
  Faults = {"get_block", "put_block", "trim", "mirror"}
SYMMETRY Symmetry
INVARIANTS MirrorsAgree
