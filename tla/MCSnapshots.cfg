SPECIFICATION Spec
SYMMETRY Symmetry
CONSTANTS
  Writers = {w1, w2}
  MaxSnapshots = 2
  MaxRequests = 2
  BlockSize = 2
  NumBlocks = 2
  Values = {zero, a}
  Zero = zero
  a = a
  Requests <- MCRequests
  SparseFiles = TRUE
  BadCopies <- MCBadCopies
  PutFails = TRUE
INVARIANTS TypeOK PictureOfItsMoment FinishedIsComplete
PROPERTIES CopiedBeforeChanged
CHECK_DEADLOCK FALSE
