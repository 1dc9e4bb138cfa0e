SPECIFICATION Spec
CONSTANTS
  Threads = {t1, t2}
  Blocks = {b1, b2}
  Bins = {0}
  Bin <- MCBin
  NoBlock = NoBlock
  Descriptors = 2
  Values = {zero, a}
  Zero = zero
  Ops = {"get", "put"}
  Faults = {}
SYMMETRY Symmetry
INVARIANT ReadsWhatWasWritten
