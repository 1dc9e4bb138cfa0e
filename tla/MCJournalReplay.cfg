SPECIFICATION Spec
CONSTANTS
  Clients = {c1}
  NumBlocks = 2
  Zero = zero
  Values = {zero, a}
  N = 2
  Ops = {"write", "zero"}
  Faults = {"replay", "crash", "fetch"}
  Shutdown = {}
INVARIANT RecoverySafe
