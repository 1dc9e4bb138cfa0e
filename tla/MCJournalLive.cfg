SPECIFICATION FairSpec
CONSTANTS
  Clients = {c1, c2}
  NumBlocks = 2
  Zero = zero
  Values = {zero}
  N = 2
  Ops = {"write", "trim"}
  Faults = {}
  Shutdown = {}
PROPERTIES WaitersWoken DrainsWhenQuiet
