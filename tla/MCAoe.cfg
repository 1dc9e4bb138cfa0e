SPECIFICATION FairSpec
CONSTANTS
  Targets = {s1, s2}
  target = s1
  Blocks = {0, 1}
  SectorsPerBlock = 2
  Zero = Zero
  Values = {Zero, v}
  Faults = {"lose", "storage", "device"}
  MaxFaults = 2
  MaxCalls = 2
  MaxFrames = 2
INVARIANTS TypeOK SectorsAsWritten
PROPERTIES CallsReturn
CHECK_DEADLOCK FALSE
