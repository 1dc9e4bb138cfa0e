SPECIFICATION FairSpec
CONSTANTS
  MaxConnections = 2
  MaxRequests = 3
  Guests = {g}
  MaxEach = 2
  Blocks = {b}
  Zero = Zero
  Values = {Zero, v}
  StandardReply = TRUE
  Faults = {"break", "storage", "die"}
  Backend = Backend
INVARIANTS TypeOK CallsTakeEffect FlushCovers FuaBeforeNextAnswer
PROPERTIES Progress
CHECK_DEADLOCK FALSE
