SPECIFICATION Spec
CONSTANTS
  Clients = {c1}
  NumBlocks = 2
  Zero = zero
  Values = {zero, a}
  N = 2
  Ops = {"write", "trim"}
  Faults = {"slot", "data", "meta", "clear", "fetch", "crash"}
  Shutdown = {"delete", "flush_journal"}
INVARIANTS TypeOK RingConsistent StoredWindowReadable FlushedToData NoWakeupLost
PROPERTIES CrashSafe
