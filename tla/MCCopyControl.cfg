CONSTANTS
  Callers = {c1, c2}
  Engines = {e1, e2}
  Buffers = 2
SPECIFICATION FairSpec
INVARIANTS
  NoLostWakeup
  AtMostOneLateBuffer
PROPERTIES
  CancelStopsEngines
  ResumeUnparks
