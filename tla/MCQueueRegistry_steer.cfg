CONSTANTS
  Enqueuers = {t1, t2}
  Drives = {D}
  MaxJobs = 2
  MaxQueues = 1
  UiCommands = {"pause", "resume", "cancel", "f2"}
SPECIFICATION FairSpec
INVARIANTS
  RunningHasRunner
PROPERTIES
  EveryJobGetsARunner
  CancelledJobsEnd
