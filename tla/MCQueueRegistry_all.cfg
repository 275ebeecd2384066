CONSTANTS
  Enqueuers = {t1, t2}
  Drives = {C, D}
  MaxJobs = 2
  MaxQueues = 2
  UiCommands = {"pause", "resume", "cancel", "remove", "merge", "f2"}
SPECIFICATION Spec
SYMMETRY Symmetric
INVARIANTS
  NoJobDuplicated
  NoJobLost
  OneQueuePerDrive
  CancelReachesControl
  TerminalRecordsAgree
