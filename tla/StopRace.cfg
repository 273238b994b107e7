SPECIFICATION Spec
CONSTANTS
  SourceType = "TS_MEMORY"
  DrmMode = "NORMAL"
  EcmPidKnown = TRUE
  UserWaitingEcmMode = "async"
  MonitorPidChange = FALSE
  Client = {c1, c2}
  Calls <- ThreadCalls
  Faults = {}
  Outcomes <- MCOutcomes
  Offered <- VideoAudioAndAD
INVARIANT IdleMeansStopped
