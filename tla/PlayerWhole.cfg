SPECIFICATION FairSpec
CONSTANTS
  SourceType = "TS_MEMORY"
  DrmMode = "ENCRYPTED"
  EcmPidKnown = TRUE
  UserWaitingEcmMode = "async"
  MonitorPidChange = FALSE
  Client = {c1}
  Calls <- WholeCalls
  Faults = {}
  Outcomes <- MCOutcomes
  Offered <- ProbedStreams
INVARIANT PhaseTellsStreams
PROPERTIES FlushKeepsPause PreparationEnds
