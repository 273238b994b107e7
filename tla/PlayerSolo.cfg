SPECIFICATION Spec
CONSTANTS
  SourceType = "TS_MEMORY"
  DrmMode = "ENCRYPTED"
  EcmPidKnown = TRUE
  UserWaitingEcmMode = "async"
  MonitorPidChange = FALSE
  Client = {c1}
  Calls <- NoADCalls
  Faults = {}
  Outcomes <- MCOutcomes
  Offered <- KnownStreams
INVARIANTS TypeOK IdleMeansStopped WindowIsQuiet DecodersFollow
PROPERTY SessionSurvivesModeSwitch
