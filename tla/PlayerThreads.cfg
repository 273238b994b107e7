SPECIFICATION Spec
CONSTANTS
  SourceType = "TS_MEMORY"
  DrmMode = "ENCRYPTED"
  EcmPidKnown = TRUE
  UserWaitingEcmMode = "async"
  MonitorPidChange = FALSE
  Client = {c1, c2}
  Calls <- ThreadCalls
  Faults = {"create", "startAudio", "startAD"}
  Outcomes <- MCOutcomes
  Offered <- VideoAudioAndAD
SYMMETRY Threads
INVARIANTS CodecLayerInUse ParserInUse PreparingWaits
