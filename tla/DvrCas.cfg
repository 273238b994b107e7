\* One client thread; every library call may fail; three recorded pids.
SPECIFICATION Spec
CONSTANTS
  Client = {c1}
  DvrFaults = {"create", "device", "open", "begin", "update", "seek", "pause"}
  DvrStreams <- MCStreams
  MaxStarts = 2
  RecPids = {1, 2, 3, 4}
  RecFaults = {"start", "stop", "update"}
  Unrecorded = {4}
  Repeats = FALSE
  STREAMS_COUNT = 8
  MaxAsked = 3
  CasObj = {o1, o2}
  NoObj = NoObj
  HalFaults = {"open", "service"}
  MaxHalEvents = 2
  Kinds = {"vmx2", "vmx", "wv2", "web", "nagra"}
  EcmPids <- MCEcmPids
  Key = {1, 2}
  PlugSymbols = {"setPrivateData", "provision", "openSession", "processEcm"}
  PlugFaults = {"provision", "openSession", "processEcm"}
  MaxObjects = 2
  MaxPackets = 2
INVARIANTS SessionServesItsClient TapeIsTheList CallbackHoldsItsObject
  PluginIsServed
\* Starts, events and objects are used up.
CHECK_DEADLOCK FALSE
