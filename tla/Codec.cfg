\* Two players; every library call may fail; three ES buffers against a
\* queue of two, where the code has 101.
SPECIFICATION Spec
CONSTANTS
  BasePlayer = {b1, b2}
  NoPlayer = NoPlayer
  HasTunerHal = TRUE
  MultiHwDemux = FALSE
  NonTunnel = FALSE
  EsMemory = TRUE
  CreateOptions = {"none"}
  SubtitleCodec = {"UNKNOWN", "CC"}
  SubtitleFaults = {"open"}
  MissingSymbol = {"Create"}
  CtcVolume = {1}
  CtcRate = {1500}
  MaxCtcStarts = 2
  TvVideoCodecs = {"UNKNOWN", "H264", "AVS2"}
  TvAudioCodecs = {"UNKNOWN", "AAC", "FLAC"}
  TrackFormats = {"AAC_LC"}
  TunerFaults = {"demux", "filter"}
  MaxTunerHandles = 24
  TsFaults = {"startAudio"}
  FeedBound = 1
  MaxEsWrites = 3
  EsSize = {0, 1, 2, 3, 167, 168, 169, 170, 351, 352, 353, 354, 700}
  PacketsAtStart = 3
  Stuffing = 2
  GarbageCounter = {16, 99}
  MaxEsBuffers = 2
INVARIANTS SubtitlesFindTheirPlayer LayersHoldWhatIsOpen EveryBufferReturns PacketsAddUp
PROPERTY AudioStopEnds
\* Starts, handles and buffers are used up.
CHECK_DEADLOCK FALSE
