------------------------------ MODULE CtcPlayer ------------------------------
(***************************************************************************)
(* player/AmlCTCPlayer.cpp: the codec layer over libliveplayer.so.  ctc    *)
(* holds the members of one object, lib what the library holds (external,  *)
(* known from the calls made to it).  Every call goes through a wrapper of *)
(* AmlHalPlayer, which looks its symbol up first: in a library that lacks  *)
(* the symbol nothing happens and the wrapper fails.  The layer keeps its  *)
(* settings and passes them to a library player made anew by every start   *)
(* that follows a stop.  A layer lives under one lock of the object above, *)
(* so its methods are steps.                                               *)
(***************************************************************************)
EXTENDS Integers, FiniteSets

CONSTANTS
  MissingSymbol,  \* symbols libliveplayer.so may lack
  CtcVolume,      \* volumes, and
  CtcRate,        \* rates in thousandths, that clients set
  MaxCtcStarts    \* bound: library players made, demuxes opened

NoLib == 0

(* The function pointers of AmlHalPlayer, each null until it is first      *)
(* called; what the library calls player, channel, demux and audio system. *)
Symbol ==
    {"GetVersion", "GetCodecCapabilities", "GetDefaultConfig", "Create",
     "SetStreamType", "RegisterEvent64", "UnRegisterEvent", "GetAttr",
     "SetAttr", "Pause", "Resume", "Start", "Stop", "FlushStream", "Reset",
     "Destroy", "SetDecodeMode", "GetPlaySpeed", "Tplay", "GetStatusInfo",
     "SetVideoSize", "Get_SideBandHandle", "SetSurface", "SetVideoTunnelId",
     "SetNetworkJitter", "SetAudioOutputType", "SetAudioPtsOffset",
     "SetVideoPtsOffset", "SetScreenMode", "PushEsBuffer", "PushEsBuffer90K",
     "SetVolume", "ChnOpen", "ChnClose", "ChnGetAttr", "ChnSetAttr",
     "ChnStart", "ChnStop", "GetConfig", "SetConfig", "GetCCEsData",
     "OpenDemux", "CloseDemux", "StartDemux", "StopDemux", "FlushDemux",
     "CreateChannel", "DestroyChannel", "OpenChannel", "CloseChannel",
     "CreateFilter", "DestroyFilter", "AttachFilter", "DetachFilter",
     "PushTsBuffer", "GetParameters", "SetParameters"}

ASSUME CtcAssumption == MissingSymbol \subseteq Symbol

VARIABLES
  ctc,        \* the members of the object, and "made"
  lib,        \* the library: [players, demuxes, vid, aud, play, ...]
  missing,    \* the symbols this library lacks
  lostCalls,  \* calls the library got for a null player
  ctcHeard    \* the events the client heard

ctcvars == <<ctc, lib, missing, lostCalls, ctcHeard>>

NewCtc == [made |-> TRUE, videoSet |-> FALSE, audioSet |-> FALSE,
           player |-> NoLib, demux |-> NoLib, sync |-> "AUDIO", pcr |-> FALSE,
           surface |-> FALSE, tunnel |-> FALSE, output |-> "NORMAL",
           volume |-> 100, keepLast |-> TRUE]
NoCtc == [NewCtc EXCEPT !.made = FALSE]

NoSync == [ref |-> "none", pcr |-> FALSE]

\* What the library plays: one player's channels and settings.
QuietLib == [vid |-> "closed", aud |-> "closed", play |-> "stopped",
             feed |-> "stopped", sync |-> NoSync, output |-> "none",
             volume |-> 0 - 1, rate |-> 1000, picture |-> "none",
             listens |-> FALSE, muted |-> FALSE]
EmptyLib == [players |-> {}, demuxes |-> {}, made |-> 0, opened |-> 0,
             now |-> QuietLib]

CtcInit ==
    /\ ctc = NoCtc /\ lib = EmptyLib
    /\ missing \in SUBSET MissingSymbol
    /\ lostCalls = 0 /\ ctcHeard = {}

-----------------------------------------------------------------------------
(***************************************************************************)
(* The wrappers: Loaded is FUNC_SYMBOL, and each operator one library call *)
(* as it changes l.  A call for a null player changes nothing.             *)
(***************************************************************************)
Loaded(symbol) == symbol \notin missing

AVPLAY(l, player, symbol, field, value) ==
    IF Loaded(symbol) /\ player # NoLib
    THEN [l EXCEPT !.now[field] = value] ELSE l

AVPLAY_Create(l) ==
    IF Loaded("Create") THEN [l EXCEPT !.players = @ \cup {l.made + 1}, !.made = @ + 1]
    ELSE l

AVPLAY_Destroy(l, player) ==
    IF Loaded("Destroy") THEN [l EXCEPT !.players = @ \ {player}, !.now = QuietLib]
    ELSE l

PLAYER_Chn(l, player, symbol, chan, state) ==
    AVPLAY(l, player, symbol, chan, state)

(* A channel starts when it is open. *)
PLAYER_Start(l, player, chan) ==
    IF Loaded("ChnStart") /\ player # NoLib /\ l.now[chan] # "closed"
    THEN [l EXCEPT !.now[chan] = "started"] ELSE l

PLAYER_Stop(l, player, chan) ==
    IF Loaded("ChnStop") /\ player # NoLib /\ l.now[chan] = "started"
    THEN [l EXCEPT !.now[chan] = "open"] ELSE l

DMX_OpenDemux(l) ==
    IF Loaded("OpenDemux")
    THEN [l EXCEPT !.demuxes = @ \cup {l.opened + 1}, !.opened = @ + 1] ELSE l

DMX_CloseDemux(l, demux) ==
    IF Loaded("CloseDemux") THEN [l EXCEPT !.demuxes = @ \ {demux}] ELSE l

DMX_Feed(l, demux, symbol, state) ==
    IF demux = NoLib \/ ~Loaded(symbol) THEN l ELSE [l EXCEPT !.now.feed = state]

-----------------------------------------------------------------------------
(***************************************************************************)
(* Tables.                                                                 *)
(***************************************************************************)
convertToAmlVideoCodecType(codec) ==
    CASE codec = "MPEG12" -> "MPEG2"
      [] codec \in {"MPEG4", "H264", "HEVC", "VC1", "AVS", "AVS2"} -> codec
      [] OTHER -> "UNKNOWN"

convertToAmlAudioCodecType(codec) ==
    CASE codec \in {"MP2", "MP3"} -> "MP2"
      [] codec = "AAC"  -> "AAC"
      [] codec = "PCM"  -> "ADPCM"
      [] codec = "AC3"  -> "DOLBY_AC3"
      [] codec = "EAC3" -> "DOLBY_AC3PLUS"
      [] codec = "DTS"  -> "DTSHD"
      [] OTHER -> "UNKNOWN"

convertToAmlMediaChannelType(stream) ==
    CASE stream = "VIDEO"    -> "VID"
      [] stream = "AUDIO"    -> "AUD"
      [] stream = "SUBTITLE" -> "SUB"
      [] OTHER -> "NONE"

(* The events of the library a client hears of: two of sixteen. *)
eventCb(event) ==
    CASE event = "FIRST_IFRAME_DISPLAYED" -> {"FIRST_FRAME"}
      [] event = "AUDIO_FIRST_DECODED"    -> {"AUDIO_DECODE_FIRST_FRAME"}
      [] OTHER -> {}

(* The integer part of the rate, and a decimal part that is computed from  *)
(* the integer part.                                                       *)
TplayRate(rate) ==
    LET whole == rate \div 1000 IN whole * 1000 + ((whole * 1000) % 1000)

-----------------------------------------------------------------------------
(***************************************************************************)
(* Life, settings kept for the next start.                                 *)
(***************************************************************************)
CtcCreate ==
    /\ ~ctc.made /\ ctc' = NewCtc
    /\ UNCHANGED <<lib, missing, lostCalls, ctcHeard>>

CtcKeeps(field, value) ==
    /\ ctc.made /\ ctc' = [ctc EXCEPT ![field] = value]
    /\ UNCHANGED <<lib, missing, lostCalls, ctcHeard>>

setANativeWindow(surface) == surface /\ CtcKeeps("surface", TRUE)

(* An invalid pid is refused and the old parameters stay. *)
setVideoParams(valid) ==
    IF valid THEN CtcKeeps("videoSet", TRUE) ELSE UNCHANGED ctcvars

setAudioParams(valid) ==
    IF valid THEN CtcKeeps("audioSet", TRUE) ELSE UNCHANGED ctcvars

setAVSyncSource(source) ==
    IF source \in {"PCR", "AUDIO", "VIDEO"} THEN CtcKeeps("sync", source)
    ELSE UNCHANGED ctcvars

setPcrPid(pid) == CtcKeeps("pcr", pid)

-----------------------------------------------------------------------------
(***************************************************************************)
(* start, as the library call after library call it is.                    *)
(***************************************************************************)
(* Mutant: a demux is opened by every start. *)
BuggyStartDemuxHandle(l) == IF ctc.sync = "PCR" THEN DMX_OpenDemux(l) ELSE l

StartDemuxHandle(l) ==
    IF ctc.sync = "PCR" /\ ctc.demux = NoLib THEN DMX_OpenDemux(l) ELSE l

StartPlayer(l) == IF ctc.player = NoLib THEN AVPLAY_Create(l) ELSE l

StartSettings(l, player) ==
    LET a == AVPLAY(l, player, "SetAttr", "sync",
                   [ref |-> ctc.sync, pcr |-> ctc.pcr])
        b == AVPLAY(a, player, "SetAudioOutputType", "output", ctc.output)
        c == IF ctc.tunnel
             THEN AVPLAY(b, player, "SetVideoTunnelId", "picture", "tunnel")
             ELSE AVPLAY(b, player, "SetSurface", "picture",
                         IF ctc.surface THEN "surface" ELSE "none")
        d == AVPLAY(c, player, "RegisterEvent64", "listens", TRUE)
    IN  AVPLAY(d, player, "SetVolume", "volume", ctc.volume)

StartChannels(l, player) ==
    LET v == IF ctc.videoSet THEN PLAYER_Chn(l, player, "ChnOpen", "vid", "open")
             ELSE l
    IN  IF ctc.audioSet THEN PLAYER_Chn(v, player, "ChnOpen", "aud", "open") ELSE v

(* Both channels are started, whatever was opened; then the player. *)
StartPlays(l, player, demux) ==
    LET d == DMX_Feed(l, demux, "StartDemux", "started")
        v == PLAYER_Start(d, player, "vid")
        a == PLAYER_Start(v, player, "aud")
    IN  AVPLAY(a, player, "Start", "play", "playing")

start ==
    LET o      == StartDemuxHandle(lib)
        demux  == IF o.opened > lib.opened THEN o.opened ELSE ctc.demux
        c      == StartPlayer(o)
        player == IF ctc.player # NoLib THEN ctc.player
                  ELSE IF c.made > lib.made THEN c.made ELSE NoLib
    IN  /\ ctc.made /\ lib.made < MaxCtcStarts /\ lib.opened < MaxCtcStarts
        /\ ctc' = [ctc EXCEPT !.player = player, !.demux = demux]
        /\ lib' = StartPlays(StartChannels(StartSettings(c, player), player),
                             player, demux)
        /\ UNCHANGED <<missing, lostCalls, ctcHeard>>

(* Both channels are closed first, for a null player too. *)
Stopped(l) ==
    LET v == PLAYER_Chn(l, ctc.player, "ChnClose", "vid", "closed")
        a == PLAYER_Chn(v, ctc.player, "ChnClose", "aud", "closed")
        d == DMX_Feed(a, ctc.demux, "StopDemux", "stopped")
        p == AVPLAY(d, ctc.player, "Stop", "play", "stopped")
        e == IF ctc.demux = NoLib THEN p ELSE DMX_CloseDemux(p, ctc.demux)
    IN  IF ctc.player = NoLib THEN e ELSE AVPLAY_Destroy(e, ctc.player)

stop ==
    /\ ctc.made
    /\ lib' = Stopped(lib)
    /\ ctc' = [ctc EXCEPT !.player = NoLib, !.demux = NoLib]
    /\ UNCHANGED <<missing, lostCalls, ctcHeard>>

(* The destructor stops first. *)
CtcDestroy ==
    /\ ctc.made
    /\ lib' = Stopped(lib) /\ ctc' = NoCtc
    /\ UNCHANGED <<missing, lostCalls, ctcHeard>>

-----------------------------------------------------------------------------
(***************************************************************************)
(* Calls that are passed on at once, to a null player when none is made:   *)
(* the window, the mute and the rate a client sets early are lost.         *)
(***************************************************************************)
CtcPasses(symbol, field, value) ==
    /\ ctc.made
    /\ lib' = AVPLAY(lib, ctc.player, symbol, field, value)
    /\ lostCalls' = IF ctc.player = NoLib THEN 1 ELSE lostCalls
    /\ UNCHANGED <<ctc, missing, ctcHeard>>

pause == CtcPasses("Pause", "play", IF lib.now.play = "playing" THEN "paused"
                                    ELSE lib.now.play)
resume == CtcPasses("Resume", "play", IF lib.now.play = "paused" THEN "playing"
                                      ELSE lib.now.play)
setPlaybackRate(rate) == CtcPasses("Tplay", "rate", TplayRate(rate))

(* Calls that change nothing of what is modelled of the library. *)
CtcAsks(symbol) == CtcPasses(symbol, "play", lib.now.play)

CtcFlush == CtcAsks("FlushStream")
getPlaybackRate == CtcAsks("GetPlaySpeed")
CtcWriteData == CtcAsks("PushTsBuffer")

CtcWriteEsData == CtcAsks("PushEsBuffer90K")

\* A stream of another kind has no position: it reads as the least integer.
CtcPosition(stream, vid, aud) ==
    CASE stream = "VIDEO" -> vid [] stream = "AUDIO" -> aud [] OTHER -> 0 - 1

getCurrentPts == CtcAsks("GetStatusInfo")
getBufferStat == CtcAsks("GetStatusInfo")
setVideoWindow == CtcAsks("SetVideoSize")

(* What the layer has no call for: some say 0, the audio description -1.   *)
CtcUnsupported(method) ==
    IF method \in {"setADParams", "setADVolume", "getADVolume"} THEN 0 - 1 ELSE 0

CtcChannel(chan, started) ==
    /\ ctc.made
    /\ lib' = IF started THEN PLAYER_Start(lib, ctc.player, chan)
              ELSE PLAYER_Stop(lib, ctc.player, chan)
    /\ lostCalls' = IF ctc.player = NoLib THEN 1 ELSE lostCalls
    /\ UNCHANGED <<ctc, missing, ctcHeard>>

startVideoDecoding == CtcChannel("vid", TRUE)
stopVideoDecoding == CtcChannel("vid", FALSE)
startAudioDecoding == CtcChannel("aud", TRUE)
stopAudioDecoding == CtcChannel("aud", FALSE)

(* The volume is kept, and passed on when there is a player. *)
setVolume(volume) ==
    /\ ctc.made
    /\ ctc' = [ctc EXCEPT !.volume = volume]
    /\ lib' = AVPLAY(lib, ctc.player, "SetVolume", "volume", volume)
    /\ UNCHANGED <<missing, lostCalls, ctcHeard>>

setParameter(key, value) ==
    CASE key = "BLACK_OUT" -> CtcKeeps("keepLast", ~value)
      [] key = "VIDEO_TUNNEL_ID" -> CtcKeeps("tunnel", value)
      [] key = "AUDIO_MUTE" -> CtcPasses("SetConfig", "muted", value)
      [] key = "AUDIO_OUTPUT_DEVICE" ->
           LET output == IF value THEN "BT" ELSE "NORMAL"
           IN  /\ ctc.made
               /\ ctc' = [ctc EXCEPT !.output = output]
               /\ lib' = AVPLAY(lib, ctc.player, "SetAudioOutputType", "output",
                                output)
               /\ lostCalls' = IF ctc.player = NoLib THEN 1 ELSE lostCalls
               /\ UNCHANGED <<missing, ctcHeard>>
      [] key = "VIDEO_DISPLAY_MODE" -> CtcAsks("SetScreenMode")
      [] key = "VIDEO_PTS_OFFSET" -> CtcAsks("SetVideoPtsOffset")
      [] key = "AUDIO_PTS_OFFSET" -> CtcAsks("SetAudioPtsOffset")
      [] OTHER -> UNCHANGED ctcvars

(* A registered library player tells the object behind its user data. *)
CtcEvent(event) ==
    /\ lib.now.listens /\ lib.now.play = "playing"
    /\ ctcHeard' = ctcHeard \cup eventCb(event)
    /\ UNCHANGED <<ctc, lib, missing, lostCalls>>

CtcNext ==
    \/ CtcCreate \/ CtcDestroy \/ start \/ stop \/ pause \/ resume
    \/ setANativeWindow(TRUE)
    \/ \E valid \in BOOLEAN : setVideoParams(valid) \/ setAudioParams(valid)
    \/ \E source \in {"PCR", "AUDIO"} : setAVSyncSource(source)
    \/ setPcrPid(TRUE)
    \/ \E rate \in CtcRate : setPlaybackRate(rate)
    \/ \E volume \in CtcVolume : setVolume(volume)
    \/ CtcFlush \/ getPlaybackRate \/ CtcWriteData \/ CtcWriteEsData
    \/ getCurrentPts \/ getBufferStat \/ setVideoWindow
    \/ startVideoDecoding \/ stopVideoDecoding
    \/ startAudioDecoding \/ stopAudioDecoding
    \/ \E key \in {"VIDEO_TUNNEL_ID", "AUDIO_OUTPUT_DEVICE", "VIDEO_DECODE_MODE"},
          value \in BOOLEAN : setParameter(key, value)
    \/ \E event \in {"FIRST_IFRAME_DISPLAYED", "EVENT_PLAY_COMPLETED"} : CtcEvent(event)

-----------------------------------------------------------------------------
(* The library holds exactly the player and the demux the object has a     *)
(* handle of: however starts, stops and changes of the sync source follow  *)
(* each other, nothing is left playing that no call can reach.             *)
CtcHoldsWhatIsOpen ==
    missing \cap {"Destroy", "CloseDemux"} = {} =>
      /\ lib.players = {ctc.player} \ {NoLib}
      /\ lib.demuxes = {ctc.demux} \ {NoLib}
=============================================================================
