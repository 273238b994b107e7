------------------------------ MODULE TvPlayer ------------------------------
(***************************************************************************)
(* player/AmlTvPlayer.cpp and the wrappers of tunerhal: the codec layer    *)
(* over the tuner HAL.  A start opens a demux and its data recorder, and   *)
(* per stream a filter and what decodes it.  A wrapper closes its object   *)
(* when its last pointer goes, so a member that is overwritten closes what *)
(* it held; AudioTrackWrapper does not stop its thread.  A method that     *)
(* calls through a null pointer, and a thread that runs in a wrapper that  *)
(* is gone, end the process: crashed.  The HAL, the codecs and AudioTrack  *)
(* are external.                                                           *)
(***************************************************************************)
EXTENDS Naturals, FiniteSets

CONSTANTS
  TvVideoCodecs,     \* what clients ask for, "UNKNOWN" for none
  TvAudioCodecs,
  TrackFormats,      \* the formats AudioTrack takes
  TunerFaults,       \* what may fail to open: "demux" "dvr" "filter"
  MaxTunerHandles    \* bound: handles the HAL hands out

NoTuner == 0
TvMember == {"demux", "dvr", "videoFilter", "audioFilter", "codec", "track"}

VARIABLES
  tv,       \* [made, video, audio, handle, inited, playing]
  opened,   \* the handles that are open
  handed,   \* how many were handed out
  stale,    \* mTuner belongs to a service that has restarted
  crashed

tvvars == <<tv, opened, handed, stale, crashed>>

\* inited: mAudioTrackInited; playing: mAudioStarted and its thread runs.
NewTv == [made |-> TRUE, video |-> "UNKNOWN", audio |-> "UNKNOWN",
          handle |-> [x \in TvMember |-> NoTuner],
          inited |-> FALSE, playing |-> FALSE]
NoTv == [NewTv EXCEPT !.made = FALSE]

TvInit == tv = NoTv /\ opened = {} /\ handed = 0 /\ stale = FALSE /\ crashed = FALSE

TvLive == tv.made /\ ~crashed
Has(x) == tv.handle[x] # NoTuner
TvDies == crashed' = TRUE /\ UNCHANGED <<tv, opened, handed, stale>>

-----------------------------------------------------------------------------
(***************************************************************************)
(* AudioTrackWrapper and MediaCodecWrapper.                                *)
(***************************************************************************)
getAudioFormat(codec) ==
    CASE codec \in {"MP2", "MP3"} -> "MP3"
      [] codec \in {"AAC", "LATM"} -> "AAC_HE_V2"
      [] codec \in {"AC3", "EAC3", "DTS", "PCM", "AC4"} -> codec
      [] OTHER -> "INVALID"

\* A format that is refused is tried again as the older configuration.
TrackConfigures(codec) ==
    LET format == getAudioFormat(codec)
        legacy == IF format = "AAC_HE_V2" THEN "AAC_LC" ELSE format
    IN  {format, legacy} \cap TrackFormats # {}

convertCodecIdToMimeType(codec) ==
    CASE codec = "MPEG12" -> "mpeg2"
      [] codec = "MPEG4"  -> "mp4v-es"
      [] codec = "H264"   -> "avc"
      [] codec \in {"MJPEG", "AVS", "VP9", "HEVC"} -> codec
      [] OTHER -> "none"

\* The first of the codecs found is taken without looking whether there is one.
CodecConfigures(codec) == convertCodecIdToMimeType(codec) # "none"

\* start plays only what was configured, and starts the thread.
TrackStart(t) == [t EXCEPT !.playing = t.inited]

\* stop ends the thread and waits for it; nothing was configured: nothing.
TrackStop(t) == [t EXCEPT !.playing = FALSE, !.inited = FALSE]

-----------------------------------------------------------------------------
(***************************************************************************)
(* The tuner: what is opened, and what a member that is overwritten does.  *)
(***************************************************************************)
TvRank(x) == CASE x = "demux" -> 1 [] x = "dvr" -> 2 [] x = "videoFilter" -> 3
               [] x = "codec" -> 4 [] x = "audioFilter" -> 5 [] OTHER -> 6

\* The handles of the members after xs were opened anew.
TvHandles(xs) == [x \in TvMember |-> IF x \in xs THEN handed + TvRank(x) ELSE tv.handle[x]]

\* Members xs of t are opened, what they held before is closed.
TvOpens(t, xs) ==
    /\ handed + Cardinality(TvMember) <= MaxTunerHandles
    /\ handed' = handed + Cardinality(TvMember)
    /\ opened' = (opened \ {tv.handle[x] : x \in xs}) \cup {TvHandles(xs)[x] : x \in xs}
    /\ tv' = [t EXCEPT !.handle = TvHandles(xs)]
    /\ UNCHANGED <<stale, crashed>>

TunerClose(xs) == opened' = opened \ {tv.handle[x] : x \in xs}

\* An open through a service that restarted, or refused, gives no object.
Opens(xs, f) ==
    /\ ~stale
    /\ "demux" \in f => "demux" \notin xs
    /\ "dvr" \in f => "dvr" \notin xs
    /\ "filter" \in f => xs \cap {"videoFilter", "audioFilter"} = {}

(* checkAvailable: the service is looked up again if it does not answer. *)
TunerRestarts ==
    /\ ~crashed /\ opened = {} /\ stale' = TRUE
    /\ UNCHANGED <<tv, opened, handed, crashed>>

-----------------------------------------------------------------------------
(***************************************************************************)
(* The layer.                                                              *)
(***************************************************************************)
TvCreate ==
    /\ ~tv.made /\ ~crashed /\ tv' = NewTv /\ stale' = FALSE
    /\ UNCHANGED <<opened, handed, crashed>>

(* The destructor stops nothing; its members close what they hold. *)
TvDestroy ==
    /\ TvLive
    /\ IF tv.playing THEN TvDies
       ELSE TunerClose(TvMember) /\ tv' = NoTv /\ UNCHANGED <<handed, stale, crashed>>

(* Parameters that name no stream unset the old ones. *)
TvSetVideoParams(codec) ==
    TvLive /\ tv' = [tv EXCEPT !.video = codec] /\ UNCHANGED <<opened, handed, stale, crashed>>

TvSetAudioParams(codec) ==
    TvLive /\ tv' = [tv EXCEPT !.audio = codec] /\ UNCHANGED <<opened, handed, stale, crashed>>

StartOpensTv ==
    LET streams == (IF tv.video # "UNKNOWN" THEN {"videoFilter", "codec"} ELSE {})
                     \cup (IF tv.audio # "UNKNOWN" THEN {"audioFilter", "track"} ELSE {})
    IN  streams \cup (IF streams = {} THEN {} ELSE {"demux", "dvr"})

\* The new track of t, configured and started, in place of one that is not
\* playing.
NewTrack(t) == TrackStart([t EXCEPT !.inited = TrackConfigures(t.audio)])

TvStart(f) ==
    LET xs == StartOpensTv
    IN  /\ TvLive
        /\ IF /\ Opens(xs, f)
              /\ "codec" \in xs => CodecConfigures(tv.video)
              /\ "track" \in xs => ~tv.playing
           THEN TvOpens(IF "track" \in xs THEN NewTrack(tv) ELSE tv, xs)
           ELSE TvDies

(* Codec and track are looked at before they are stopped, the filters, the *)
(* recorder and the demux are not: a layer that played one stream dies.    *)
TvStop ==
    /\ TvLive
    /\ IF \A x \in TvMember \ {"codec", "track"} : Has(x)
       THEN /\ TunerClose(TvMember)
            /\ tv' = [TrackStop(tv) EXCEPT !.handle = NewTv.handle]
            /\ UNCHANGED <<handed, stale, crashed>>
       ELSE TvDies

(* pause and resume use the track as it is, and its thread goes on. *)
TvPauseResume == TvLive /\ (IF Has("track") THEN UNCHANGED tvvars ELSE TvDies)

TvResumeAudioDecoding ==
    /\ TvLive
    /\ IF Has("track") THEN tv' = TrackStart(tv) /\ UNCHANGED <<opened, handed, stale, crashed>>
       ELSE TvDies

(* feedData: all of it or, when the queue has no room, nothing and 0. *)
feedData(available, size) == IF available < size THEN 0 ELSE size

TvWrite(available) ==
    TvLive /\ feedData(available, 1) \in {0, 1} /\ (IF Has("dvr") THEN UNCHANGED tvvars ELSE TvDies)

(* The old filter and track are closed, new ones opened on the demux. *)
TvSwitchAudioTrack(codec, f) ==
    LET xs == {"audioFilter", "track"}
    IN  /\ TvLive
        /\ IF Has("demux") /\ Opens(xs, f)
           THEN TvOpens(NewTrack([TrackStop(tv) EXCEPT !.audio = codec]), xs)
           ELSE TvDies

(* The other methods only say that they were called. *)
TvOther == TvLive /\ UNCHANGED tvvars

TvNext ==
    \/ TvCreate \/ TvDestroy \/ TvStop \/ TvPauseResume \/ TvResumeAudioDecoding
    \/ TvOther \/ TunerRestarts
    \/ \E available \in {0, 1} : TvWrite(available)
    \/ \E codec \in TvVideoCodecs : TvSetVideoParams(codec)
    \/ \E codec \in TvAudioCodecs : TvSetAudioParams(codec)
    \/ \E f \in SUBSET TunerFaults :
         TvStart(f) \/ \E codec \in TvAudioCodecs : TvSwitchAudioTrack(codec, f)

-----------------------------------------------------------------------------
(* Whatever is open in the HAL is in a member of the layer and no member   *)
(* outlives what it names, and the thread that keeps the audio track fed   *)
(* runs only in a track the layer still holds: tracks can be switched and  *)
(* the layer started over a running one without leaving anything behind.   *)
TvHoldsWhatIsOpen ==
    ~crashed => /\ opened = {tv.handle[x] : x \in TvMember} \ {NoTuner}
                /\ tv.playing => Has("track") /\ tv.inited
=============================================================================
