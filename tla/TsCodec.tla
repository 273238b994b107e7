------------------------------ MODULE TsCodec ------------------------------
(***************************************************************************)
(* player/AmlTsPlayer.cpp as an object with threads: the device of         *)
(* TsPlayer, and the thread that feeds it elementary audio.  The object    *)
(* above calls the methods one at a time (Control), but writes without its *)
(* lock (Writer), and the feeding thread (Feed) runs between any two       *)
(* steps.  player/AmlDummyTsPlayer.cpp is the same class with the decoder  *)
(* calls emptied: dummy.  A buffer is the number of its write.             *)
(***************************************************************************)
EXTENDS TsPlayer, Integers, Sequences, FiniteSets

CONSTANTS
  TsFaults,       \* the library calls that may fail, as in Fallible
  FeedBound,      \* 100: a queue longer than this is full
  MaxEsWrites     \* bound: buffers written

VARIABLES
  ts,         \* [made, owned, dummy, dev]
  feed,       \* mAudioEsDataFeedThread: [made, paused, queue, pc, held, exit]
  control,    \* where a stop of the audio is: "idle" "flush" "join"
  writer,     \* writeEsData: [pc, buffer]
  es,         \* [given, put, late, reported], see below
  decoded,    \* the buffers AmTsPlayer_writeFrameData took
  undefined   \* a freed feed was used, or an empty queue popped

tsvars == <<ts, feed, control, writer, es, decoded, undefined>>

NoFeed == [made |-> FALSE, paused |-> FALSE, queue |-> <<>>, pc |-> "gone",
           held |-> 0, exit |-> FALSE]
NewFeed == [NoFeed EXCEPT !.made = TRUE, !.pc = "look"]
NewTs(dummy) == [made |-> TRUE, owned |-> TRUE, dummy |-> dummy,
                 dev |-> NewDevice]
NoTs == [NewTs(FALSE) EXCEPT !.made = FALSE, !.owned = FALSE]

\* given: buffers numbered; put: those the queue took; late: those it took
\* after the flush of a stop; reported: those said to be done.
TsInit ==
    /\ ts = NoTs /\ feed = NoFeed /\ control = "idle"
    /\ writer = [pc |-> "idle", buffer |-> 0]
    /\ es = [given |-> 0, put |-> {}, late |-> {}, reported |-> {}]
    /\ decoded = <<>> /\ undefined = FALSE

Elements(s) == {s[i] : i \in DOMAIN s}

-----------------------------------------------------------------------------
(***************************************************************************)
(* Tables: which call of the library a key or an event stands for.         *)
(***************************************************************************)
SetCall(key) ==
    CASE key = "VIDEO_DISPLAY_MODE"    -> "setVideoMatchMode"
      [] key = "BLACK_OUT"             -> "setVideoBlackOut"
      [] key = "VIDEO_DECODE_MODE"     -> "setTrickMode"
      [] key = "AUDIO_OUTPUT_MODE"     -> "setAudioOutMode"
      [] key = "AUDIO_BALANCE"         -> "setAudioStereoMode"
      [] key = "AUDIO_MUTE"            -> "setAudioMute"
      [] key = "AD_STATE"              -> "enableADMix"
      [] key = "AD_MIX_LEVEL"          -> "setADMixLevel"
      [] key = "WORK_MODE"             -> "setWorkMode"
      [] key = "TELETEXT_CONTROL"      -> "AmlPlayerBase"
      [] key = "VIDEO_CROP"            -> "setVideoCrop"
      [] key \in {"VIDEO_TUNNEL_ID", "SURFACE_HANDLE"} -> "setSurface"
      [] key \in {"AUDIO_BLOCK_ALIGN", "AUDIO_PRESENTATION_ID", "USE_TIF",
                  "SPDIF_PROTECTION", "VIDEO_ERROR_RECOVERY_MODE",
                  "AUDIO_LANGUAGE"}    -> "setParams"
      [] OTHER                         -> "none"

\* VIDEO_PTS_OFFSET, AUDIO_PTS_OFFSET, AUDIO_OUTPUT_DEVICE and
\* NETWORK_JITTER are named in the switch and call nothing: they fail.
TsSetParameterResult(key, accepted) ==
    IF SetCall(key) # "none" /\ accepted THEN 0 ELSE 0 - 1

GetCall(key) ==
    CASE key = "AUDIO_MUTE"            -> "getAudioMute"
      [] key = "VIDEO_INFO"            -> "getVideoInfo"
      [] key = "VIDEO_DECODE_STAT"     -> "getVideoStat"
      [] key = "AUDIO_INFO"            -> "getAudioInfo"
      [] key = "AUDIO_DECODE_STAT"     -> "getAudioStat"
      [] key = "AD_INFO"               -> "getADInfo"
      [] key = "AD_DECODE_STAT"        -> "getADStat"
      [] key = "INSTANCE_ID"           -> "getInstansNo"
      [] key = "SYNC_ID"               -> "getSyncInstansNo"
      [] key = "AV_INFO_JSON"          -> "getState"
      [] key = "AD_MIX_LEVEL"          -> "getADMixLevel"
      [] key = "TSPLAYER_HANDLE"       -> "handle"
      [] key = "AUDIO_PRESENTATION_ID" -> "getParams"
      [] OTHER                         -> "none"

\* result is the library's, "OK" for the handle, which is no call.
TsGetParameterResult(key, result) ==
    LET r == CASE key = "VIDEO_ERROR_RECOVERY_MODE" -> "INVALID_OPERATION"
               [] GetCall(key) = "none"             -> "INVALID_PARAMS"
               [] OTHER                             -> result
    IN  CASE r = "OK" -> "OK"
          [] r = "INVALID_PARAMS" -> "BAD_VALUE"
          [] r = "INVALID_OPERATION" -> "INVALID_OPERATION"
          [] OTHER -> "ERROR"

\* A time of day has no stream to be asked of.
PtsCall(type) ==
    CASE type \in {"VIDEO", "AUDIO", "AD", "SUBTITLE"} -> "getPts"
      [] type \in {"PCR", "STC"} -> "getMediaTime"
      [] OTHER -> "none"

\* The video half is written though its question failed, the delay is not.
BufferStatFills(audioOk, videoOk) ==
    (IF audioOk THEN {"audio", "video"} ELSE {})
      \cup (IF audioOk /\ videoOk THEN {"bufferedMs"} ELSE {})

eventCallback(type) ==
    CASE type = "DECODE_FIRST_FRAME_VIDEO"  -> "VIDEO_DECODE_FIRST_FRAME"
      [] type = "DECODE_FIRST_FRAME_AUDIO"  -> "AUDIO_DECODE_FIRST_FRAME"
      [] type = "INPUT_VIDEO_BUFFER_DONE"   -> "VIDEO_INPUT_BUFFER_DONE"
      [] type = "INPUT_AUDIO_BUFFER_DONE"   -> "AUDIO_INPUT_BUFFER_DONE"
      [] type = "DECODE_FRAME_ERROR_COUNT"  -> "VIDEO_ERROR_FRAME_COUNT"
      [] type = "DECODE_VIDEO_UNSUPPORT"    -> "VIDEO_UNSUPPORT"
      [] type \in {"VIDEO_CHANGED", "AUDIO_CHANGED", "FIRST_FRAME",
                   "AV_SYNC_DONE", "DATA_LOSS", "DATA_RESUME", "SCRAMBLING",
                   "USERDATA_AFD", "USERDATA_CC", "VIDEO_OVERFLOW",
                   "VIDEO_UNDERFLOW", "AUDIO_OVERFLOW", "AUDIO_UNDERFLOW",
                   "VIDEO_INVALID_TIMESTAMP", "VIDEO_INVALID_DATA",
                   "AUDIO_INVALID_TIMESTAMP", "AUDIO_INVALID_DATA",
                   "DECODER_DATA_LOSS", "DECODER_DATA_RESUME"} -> type
      [] OTHER -> "none"

-----------------------------------------------------------------------------
(***************************************************************************)
(* Feed: the loop looks at the front under mLock, gives what it saw to the *)
(* library without it, and pops under it again when it was taken.          *)
(***************************************************************************)
FeedOthers == UNCHANGED <<ts, control, writer>>

FeedLooks ==
    /\ feed.pc = "look"
    /\ feed' = IF feed.exit THEN [feed EXCEPT !.pc = "gone"]
               ELSE IF ~feed.paused /\ feed.queue # <<>>
               THEN [feed EXCEPT !.pc = "write", !.held = Head(feed.queue)]
               ELSE feed
    /\ FeedOthers /\ UNCHANGED <<es, decoded, undefined>>

\* A refused buffer is tried again, a millisecond later.
FeedWrites(accepted) ==
    /\ feed.pc = "write"
    /\ feed' = [feed EXCEPT !.pc = IF accepted THEN "pop" ELSE "look"]
    /\ decoded' = IF accepted THEN Append(decoded, feed.held) ELSE decoded
    /\ FeedOthers /\ UNCHANGED <<es, undefined>>

\* The front is popped, whichever it is by now, and the held one reported.
FeedPops ==
    /\ feed.pc = "pop"
    /\ IF feed.queue = <<>> THEN undefined' = TRUE /\ UNCHANGED <<feed, es>>
       ELSE /\ feed' = [feed EXCEPT !.pc = "look", !.queue = Tail(@)]
            /\ es' = [es EXCEPT !.reported = @ \cup {feed.held}]
            /\ UNCHANGED undefined
    /\ FeedOthers /\ UNCHANGED decoded

threadLoop == ~undefined /\ (FeedLooks \/ FeedPops \/ \E ok \in BOOLEAN : FeedWrites(ok))

-----------------------------------------------------------------------------
(***************************************************************************)
(* Writer: writeEsData looks whether there is a feed and then uses it.     *)
(***************************************************************************)
WriterOthers == UNCHANGED <<ts, control>>

writeEsData ==
    /\ ~undefined /\ ts.owned /\ writer.pc = "idle" /\ es.given < MaxEsWrites
    /\ es' = [es EXCEPT !.given = @ + 1]
    /\ writer' = [pc |-> IF feed.made THEN "put" ELSE "direct", buffer |-> es.given + 1]
    /\ WriterOthers /\ UNCHANGED <<feed, decoded, undefined>>

\* AudioEsDataFeedThread::writeEsData, refused when the queue is too long.
FeedPut(n) ==
    IF Len(feed.queue) > FeedBound THEN UNCHANGED <<feed, es>>
    ELSE /\ feed' = [feed EXCEPT !.queue = Append(@, n)]
         /\ es' = [es EXCEPT !.put = @ \cup {n},
                             !.late = IF control = "join" THEN @ \cup {n} ELSE @]

WriterPuts ==
    /\ ~undefined /\ writer.pc = "put"
    /\ writer' = [writer EXCEPT !.pc = "idle"]
    /\ IF feed.made THEN FeedPut(writer.buffer) /\ UNCHANGED undefined
       ELSE undefined' = TRUE /\ UNCHANGED <<feed, es>>
    /\ WriterOthers /\ UNCHANGED decoded

\* writeEsData_l, on the writer's own thread.
writeEsData_l(accepted) ==
    /\ ~undefined /\ writer.pc = "direct"
    /\ writer' = [writer EXCEPT !.pc = "idle"]
    /\ decoded' = IF accepted THEN Append(decoded, writer.buffer) ELSE decoded
    /\ WriterOthers /\ UNCHANGED <<feed, es, undefined>>

-----------------------------------------------------------------------------
(***************************************************************************)
(* Control: the methods the object above calls under its lock.             *)
(***************************************************************************)
TsCall == ~undefined /\ ts.owned /\ control = "idle"
ControlOthers == UNCHANGED <<writer, decoded, undefined>>

\* A call that only makes d of the device.
TsBecomes(d) ==
    /\ TsCall /\ ts' = [ts EXCEPT !.dev = d]
    /\ UNCHANGED <<feed, control, es>> /\ ControlOthers

TsCreate(dummy) ==
    /\ ~undefined /\ ~ts.made /\ writer.pc = "idle"
    /\ ts' = NewTs(dummy)
    /\ UNCHANGED <<feed, control, es>> /\ ControlOthers

(* The feed holds a strong pointer to its player: while it runs, the last  *)
(* owner's letting go destroys nothing.                                    *)
TsRelease ==
    /\ TsCall /\ writer.pc = "idle"
    /\ ts' = IF feed.made THEN [ts EXCEPT !.owned = FALSE] ELSE NoTs
    /\ UNCHANGED <<feed, control, es>> /\ ControlOthers

(* A dummy passes the security level on and remembers nothing. *)
TsSetVideoParams(known) ==
    TsBecomes(IF ts.dummy THEN ts.dev ELSE DevSetVideoParams(ts.dev, known))

TsSetAudioParams(known) ==
    TsBecomes(IF ts.dummy THEN ts.dev ELSE DevSetAudioParams(ts.dev, known))

TsSetADParams(mix) ==
    TsBecomes(IF ts.dummy THEN ts.dev ELSE DevSetADParams(ts.dev, mix))

TsStartVideoDecoding(f) == ~ts.dummy /\ TsBecomes(DevStartVideo(ts.dev, f))
TsStopVideoDecoding == ~ts.dummy /\ TsBecomes(DevStopVideo(ts.dev))
pauseVideoDecoding(f) == ~ts.dummy /\ TsBecomes(DevPauseVideo(ts.dev, f))
resumeVideoDecoding(f) == ~ts.dummy /\ TsBecomes(DevResumeVideo(ts.dev, f))

(* AudioEsDataFeedThread: made when there is none, running at once. *)
FeedStarts == feed' = IF feed.made THEN feed ELSE NewFeed

(* The feed is made whether or not the library's start succeeded. *)
TsStartAudioDecoding(f) ==
    /\ TsCall /\ ~ts.dummy
    /\ ts' = [ts EXCEPT !.dev = DevStartAudio(@, f)]
    /\ FeedStarts
    /\ UNCHANGED <<control, es>> /\ ControlOthers

(* Without a feed the library is stopped at once. *)
StopAudioOf(d) ==
    IF feed.made THEN control' = "flush" /\ ts' = [ts EXCEPT !.dev = d]
    ELSE control' = "idle" /\ ts' = [ts EXCEPT !.dev = DevStopAudio(d)]

TsStopAudioDecoding ==
    /\ TsCall /\ ~ts.dummy
    /\ StopAudioOf(ts.dev)
    /\ UNCHANGED <<feed, es>> /\ ControlOthers

(* Mutant: what the queue held is dropped without a word. *)
BuggyFlushed == es

\* Every buffer in the queue is reported, with mLock held.
Flushed == [es EXCEPT !.reported = @ \cup Elements(feed.queue)]

(* Mutant: the feed is asked to exit only when it is not paused. *)
BuggyFeedFlushes ==
    /\ control = "flush" /\ control' = "join"
    /\ es' = Flushed
    /\ feed' = [feed EXCEPT !.queue = <<>>, !.exit = ~feed.paused]
    /\ UNCHANGED ts /\ ControlOthers

\* stop of the feed: the flush, then requestExitAndWait.
FeedFlushes ==
    /\ ~undefined /\ control = "flush" /\ control' = "join"
    /\ es' = Flushed
    /\ feed' = [feed EXCEPT !.queue = <<>>, !.exit = TRUE]
    /\ UNCHANGED ts /\ ControlOthers

\* It is gone: the pointer is cleared and the library stopped.
FeedJoined ==
    /\ ~undefined /\ control = "join" /\ feed.pc = "gone"
    /\ control' = "idle" /\ feed' = NoFeed
    /\ ts' = [ts EXCEPT !.dev = DevStopAudio(@)]
    /\ UNCHANGED es /\ ControlOthers

(* The audio description starts and stops the same decoder, without feed. *)
startADDecoding(f) == ~ts.dummy /\ TsBecomes(DevStartAD(ts.dev, f))
stopADDecoding == TsBecomes(DevStopAD(ts.dev))

FeedPauses(paused) == feed' = IF feed.made THEN [feed EXCEPT !.paused = paused] ELSE feed

pauseAudioDecoding(f) ==
    /\ TsCall /\ ~ts.dummy /\ FeedPauses(TRUE)
    /\ ts' = [ts EXCEPT !.dev = DevPauseAudio(@, f)]
    /\ UNCHANGED <<control, es>> /\ ControlOthers

resumeAudioDecoding(f) ==
    /\ TsCall /\ ~ts.dummy /\ FeedPauses(FALSE)
    /\ ts' = [ts EXCEPT !.dev = DevResumeAudio(@, f)]
    /\ UNCHANGED <<control, es>> /\ ControlOthers

TsStart(f) ==
    /\ TsCall
    /\ ts' = [ts EXCEPT !.dev = IF ts.dummy THEN DevStartSubtitle(@, f) ELSE DevStart(@, f)]
    /\ IF ts.dev.audioSet THEN FeedStarts ELSE UNCHANGED feed
    /\ UNCHANGED <<control, es>> /\ ControlOthers

(* Subtitles, then the video, then the audio, if their parameters are set. *)
TsStop ==
    LET s == DevStopSubtitle(ts.dev)
        v == IF s.videoSet THEN DevStopVideo(s) ELSE s
    IN  /\ TsCall
        /\ IF v.audioSet THEN StopAudioOf(v)
           ELSE ts' = [ts EXCEPT !.dev = v] /\ UNCHANGED control
        /\ UNCHANGED <<feed, es>> /\ ControlOthers

TsPause(f) ==
    /\ TsCall /\ ts' = [ts EXCEPT !.dev = DevPause(@, f)]
    /\ IF ts.dev.audioSet THEN FeedPauses(TRUE) ELSE UNCHANGED feed
    /\ UNCHANGED <<control, es>> /\ ControlOthers

TsResume(f) ==
    LET v == IF ts.dev.videoSet THEN DevResumeVideo(ts.dev, f) ELSE ts.dev
    IN  /\ TsCall
        /\ ts' = [ts EXCEPT !.dev = IF v.audioSet THEN DevResumeAudio(v, f) ELSE v]
        /\ IF ts.dev.audioSet THEN FeedPauses(FALSE) ELSE UNCHANGED feed
        /\ UNCHANGED <<control, es>> /\ ControlOthers

(* Of all keys, AD_STATE changes what a start decodes.  BLACK_OUT is kept  *)
(* for the destructor, which blanks the window by it.                      *)
TsSetParameter(key, value, accepted) ==
    /\ TsCall
    /\ ts' = IF key = "AD_STATE" /\ accepted THEN [ts EXCEPT !.dev.mix = value] ELSE ts
    /\ UNCHANGED <<feed, control, es>> /\ ControlOthers

(* Methods that pass a call on, and return -1 when it does not return OK:  *)
(* window, volume, show and hide; sync source and PCR; the AD volume.      *)
TsPasses == TsCall /\ UNCHANGED tsvars
TsSyncs == TsPasses
TsADVolume == TsPasses

\* The decoders of a dummy belong to libdvr: its calls only say 0.
DummyDecoding == ts.dummy /\ TsPasses

\* Normal speed is the end of fast.
RateCall(rate) == IF rate = 1 THEN "stopFast" ELSE "startFast"

\* What the object above has to do by stopping and starting, and a question
\* the library cannot answer.
TsAlwaysFails(method) ==
    IF method \in {"flush", "switchAudioTrack"} THEN "DEAD_OBJECT" ELSE "ERROR"

\* A surface reaches the library only without tunnel and without tunnel id.
SurfaceIsPassed(nonTunnel, videoTunnel) == nonTunnel /\ ~videoTunnel

TsNext ==
    \/ threadLoop \/ writeEsData \/ WriterPuts
    \/ \E ok \in BOOLEAN : writeEsData_l(ok)
    \/ \E dummy \in BOOLEAN : TsCreate(dummy)
    \/ TsRelease \/ TsStopVideoDecoding \/ TsStopAudioDecoding \/ FeedFlushes
    \/ FeedJoined \/ stopADDecoding \/ TsStop
    \/ TsPasses \/ TsSyncs \/ TsADVolume \/ DummyDecoding
    \/ \E known \in BOOLEAN :
         \/ TsSetVideoParams(known) \/ TsSetAudioParams(known) \/ TsSetADParams(known)
         \/ \E accepted \in BOOLEAN, key \in {"AD_STATE", "AUDIO_PTS_OFFSET"} :
              TsSetParameter(key, known, accepted)
    \/ \E f \in SUBSET TsFaults :
         \/ TsStartVideoDecoding(f) \/ pauseVideoDecoding(f) \/ resumeVideoDecoding(f)
         \/ TsStartAudioDecoding(f) \/ pauseAudioDecoding(f) \/ resumeAudioDecoding(f)
         \/ startADDecoding(f) \/ TsStart(f) \/ TsPause(f) \/ TsResume(f)

(* The feeding thread is scheduled, and a stop goes on once it is gone. *)
TsFairness == WF_tsvars(threadLoop) /\ WF_tsvars(FeedFlushes) /\ WF_tsvars(FeedJoined)

-----------------------------------------------------------------------------
(* The decoder gets every buffer at most once and in the order they were   *)
(* written, across refusals, pauses, stops and new feeding threads; and a  *)
(* buffer the layer took is in its queue until it is reported to the       *)
(* client as done, unless it came into a stop that had already flushed:    *)
(* the client may reuse every buffer it gave away.                         *)
EveryBufferReturns ==
    ~undefined =>
      /\ \A i, j \in DOMAIN decoded : i < j => decoded[i] < decoded[j]
      /\ es.put \subseteq Elements(feed.queue) \cup es.reported \cup es.late

(* A stop of the audio waits for the feeding thread, and the thread does   *)
(* leave: paused, refused by the library or in the middle of a write.      *)
AudioStopEnds == (control # "idle") ~> (control = "idle" \/ undefined)
=============================================================================
