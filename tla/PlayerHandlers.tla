--------------------------- MODULE PlayerHandlers ---------------------------
(***************************************************************************)
(* The *_l methods of AmlMpPlayerImpl (player/Aml_MP_PlayerImpl.cpp): what *)
(* a handler does to the object while it holds mLock.                      *)
(*                                                                         *)
(* A value of Player is the object.  Every operator is one method, as a    *)
(* function from the object and the set f of calls into the codec layer    *)
(* that fail during the method to the object afterwards.  reset_l gives up *)
(* mLock in the middle, so the methods that reach it are cut there: the    *)
(* part before (StopStreams ...), and the part after (ResetDone, Restart). *)
(***************************************************************************)
EXTENDS TsPlayer

CONSTANTS SourceType,          \* mCreateParams.sourceType
          DrmMode,             \* mCreateParams.drmMode
          EcmPidKnown,         \* the CAS session reports a usable ECM pid
          UserWaitingEcmMode,  \* AmlMpConfig::mWaitingEcmMode
          MonitorPidChange     \* AML_MP_OPTION_MONITOR_PID_CHANGE is set

ASSUME SourceAssumption ==
    /\ SourceType \in {"TS_DEMOD", "TS_MEMORY", "ES_MEMORY"}
    /\ DrmMode \in {"NORMAL", "ENCRYPTED", "SECURE"}
    /\ EcmPidKnown \in BOOLEAN
    /\ UserWaitingEcmMode \in {"sync", "async"}
    /\ MonitorPidChange \in BOOLEAN

Stream == {"VIDEO", "AUDIO", "AD", "SUBTITLE"}
State == {"IDLE", "PREPARING", "PREPARED", "RUNNING", "PAUSED", "STOPPED"}
DecodingState == {"STOPPED", "START_PENDING", "STARTED", "PAUSED"}
Waiting == {"codec", "ecm"}
DecodeMode == {"NONE", "IONLY", "PAUSE_NEXT"}

(* What the client's parameters say of a stream: no pid, a pid without a   *)
(* codec, or both.  A subtitle is judged by its codec alone.               *)
Param == {"none", "nocodec", "full"}

Player ==
    [state : State, last : State,              \* mState, mLastState
     dec : [Stream -> DecodingState],          \* mStreamState
     waiting : SUBSET Waiting,                 \* mPrepareWaitingType
     prm : [Stream -> Param],                  \* mVideoParams, mAudioParams...
     ecmMode : {"sync", "async"},              \* mWaitingEcmMode
     mode : DecodeMode,                        \* mVideoDecodeMode
     switching : BOOLEAN,                      \* mAudioStoppedInSwitching
     cas : BOOLEAN, standalone : BOOLEAN,      \* mCasHandle, mIsStandaloneCas
     casType : BOOLEAN,                        \* mCasServiceType is valid
     parser : {"none", "open", "closed"},      \* mParser, its mDemux
     asked : SUBSET Waiting,                   \* the filters it has
     player : BOOLEAN, dev : Device]           \* mPlayer

(* The constructor: every parameter invalid, the codec layer created. *)
NewPlayer ==
    [state |-> "IDLE", last |-> "IDLE",
     dec |-> [s \in Stream |-> "STOPPED"], waiting |-> {},
     prm |-> [s \in Stream |-> "none"], ecmMode |-> UserWaitingEcmMode,
     mode |-> "NONE", switching |-> FALSE, cas |-> FALSE,
     standalone |-> FALSE, casType |-> FALSE, parser |-> "none", asked |-> {},
     player |-> TRUE, dev |-> NewDevice]

-----------------------------------------------------------------------------
(* setState_l: mLastState moves only when the state changes. *)
SetState(p, s) ==
    IF p.state = s THEN p ELSE [p EXCEPT !.state = s, !.last = p.state]

(* setDecodingState_l, for every stream of S. *)
Mark(p, S, v) ==
    [p EXCEPT !.dec = [s \in Stream |-> IF s \in S THEN v ELSE p.dec[s]]]

(* The streams of S in decoding state v. *)
InState(p, S, v) == {s \in S : p.dec[s] = v}

OnDevice(p, d) == [p EXCEPT !.dev = d]

HasPid(p, s) == p.prm[s] # "none"
HasCodec(p, s) == p.prm[s] = "full"

-----------------------------------------------------------------------------
(* prepare_l, first the CAS session: startDescrambling_l unless the client *)
(* brought its own session, and the way to wait for the ECM.               *)
PrepareCas(p) ==
    IF DrmMode = "NORMAL" THEN p
    ELSE [p EXCEPT !.cas = p.cas \/ (~p.standalone /\ p.casType),
                   !.ecmMode = IF p.mode = "IONLY" THEN "sync"
                               ELSE UserWaitingEcmMode]

(* Mutant: a codec layer that could not be created goes unnoticed. *)
PrepareFailsOnInitOnly(p, f) == "initCheck" \in f

PrepareFails(p, f) == (~p.player /\ "create" \in f) \/ "initCheck" \in f

(* openParser_l and the filters added to the parser; a parser that exists  *)
(* is used as it is, closed or not.                                        *)
OpenParser(p, wanted) ==
    [p EXCEPT !.parser = IF p.parser = "none" THEN "open" ELSE p.parser,
              !.asked = p.asked \cup wanted]

(* tryWaitCodecId_l: a stream of the transport stream has no codec yet. *)
NeedsCodecId(p) ==
    /\ SourceType # "ES_MEMORY"
    /\ \E s \in {"VIDEO", "AUDIO", "AD"} : p.prm[s] = "nocodec"

(* tryWaitEcm_l: a session is bound and waits for its ECM asynchronously. *)
NeedsEcm(p) ==
    /\ SourceType = "TS_MEMORY"
    /\ DrmMode = "ENCRYPTED"
    /\ p.cas
    /\ EcmPidKnown
    /\ p.ecmMode = "async"

(* Mutant: a bit of mPrepareWaitingType is added where it should be ored,  *)
(* so one that is still set carries over into the next.                    *)
WaitForWithCarry(p, w) ==
    [OpenParser(p, w) EXCEPT
        !.waiting = p.waiting \cup w
            \cup (IF w \cap p.waiting = {} THEN {} ELSE {"carry"})]

WaitFor(p, w) == [OpenParser(p, w) EXCEPT !.waiting = p.waiting \cup w]

(* tryMonitorPidChange_l, tryWaitCodecId_l | tryWaitEcm_l *)
PrepareWait(p) ==
    LET w == (IF NeedsCodecId(p) THEN {"codec"} ELSE {})
                 \cup (IF NeedsEcm(p) THEN {"ecm"} ELSE {})
        m == IF MonitorPidChange THEN OpenParser(p, {"codec"}) ELSE p
    IN  IF w = {} THEN SetState(m, "PREPARED")
        ELSE SetState(WaitFor(m, w), "PREPARING")

(* prepare_l; it has failed if the object is still IDLE afterwards. *)
Prepare(p, f) ==
    LET c == PrepareCas(p)
        q == IF c.player \/ "create" \in f THEN c
             ELSE [c EXCEPT !.player = TRUE, !.dev = NewDevice]
    IN  IF PrepareFails(p, f) THEN q ELSE PrepareWait(q)

(* How every start...Decoding_l begins: prepare if IDLE; while PREPARING   *)
(* only note that the streams of S are to be started.                      *)
Prepared(p, f) == IF p.state = "IDLE" THEN Prepare(p, f) ELSE p
NotReady(p) == p.state \in {"IDLE", "PREPARING"}
Deferred(p, S) ==
    IF p.state = "PREPARING" THEN Mark(p, S, "START_PENDING") ELSE p

-----------------------------------------------------------------------------
(* resetADCodec_l, resetAudioCodec_l *)
ResetADCodec(p, callStart, f) ==
    LET d == DevStopAD(p.dev)
        e == IF HasPid(p, "AD") THEN DevSetADParams(d, TRUE) ELSE d
    IN  OnDevice(p, IF callStart THEN DevStartAD(e, f) ELSE e)

ResetAudioCodec(p, callStart, f) ==
    LET d == DevStopAudio(p.dev)
        e == IF HasPid(p, "AUDIO")
             THEN DevSetAudioParams(d, HasCodec(p, "AUDIO")) ELSE d
    IN  OnDevice(p, IF callStart THEN DevStartAudio(e, f) ELSE e)

(* startVideoDecoding_l *)
StartVideo(p, f) ==
    LET q == Prepared(p, f)
        d == IF HasPid(q, "VIDEO")
             THEN DevSetVideoParams(q.dev, HasCodec(q, "VIDEO")) ELSE q.dev
        r == OnDevice(q, DevStartVideo(d, f))
        S == IF HasPid(q, "VIDEO") THEN {"VIDEO"} ELSE {}
    IN  IF NotReady(q) THEN Deferred(q, {"VIDEO"})
        ELSE IF "startVideo" \in f THEN r
        ELSE Mark(SetState(r, "RUNNING"), S, "STARTED")

(* startAudioDecoding_l *)
StartAudio(p, f) ==
    LET q == Prepared(p, f)
        a == IF q.dec["AD"] = "STARTED" THEN ResetADCodec(q, FALSE, f) ELSE q
        d == DevSetAudioParams(a.dev, HasCodec(q, "AUDIO"))
        r == OnDevice(a, DevStartAudio(d, f))
    IN  IF NotReady(q) THEN Deferred(q, {"AUDIO"})
        ELSE IF ~HasPid(q, "AUDIO") THEN q
        ELSE IF "startAudio" \in f THEN r
        ELSE Mark(SetState(r, "RUNNING"), {"AUDIO"}, "STARTED")

(* startADDecoding_l *)
StartAD(p, f) ==
    LET q == Prepared(p, f)
        a == IF q.dec["AUDIO"] = "STARTED" THEN ResetAudioCodec(q, FALSE, f)
             ELSE q
        r == OnDevice(a, DevStartAD(DevSetADParams(a.dev, TRUE), f))
    IN  IF NotReady(q) THEN Deferred(q, {"AD"})
        ELSE IF ~HasPid(q, "AD") THEN q
        ELSE IF "startAD" \in f THEN r
        ELSE Mark(SetState(r, "RUNNING"), {"AD"}, "STARTED")

(* startSubtitleDecoding_l: the only start that refuses to recreate the    *)
(* codec layer.                                                            *)
StartSubtitle(p, f) ==
    LET q == Prepared(p, f)
        d == IF HasCodec(q, "SUBTITLE")
             THEN DevSetSubtitleParams(q.dev, TRUE) ELSE q.dev
        r == OnDevice(q, DevStartSubtitle(d, f))
        S == IF HasCodec(q, "SUBTITLE") THEN {"SUBTITLE"} ELSE {}
    IN  IF ~p.player \/ p.dec["SUBTITLE"] = "STARTED" THEN p
        ELSE IF NotReady(q) THEN Deferred(q, {"SUBTITLE"})
        ELSE IF d.subtitleSet /\ "startSubtitle" \in f THEN r
        ELSE Mark(SetState(r, "RUNNING"), S, "STARTED")

(* start_l: all parameters go down, one start for all decoders, then every *)
(* stream that has parameters is taken to be started, and AD after them.   *)
ParametersSet(p) ==
    [p.dev EXCEPT
        !.videoSet = IF HasPid(p, "VIDEO") THEN HasCodec(p, "VIDEO") ELSE @,
        !.audioSet = IF HasPid(p, "AUDIO") THEN HasCodec(p, "AUDIO") ELSE @,
        !.subtitleSet = HasCodec(p, "SUBTITLE") \/ @]

Configured(p) ==
    {s \in {"VIDEO", "AUDIO"} : HasPid(p, s)}
        \cup {s \in {"SUBTITLE"} : HasCodec(p, s)}

Start(p, f) ==
    LET q == Prepared(p, f)
        d == ParametersSet(q)
        any == Configured(q) # {}
        r == OnDevice(q, IF any THEN DevStart(d, f) ELSE d)
    IN  IF NotReady(q) THEN Deferred(q, Stream)
        ELSE IF any /\ DevStartFails(d, f) THEN r
        ELSE StartAD(Mark(SetState(r, "RUNNING"), Configured(q), "STARTED"), f)

-----------------------------------------------------------------------------
(* Mutant: pausing forgets the subtitle. *)
PauseVideoAndAudio(p, f) ==
    LET r == OnDevice(p, DevPause(p.dev, f))
    IN  IF p.state # "RUNNING" \/ ~p.player THEN p
        ELSE IF DevPauseFails(p.dev, f) THEN r
        ELSE Mark(SetState(r, "PAUSED"),
                  InState(r, {"VIDEO", "AUDIO"}, "STARTED"), "PAUSED")

(* pause_l: only a running player; a failing codec layer leaves the state. *)
Pause(p, f) ==
    LET r == OnDevice(p, DevPause(p.dev, f))
    IN  IF p.state # "RUNNING" \/ ~p.player THEN p
        ELSE IF DevPauseFails(p.dev, f) THEN r
        ELSE Mark(SetState(r, "PAUSED"),
                  InState(r, Stream, "STARTED"), "PAUSED")

(* resume_l, in its order: video, audio (or the audio that switching the   *)
(* track left stopped), AD, subtitle.  The streams are marked before the   *)
(* sum of the results is looked at.                                        *)
ResumeVideo(p, f) ==
    IF p.dec["VIDEO"] = "PAUSED"
    THEN Mark(OnDevice(p, DevResumeVideo(p.dev, f)), {"VIDEO"}, "STARTED")
    ELSE p

RestartsAudio(p) == p.dec["AUDIO"] = "STOPPED" /\ p.switching

ResumeAudio(p, f) ==
    IF p.dec["AUDIO"] = "PAUSED"
    THEN Mark(OnDevice(p, DevResumeAudio(p.dev, f)), {"AUDIO"}, "STARTED")
    ELSE IF RestartsAudio(p) THEN StartAudio(p, f) ELSE p

ResumeFails(p, f) ==
    \/ p.dec["VIDEO"] = "PAUSED" /\ "resumeVideo" \in f
    \/ p.dec["AUDIO"] = "PAUSED" /\ "resumeAudio" \in f
    \/ RestartsAudio(p) /\ HasPid(p, "AUDIO") /\ "startAudio" \in f

(* Mutant: resuming forgets the subtitle. *)
ResumeNoSubtitle(p, f) ==
    LET a == ResumeAudio(ResumeVideo(p, f), f)
        r == Mark(a, InState(a, {"AD"}, "PAUSED"), "STARTED")
    IN  IF p.state # "PAUSED" \/ ~p.player THEN p
        ELSE IF ResumeFails(p, f) THEN r ELSE SetState(r, "RUNNING")

Resume(p, f) ==
    LET a == ResumeAudio(ResumeVideo(p, f), f)
        r == Mark(a, InState(a, {"AD", "SUBTITLE"}, "PAUSED"), "STARTED")
    IN  IF p.state # "PAUSED" \/ ~p.player THEN p
        ELSE IF ResumeFails(p, f) THEN r ELSE SetState(r, "RUNNING")

(* flush, where the codec layer cannot flush by itself (AmlTsPlayer::flush *)
(* always returns AML_MP_ERROR_DEAD_OBJECT): stop it, give it the          *)
(* parameters again, wait for a new ECM if the session needs one, start.   *)
Refreshed(p) ==
    LET active(s) == p.dec[s] \in {"STARTED", "PAUSED"}
    IN  [DevStop(p.dev) EXCEPT
            !.videoSet = IF active("VIDEO") THEN HasCodec(p, "VIDEO") ELSE @,
            !.audioSet = IF active("AUDIO") THEN HasCodec(p, "AUDIO") ELSE @,
            !.mix = active("AD") \/ @]

(* Mutants: a flush that does not start the decoders it stopped, and one   *)
(* that does not hold them again.                                          *)
FlushWithoutStart(p, f) ==
    LET r == OnDevice(p, Refreshed(p))
    IN  IF p.state \notin {"RUNNING", "PAUSED"} \/ ~p.player THEN p
        ELSE IF NeedsEcm(r)
        THEN Mark(SetState(WaitFor(r, {"ecm"}), "PREPARING"),
                  Stream, "START_PENDING")
        ELSE r

FlushWithoutPause(p, f) ==
    LET r == OnDevice(p, Refreshed(p))
    IN  IF p.state \notin {"RUNNING", "PAUSED"} \/ ~p.player THEN p
        ELSE IF NeedsEcm(r)
        THEN Mark(SetState(WaitFor(r, {"ecm"}), "PREPARING"),
                  Stream, "START_PENDING")
        ELSE OnDevice(r, DevStart(r.dev, f))

Flush(p, f) ==
    LET r == OnDevice(p, Refreshed(p))
        d == DevStart(r.dev, f)
    IN  IF p.state \notin {"RUNNING", "PAUSED"} \/ ~p.player THEN p
        ELSE IF NeedsEcm(r)
        THEN Mark(SetState(WaitFor(r, {"ecm"}), "PREPARING"),
                  Stream, "START_PENDING")
        ELSE OnDevice(r, IF r.state = "PAUSED" THEN DevPause(d, f) ELSE d)

-----------------------------------------------------------------------------
Active(p) == p.state \in {"RUNNING", "PAUSED"}

(* Mutant: only video and audio count as streams. *)
StopIfNothingPlays(p) ==
    IF \A s \in {"VIDEO", "AUDIO"} : p.dec[s] = "STOPPED"
    THEN SetState(p, "STOPPED") ELSE p

(* resetIfNeeded_l up to reset_l: STOPPED once no stream is left. *)
StopIfIdle(p) ==
    IF \A s \in Stream : p.dec[s] = "STOPPED" THEN SetState(p, "STOPPED")
    ELSE p

(* stop_l up to reset_l *)
StopAll(p) ==
    LET d == [DevStop(p.dev) EXCEPT !.audioSet = FALSE, !.mix = FALSE]
    IN  StopIfIdle(Mark(IF Active(p) THEN OnDevice(p, d) ELSE p,
                        Stream, "STOPPED"))

(* stopVideoDecoding up to reset_l *)
StopVideo(p) ==
    LET r == IF Active(p) THEN OnDevice(p, DevStopVideo(p.dev)) ELSE p
    IN  StopIfIdle(Mark(r, {"VIDEO"}, "STOPPED"))

(* stopAudioDecoding_l up to reset_l: AD loses the decoder it shares with  *)
(* the audio and is started again.                                         *)
StopAudio(p, f) ==
    LET d == DevSetAudioParams(DevStopAudio(p.dev), FALSE)
        r == IF ~Active(p) THEN p
             ELSE IF p.dec["AD"] = "STARTED"
             THEN ResetADCodec(OnDevice(p, d), TRUE, f)
             ELSE OnDevice(p, d)
    IN  StopIfIdle([Mark(r, {"AUDIO"}, "STOPPED") EXCEPT !.switching = FALSE])

(* stopADDecoding_l up to reset_l *)
StopAD(p, f) ==
    LET d == DevSetADParams(DevStopAD(p.dev), FALSE)
        r == IF ~Active(p) THEN p
             ELSE IF p.dec["AUDIO"] = "STARTED"
             THEN ResetAudioCodec(OnDevice(p, d), TRUE, f)
             ELSE OnDevice(p, d)
    IN  StopIfIdle(Mark(r, {"AD"}, "STOPPED"))

(* stopSubtitleDecoding_l up to reset_l; nothing if already stopped. *)
StopSubtitle(p) ==
    LET r == IF Active(p) THEN OnDevice(p, DevStopSubtitle(p.dev)) ELSE p
    IN  StopIfIdle(Mark(r, {"SUBTITLE"}, "STOPPED"))

(* Parser::close: clearAllFilters, then the demux is taken away. *)
CloseParser(p) == [p EXCEPT !.parser = "closed", !.asked = {}]

(* Mutant: the closed parser is kept for the next playback. *)
ResetKeepingParser(p, clearCasSession) ==
    SetState([p EXCEPT
        !.player = FALSE, !.dev = NewDevice,
        !.cas = p.cas /\ p.standalone /\ ~clearCasSession,
        !.standalone = p.standalone /\ ~clearCasSession,
        !.switching = FALSE], "IDLE")

(* reset_l after the parser is closed and mLock taken again: everything    *)
(* but mPrepareWaitingType and the client's parameters is forgotten.       *)
ResetDone(p, clearCasSession) ==
    SetState([p EXCEPT
        !.parser = "none", !.asked = {},
        !.player = FALSE, !.dev = NewDevice,
        !.cas = p.cas /\ p.standalone /\ ~clearCasSession,
        !.standalone = p.standalone /\ ~clearCasSession,
        !.switching = FALSE], "IDLE")

(* switchDecodeMode_l after stop_l: only video in the trick modes. *)
Restart(p, f) == IF p.mode # "NONE" THEN StartVideo(p, f) ELSE Start(p, f)

-----------------------------------------------------------------------------
(* switchAudioTrack, where the codec layer cannot switch by itself. *)
SwitchAudioTrack(p, new, f) ==
    LET q == [p EXCEPT !.prm["AUDIO"] = new]
        r == Mark(OnDevice(q, DevStopAudio(q.dev)), {"AUDIO"}, "STOPPED")
    IN  IF ~Active(q) \/ ~q.player THEN q
        ELSE IF q.state = "RUNNING" THEN StartAudio(r, f)
        ELSE [r EXCEPT !.switching = TRUE]

(* switchSubtitleTrack: the new track is started, paused or not.  The call *)
(* into the codec layer answers 0 even when the subtitle does not start    *)
(* (AmlPlayerBase.cpp:181), so its error return is never taken.            *)
SwitchSubtitleTrack(p, new, f) ==
    LET q == [p EXCEPT !.prm["SUBTITLE"] = new]
        r == OnDevice(q, DevSwitchSubtitle(q.dev, new = "full", f))
        S == IF new = "full" THEN {"SUBTITLE"} ELSE {}
    IN  IF ~Active(q) \/ ~q.player THEN q ELSE Mark(r, S, "STARTED")

(* finishPreparingIfNeeded_l: once nothing is waited for, start what was   *)
(* asked for meanwhile, and hold it again if the wait began while PAUSED.  *)
StartPending(p, s, started) ==
    IF p.dec[s] = "START_PENDING" THEN started ELSE p

(* Mutants: a preparation that ends in any state, and one that looks for   *)
(* the pause in mLastState only after it has changed.                      *)
FinishInAnyState(p, f) ==
    LET q == SetState(p, "PREPARED")
        v == StartPending(q, "VIDEO", StartVideo(q, f))
        a == StartPending(v, "AUDIO", StartAudio(v, f))
    IN  IF p.waiting # {} THEN p ELSE a

FinishForgettingPause(p, f) ==
    LET q == SetState(p, "PREPARED")
        v == StartPending(q, "VIDEO", StartVideo(q, f))
        a == StartPending(v, "AUDIO", StartAudio(v, f))
    IN  IF p.state # "PREPARING" \/ p.waiting # {} THEN p
        ELSE IF q.last = "PAUSED" THEN Pause(a, f) ELSE a

FinishPreparing(p, f) ==
    LET q == SetState(p, "PREPARED")
        v == StartPending(q, "VIDEO", StartVideo(q, f))
        a == StartPending(v, "AUDIO", StartAudio(v, f))
        s == StartPending(a, "SUBTITLE", StartSubtitle(a, f))
        d == StartPending(s, "AD", StartAD(s, f))
    IN  IF p.state # "PREPARING" \/ p.waiting # {} THEN p
        ELSE IF p.last = "PAUSED" THEN Pause(d, f) ELSE d

(* Mutants: the callback notes what it was told and does not look whether  *)
(* the preparation is over.                                                *)
ProgramNoted(p, found, f) == [p EXCEPT !.waiting = @ \ {"codec"}]
EcmNoted(p, f) == [p EXCEPT !.waiting = @ \ {"ecm"}]

(* programEventCallback, EVENT_PROGRAM_PARSED: the program names the       *)
(* codecs of the streams in found.                                         *)
ProgramParsed(p, found, f) ==
    LET learnt(s) == s \in found /\ p.prm[s] = "nocodec"
        q == [p EXCEPT !.prm = [s \in Stream |->
                                    IF learnt(s) THEN "full" ELSE p.prm[s]],
                       !.waiting = @ \ {"codec"}]
    IN  FinishPreparing(q, f)

(* programEventCallback, EVENT_ECM_DATA_PARSED *)
EcmDataParsed(p, f) ==
    FinishPreparing([p EXCEPT !.waiting = @ \ {"ecm"}], f)
=============================================================================
