-------------------------- MODULE PlayerImplProofs --------------------------
(***************************************************************************)
(* What holds of AmlMpPlayerImpl for every source type, DRM mode, set of   *)
(* client threads, set of methods they use and set of calls that fail.     *)
(*                                                                         *)
(* The invariant is carried by Good, a predicate of the object alone: each *)
(* *_l method takes a good object to a good object (the lemmas ...Good, in *)
(* the order of PlayerHandlers), so a step that keeps mLock from beginning *)
(* to end preserves it.  What is left is the calls that give mLock up in   *)
(* reset_l, and there the number of client threads matters: with one, no   *)
(* stream can come back while the parser is closed.                        *)
(***************************************************************************)
EXTENDS PlayerImpl, TLAPS

(* The methods of the codec layer keep its type.                           *)
LEMMA DeviceTypes ==
    ASSUME NEW d \in Device, NEW b \in BOOLEAN, NEW f
    PROVE  /\ DevSetVideoParams(d, b) \in Device
           /\ DevSetAudioParams(d, b) \in Device
           /\ DevSetSubtitleParams(d, b) \in Device
           /\ DevSetADParams(d, b) \in Device
           /\ DevStopVideo(d) \in Device
           /\ DevStopAudio(d) \in Device
           /\ DevStopAD(d) \in Device
           /\ DevStopSubtitle(d) \in Device
           /\ DevStartVideo(d, f) \in Device
           /\ DevStartAudio(d, f) \in Device
           /\ DevStartAD(d, f) \in Device
           /\ DevStartSubtitle(d, f) \in Device
           /\ DevPauseVideo(d, f) \in Device
           /\ DevPauseAudio(d, f) \in Device
           /\ DevResumeVideo(d, f) \in Device
           /\ DevResumeAudio(d, f) \in Device
BY DEF Device, Decoder, DevSetVideoParams, DevSetAudioParams, DevSetSubtitleParams,
       DevSetADParams, DevStopVideo, DevStopAudio, DevStopAD, DevStopSubtitle,
       DevStartVideo, DevStartAudio, DevStartAD, DevStartSubtitle, DevPauseVideo,
       DevPauseAudio, DevResumeVideo, DevResumeAudio

(* A new codec layer has its type.                                         *)
LEMMA NewDeviceType == NewDevice \in Device
BY DEF NewDevice, Device, Decoder

(* The methods of the codec layer that reach several decoders keep its     *)
(* type.                                                                   *)
LEMMA WholeDeviceTypes ==
    ASSUME NEW d \in Device, NEW b \in BOOLEAN, NEW f
    PROVE  /\ DevStart(d, f) \in Device
           /\ DevStop(d) \in Device
           /\ DevPause(d, f) \in Device
           /\ DevSwitchSubtitle(d, b, f) \in Device
<1>1. DevStop(d) \in Device
  BY DEF DevStop, Device, Decoder
<1>2. DevStart(d, f) \in Device
  BY DeviceTypes DEF DevStart
<1>3. DevPause(d, f) \in Device
  BY DeviceTypes DEF DevPause
<1>4. DevSwitchSubtitle(d, b, f) \in Device
  BY DeviceTypes DEF DevSwitchSubtitle
<1> QED
  BY <1>1, <1>2, <1>3, <1>4

(* No stream is up. *)
AllStopped(q) == \A s \in Stream : q.dec[s] = "STOPPED"

(* The client calls from one thread at a time. *)
OneClient == \A t, u \in Client : t = u

(* The inductive invariant, of the object alone. *)
Good(q) ==
    /\ q \in Player
    /\ q.state # "IDLE" => q.player
    /\ q.parser # "none" => q.state # "IDLE"
    /\ q.state = "PREPARING" => q.waiting # {} /\ q.parser # "none"
    /\ OneClient /\ q.state \in {"IDLE", "STOPPED"} => AllStopped(q)

(* An object whose control is that of a good one is good.                  *)
LEMMA SameControl ==
    ASSUME NEW q, Good(q), NEW r \in Player, r.state = q.state,
           q.player => r.player, r.parser = q.parser, r.waiting = q.waiting,
           r.dec = q.dec
    PROVE  Good(r)
BY DEF Good, AllStopped

(* Acting on the codec layer disturbs nothing else.                        *)
LEMMA OnDeviceGood ==
    ASSUME NEW q, Good(q), NEW d \in Device
    PROVE  /\ Good(OnDevice(q, d))
           /\ OnDevice(q, d).state = q.state
           /\ OnDevice(q, d).player = q.player
           /\ OnDevice(q, d).dev = d
           /\ OnDevice(q, d).dec = q.dec
BY DEF Good, OnDevice, Player, AllStopped

(* Streams may be marked while the object is up, and STOPPED at any time.  *)
LEMMA MarkGood ==
    ASSUME NEW q, Good(q), NEW S, NEW v \in DecodingState,
           q.state \notin {"IDLE", "STOPPED"} \/ v = "STOPPED"
    PROVE  /\ Good(Mark(q, S, v))
           /\ Mark(q, S, v).state = q.state
           /\ Mark(q, S, v).player = q.player
           /\ Mark(q, S, v).dev = q.dev
<1> DEFINE r == Mark(q, S, v)
<1>1. /\ r \in Player /\ r.state = q.state /\ r.player = q.player
      /\ r.dev = q.dev /\ r.parser = q.parser /\ r.waiting = q.waiting
  BY DEF Good, Mark, Player
<1>2. \A s \in Stream : r.dec[s] \in {q.dec[s], v}
  BY DEF Good, Mark, Player
<1>3. OneClient /\ r.state \in {"IDLE", "STOPPED"} => AllStopped(r)
  BY <1>1, <1>2 DEF Good, AllStopped
<1>4. Good(r)
  BY <1>1, <1>3 DEF Good
<1> QED
  BY <1>1, <1>4

(* With a codec layer the object may become PREPARED, RUNNING or PAUSED.   *)
LEMMA SetStateGood ==
    ASSUME NEW q, Good(q), q.player,
           NEW s \in {"PREPARED", "RUNNING", "PAUSED"}
    PROVE  /\ Good(SetState(q, s))
           /\ SetState(q, s).state = s
           /\ SetState(q, s).player
           /\ SetState(q, s).dev = q.dev
<1> DEFINE r == [q EXCEPT !.state = s, !.last = q.state]
<1>0. q \in Player
  BY DEF Good
<1>1. r \in Player /\ r.state = s /\ r.player = q.player /\ r.dev = q.dev /\ r.parser = q.parser
  BY <1>0 DEF Player, State
<1>2. Good(r)
  BY <1>1 DEF Good
<1>3. SetState(q, s) = IF q.state = s THEN q ELSE r
  BY DEF SetState
<1> QED
  BY <1>1, <1>2, <1>3

(* Binding the CAS session disturbs nothing that the invariant names.      *)
LEMMA PrepareCasGood ==
    ASSUME NEW q, Good(q)
    PROVE  /\ Good(PrepareCas(q))
           /\ PrepareCas(q).state = q.state
           /\ PrepareCas(q).player = q.player
<1> DEFINE r == [q EXCEPT !.cas = q.cas \/ (~q.standalone /\ q.casType),
                         !.ecmMode = IF q.mode = "IONLY" THEN "sync"
                                     ELSE UserWaitingEcmMode]
<1>1. /\ r \in Player /\ r.state = q.state /\ r.player = q.player
      /\ r.parser = q.parser /\ r.waiting = q.waiting /\ r.dec = q.dec
  BY SourceAssumption DEF Good, Player
<1>2. Good(r)
  BY <1>1, SameControl
<1> QED
  BY <1>1, <1>2 DEF PrepareCas

(* openParser_l leaves an object with a parser.                            *)
LEMMA OpenParserType ==
    ASSUME NEW q \in Player, NEW w \in SUBSET Waiting
    PROVE  /\ OpenParser(q, w) \in Player
           /\ OpenParser(q, w).state = q.state
           /\ OpenParser(q, w).player = q.player
           /\ OpenParser(q, w).waiting = q.waiting
           /\ OpenParser(q, w).parser # "none"
BY DEF OpenParser, Player

(* Waiting adds its reason and leaves an object with a parser.             *)
LEMMA WaitForType ==
    ASSUME NEW q \in Player, NEW w \in SUBSET Waiting
    PROVE  /\ WaitFor(q, w) \in Player
           /\ WaitFor(q, w).state = q.state
           /\ WaitFor(q, w).player = q.player
           /\ WaitFor(q, w).waiting = q.waiting \cup w
           /\ WaitFor(q, w).parser # "none"
<1> DEFINE o == OpenParser(q, w)
<1>1. /\ o \in Player /\ o.state = q.state /\ o.player = q.player /\ o.parser # "none"
  BY OpenParserType
<1>2. q.waiting \in SUBSET Waiting
  BY DEF Player
<1> HIDE DEF o
<1>3. WaitFor(q, w) = [o EXCEPT !.waiting = q.waiting \cup w]
  BY DEF WaitFor, o
<1> QED
  BY <1>1, <1>2, <1>3 DEF Player

(* setState_l changes mState and mLastState alone.                         *)
LEMMA SetStateType ==
    ASSUME NEW q \in Player, NEW s \in State
    PROVE  /\ SetState(q, s) \in Player
           /\ SetState(q, s).state = s
           /\ SetState(q, s).player = q.player
           /\ SetState(q, s).waiting = q.waiting
           /\ SetState(q, s).parser = q.parser
           /\ SetState(q, s).dev = q.dev
           /\ SetState(q, s).dec = q.dec
<1> DEFINE r == [q EXCEPT !.state = s, !.last = q.state]
<1>1. /\ r \in Player /\ r.state = s /\ r.player = q.player /\ r.dev = q.dev
      /\ r.parser = q.parser /\ r.waiting = q.waiting /\ r.dec = q.dec
  BY DEF Player
<1>2. SetState(q, s) = IF q.state = s THEN q ELSE r
  BY DEF SetState
<1> QED
  BY <1>1, <1>2

(* The end of prepare_l: PREPARED, or PREPARING with a reason and a        *)
(* parser.                                                                 *)
LEMMA PrepareWaitGood ==
    ASSUME NEW q \in Player, q.player
    PROVE  Good(PrepareWait(q))
<1> DEFINE w == (IF NeedsCodecId(q) THEN {"codec"} ELSE {})
                    \cup (IF NeedsEcm(q) THEN {"ecm"} ELSE {})
           m == IF MonitorPidChange THEN OpenParser(q, {"codec"}) ELSE q
<1>1. w \in SUBSET Waiting
  BY DEF Waiting
<1>2. m \in Player /\ m.player
  BY OpenParserType DEF Waiting
<1> HIDE DEF w, m
<1>3. CASE w = {}
  <2>1. PrepareWait(q) = SetState(m, "PREPARED")
    BY <1>3 DEF PrepareWait, w, m
  <2> QED
    BY <1>2, <2>1, SetStateType DEF Good, State
<1>4. CASE w # {}
  <2>1. PrepareWait(q) = SetState(WaitFor(m, w), "PREPARING")
    BY <1>4 DEF PrepareWait, w, m
  <2>2. /\ WaitFor(m, w) \in Player /\ WaitFor(m, w).player
        /\ WaitFor(m, w).waiting # {} /\ WaitFor(m, w).parser # "none"
    BY <1>1, <1>2, <1>4, WaitForType
  <2> QED
    BY <2>1, <2>2, SetStateType DEF Good, State
<1> QED
  BY <1>3, <1>4

(* prepare_l, which may fail and then leaves an IDLE object.               *)
LEMMA PrepareGood ==
    ASSUME NEW q, Good(q), q.state = "IDLE", NEW f
    PROVE  Good(Prepare(q, f))
<1> DEFINE c == PrepareCas(q)
           r == IF c.player \/ "create" \in f THEN c
                ELSE [c EXCEPT !.player = TRUE, !.dev = NewDevice]
<1>1. Good(c) /\ c.state = "IDLE" /\ c.player = q.player
  BY PrepareCasGood
<1> HIDE DEF c
<1>2. Good(r)
  <2>1. /\ r \in Player /\ r.state = c.state
        /\ c.player => r.player
        /\ r.parser = c.parser /\ r.waiting = c.waiting /\ r.dec = c.dec
    BY <1>1, NewDeviceType DEF Good, Player
  <2> QED
    BY <1>1, <2>1, SameControl
<1>3. ~PrepareFails(q, f) => r \in Player /\ r.player
  BY <1>1, <1>2 DEF PrepareFails, Good, Player
<1>4. Prepare(q, f) = IF PrepareFails(q, f) THEN r ELSE PrepareWait(r)
  BY DEF Prepare, c
<1> HIDE DEF r
<1> QED
  BY <1>2, <1>3, <1>4, PrepareWaitGood

(* The preparation every start begins with.                                *)
LEMMA PreparedGood ==
    ASSUME NEW q, Good(q), NEW f
    PROVE  Good(Prepared(q, f))
BY PrepareGood DEF Prepared

(* A start while PREPARING only leaves a note.                             *)
LEMMA DeferredGood ==
    ASSUME NEW q, Good(q), NEW S
    PROVE  Good(Deferred(q, S))
BY MarkGood DEF Deferred, DecodingState

(* resetADCodec_l acts on the codec layer alone.                           *)
LEMMA ResetADCodecGood ==
    ASSUME NEW q, Good(q), NEW b \in BOOLEAN, NEW f
    PROVE  /\ Good(ResetADCodec(q, b, f))
           /\ ResetADCodec(q, b, f).player = q.player
           /\ ResetADCodec(q, b, f).state = q.state
<1> DEFINE d == DevStopAD(q.dev)
           e == IF HasPid(q, "AD") THEN DevSetADParams(d, TRUE) ELSE d
<1>1. q.dev \in Device
  BY DEF Good, Player
<1>2. d \in Device
  BY <1>1, DeviceTypes
<1> HIDE DEF d
<1>3. e \in Device
  BY <1>2, DeviceTypes
<1> HIDE DEF e
<1>4. (IF b THEN DevStartAD(e, f) ELSE e) \in Device
  BY <1>3, DeviceTypes
<1>5. ResetADCodec(q, b, f) = OnDevice(q, IF b THEN DevStartAD(e, f) ELSE e)
  BY DEF ResetADCodec, d, e
<1> QED
  BY <1>4, <1>5, OnDeviceGood

(* resetAudioCodec_l acts on the codec layer alone.                        *)
LEMMA ResetAudioCodecGood ==
    ASSUME NEW q, Good(q), NEW b \in BOOLEAN, NEW f
    PROVE  /\ Good(ResetAudioCodec(q, b, f))
           /\ ResetAudioCodec(q, b, f).player = q.player
           /\ ResetAudioCodec(q, b, f).state = q.state
<1> DEFINE d == DevStopAudio(q.dev)
           e == IF HasPid(q, "AUDIO")
                THEN DevSetAudioParams(d, HasCodec(q, "AUDIO")) ELSE d
<1>1. q.dev \in Device
  BY DEF Good, Player
<1>2. d \in Device
  BY <1>1, DeviceTypes
<1> HIDE DEF d
<1>3. e \in Device
  BY <1>2, DeviceTypes DEF HasCodec
<1> HIDE DEF e
<1>4. (IF b THEN DevStartAudio(e, f) ELSE e) \in Device
  BY <1>3, DeviceTypes
<1>5. ResetAudioCodec(q, b, f) = OnDevice(q, IF b THEN DevStartAudio(e, f) ELSE e)
  BY DEF ResetAudioCodec, d, e
<1> QED
  BY <1>4, <1>5, OnDeviceGood

(* How every successful start ends.                                        *)
LEMMA NowRunning ==
    ASSUME NEW q, Good(q), q.player, NEW S
    PROVE  Good(Mark(SetState(q, "RUNNING"), S, "STARTED"))
BY SetStateGood, MarkGood DEF DecodingState

(* Past the preparation there is a codec layer.                            *)
LEMMA ReadyHasPlayer ==
    ASSUME NEW q, Good(q), ~NotReady(q)
    PROVE  q.player
BY DEF Good, NotReady

(* startVideoDecoding_l keeps the object good.                             *)
LEMMA StartVideoGood ==
    ASSUME NEW q0, Good(q0), NEW f
    PROVE  Good(StartVideo(q0, f))
<1> DEFINE q == Prepared(q0, f)
           d == IF HasPid(q, "VIDEO")
                THEN DevSetVideoParams(q.dev, HasCodec(q, "VIDEO")) ELSE q.dev
           r == OnDevice(q, DevStartVideo(d, f))
           S == IF HasPid(q, "VIDEO") THEN {"VIDEO"} ELSE {}
<1>1. Good(q)
  BY PreparedGood
<1>2. StartVideo(q0, f) = IF NotReady(q) THEN Deferred(q, {"VIDEO"})
                          ELSE IF "startVideo" \in f THEN r
                          ELSE Mark(SetState(r, "RUNNING"), S, "STARTED")
  BY DEF StartVideo
<1> HIDE DEF q
<1>3. d \in Device
  BY <1>1, DeviceTypes DEF HasCodec, Good, Player
<1> HIDE DEF d
<1>4. Good(r) /\ r.player = q.player
  BY <1>1, <1>3, DeviceTypes, OnDeviceGood
<1> QED
  BY <1>1, <1>2, <1>4, DeferredGood, ReadyHasPlayer, NowRunning

(* startAudioDecoding_l keeps the object good.                             *)
LEMMA StartAudioGood ==
    ASSUME NEW q0, Good(q0), NEW f
    PROVE  Good(StartAudio(q0, f))
<1> DEFINE q == Prepared(q0, f)
           a == IF q.dec["AD"] = "STARTED" THEN ResetADCodec(q, FALSE, f) ELSE q
           d == DevSetAudioParams(a.dev, HasCodec(q, "AUDIO"))
           r == OnDevice(a, DevStartAudio(d, f))
<1>1. Good(q)
  BY PreparedGood
<1>2. StartAudio(q0, f) = IF NotReady(q) THEN Deferred(q, {"AUDIO"})
                          ELSE IF ~HasPid(q, "AUDIO") THEN q
                          ELSE IF "startAudio" \in f THEN r
                          ELSE Mark(SetState(r, "RUNNING"), {"AUDIO"}, "STARTED")
  BY DEF StartAudio
<1> HIDE DEF q
<1>3. Good(a) /\ a.player = q.player
  BY <1>1, ResetADCodecGood
<1> HIDE DEF a
<1>4. d \in Device
  BY <1>3, DeviceTypes DEF HasCodec, Good, Player
<1> HIDE DEF d
<1>5. Good(r) /\ r.player = q.player
  BY <1>3, <1>4, DeviceTypes, OnDeviceGood
<1> QED
  BY <1>1, <1>2, <1>5, DeferredGood, ReadyHasPlayer, NowRunning

(* startADDecoding_l keeps the object good.                                *)
LEMMA StartADGood ==
    ASSUME NEW q0, Good(q0), NEW f
    PROVE  Good(StartAD(q0, f))
<1> DEFINE q == Prepared(q0, f)
           a == IF q.dec["AUDIO"] = "STARTED" THEN ResetAudioCodec(q, FALSE, f)
                ELSE q
           r == OnDevice(a, DevStartAD(DevSetADParams(a.dev, TRUE), f))
<1>1. Good(q)
  BY PreparedGood
<1>2. StartAD(q0, f) = IF NotReady(q) THEN Deferred(q, {"AD"})
                       ELSE IF ~HasPid(q, "AD") THEN q
                       ELSE IF "startAD" \in f THEN r
                       ELSE Mark(SetState(r, "RUNNING"), {"AD"}, "STARTED")
  BY DEF StartAD
<1> HIDE DEF q
<1>3. Good(a) /\ a.player = q.player
  BY <1>1, ResetAudioCodecGood
<1> HIDE DEF a
<1>4. DevSetADParams(a.dev, TRUE) \in Device
  BY <1>3, DeviceTypes DEF Good, Player
<1>5. Good(r) /\ r.player = q.player
  BY <1>3, <1>4, DeviceTypes, OnDeviceGood
<1> QED
  BY <1>1, <1>2, <1>5, DeferredGood, ReadyHasPlayer, NowRunning

(* startSubtitleDecoding_l keeps the object good.                          *)
LEMMA StartSubtitleGood ==
    ASSUME NEW q0, Good(q0), NEW f
    PROVE  Good(StartSubtitle(q0, f))
<1> DEFINE q == Prepared(q0, f)
           d == IF HasCodec(q, "SUBTITLE")
                THEN DevSetSubtitleParams(q.dev, TRUE) ELSE q.dev
           r == OnDevice(q, DevStartSubtitle(d, f))
           S == IF HasCodec(q, "SUBTITLE") THEN {"SUBTITLE"} ELSE {}
<1>1. Good(q)
  BY PreparedGood
<1>2. StartSubtitle(q0, f) =
          IF ~q0.player \/ q0.dec["SUBTITLE"] = "STARTED" THEN q0
          ELSE IF NotReady(q) THEN Deferred(q, {"SUBTITLE"})
          ELSE IF d.subtitleSet /\ "startSubtitle" \in f THEN r
          ELSE Mark(SetState(r, "RUNNING"), S, "STARTED")
  BY DEF StartSubtitle
<1> HIDE DEF q
<1>3. d \in Device
  BY <1>1, DeviceTypes DEF Good, Player
<1> HIDE DEF d
<1>4. Good(r) /\ r.player = q.player
  BY <1>1, <1>3, DeviceTypes, OnDeviceGood
<1> QED
  BY <1>1, <1>2, <1>4, DeferredGood, ReadyHasPlayer, NowRunning

(* Setting the parameters leaves the codec layer its type.                 *)
LEMMA ParametersSetType ==
    ASSUME NEW q, q.dev \in Device
    PROVE  ParametersSet(q) \in Device
<1> DEFINE v == IF HasPid(q, "VIDEO") THEN HasCodec(q, "VIDEO") ELSE q.dev.videoSet
           a == IF HasPid(q, "AUDIO") THEN HasCodec(q, "AUDIO") ELSE q.dev.audioSet
           s == HasCodec(q, "SUBTITLE") \/ q.dev.subtitleSet
<1>1. v \in BOOLEAN /\ a \in BOOLEAN /\ s \in BOOLEAN
  BY DEF HasCodec, Device
<1>2. ParametersSet(q) =
          [q.dev EXCEPT !.videoSet = v, !.audioSet = a, !.subtitleSet = s]
  BY DEF ParametersSet
<1> HIDE DEF v, a, s
<1> QED
  BY <1>1, <1>2 DEF Device

(* start_l keeps the object good.                                          *)
LEMMA StartGood ==
    ASSUME NEW q0, Good(q0), NEW f
    PROVE  Good(Start(q0, f))
<1> DEFINE q == Prepared(q0, f)
           d == ParametersSet(q)
           any == Configured(q) # {}
           r == OnDevice(q, IF any THEN DevStart(d, f) ELSE d)
<1>1. Good(q)
  BY PreparedGood
<1>2. Start(q0, f) =
          IF NotReady(q) THEN Deferred(q, Stream)
          ELSE IF any /\ DevStartFails(d, f) THEN r
          ELSE StartAD(Mark(SetState(r, "RUNNING"), Configured(q), "STARTED"), f)
  BY DEF Start
<1> HIDE DEF q
<1>3. d \in Device
  BY <1>1, ParametersSetType DEF Good, Player
<1> HIDE DEF d
<1>4. Good(r) /\ r.player = q.player
  BY <1>1, <1>3, WholeDeviceTypes, OnDeviceGood
<1> QED
  BY <1>1, <1>2, <1>4, DeferredGood, ReadyHasPlayer, NowRunning, StartADGood

(* pause_l keeps the object good.                                          *)
LEMMA PauseGood ==
    ASSUME NEW q, Good(q), NEW f
    PROVE  Good(Pause(q, f))
<1> DEFINE r == OnDevice(q, DevPause(q.dev, f))
<1>1. q.dev \in Device
  BY DEF Good, Player
<1>2. Good(r) /\ r.player = q.player
  BY <1>1, WholeDeviceTypes, OnDeviceGood
<1>3. Pause(q, f) =
          IF q.state # "RUNNING" \/ ~q.player THEN q
          ELSE IF DevPauseFails(q.dev, f) THEN r
          ELSE Mark(SetState(r, "PAUSED"), InState(r, Stream, "STARTED"), "PAUSED")
  BY DEF Pause
<1> QED
  BY <1>2, <1>3, SetStateGood, MarkGood DEF DecodingState

(* startAudioDecoding_l of an object that is up ends in its state or       *)
(* RUNNING.                                                                *)
LEMMA StartAudioKeepsUp ==
    ASSUME NEW q, Good(q), q.state # "IDLE", NEW f
    PROVE  StartAudio(q, f).state \in {q.state, "RUNNING"}
<1> DEFINE a == IF q.dec["AD"] = "STARTED" THEN ResetADCodec(q, FALSE, f) ELSE q
           d == DevSetAudioParams(a.dev, HasCodec(q, "AUDIO"))
           r == OnDevice(a, DevStartAudio(d, f))
<1>1. q.player
  BY DEF Good
<1>2. StartAudio(q, f) = IF NotReady(q) THEN Deferred(q, {"AUDIO"})
                         ELSE IF ~HasPid(q, "AUDIO") THEN q
                         ELSE IF "startAudio" \in f THEN r
                         ELSE Mark(SetState(r, "RUNNING"), {"AUDIO"}, "STARTED")
  BY DEF StartAudio, Prepared
<1>3. Good(a) /\ a.player = q.player /\ a.state = q.state
  BY ResetADCodecGood
<1> HIDE DEF a
<1>a. a.dev \in Device
  BY <1>3 DEF Good, Player
<1>c. HasCodec(q, "AUDIO") \in BOOLEAN
  BY DEF HasCodec
<1>4. d \in Device
  BY <1>a, <1>c, DeviceTypes
<1> HIDE DEF d
<1>d. DevStartAudio(d, f) \in Device
  BY <1>4, DeviceTypes
<1>5. Good(r) /\ r.player = q.player /\ r.state = q.state
  BY <1>3, <1>d, OnDeviceGood
<1>6. Deferred(q, {"AUDIO"}).state = q.state
  BY MarkGood DEF Deferred, DecodingState
<1> HIDE DEF r
<1>7. /\ Good(SetState(r, "RUNNING")) /\ SetState(r, "RUNNING").state = "RUNNING"
  BY <1>1, <1>5, SetStateGood
<1>8. Mark(SetState(r, "RUNNING"), {"AUDIO"}, "STARTED").state = "RUNNING"
  BY <1>7, MarkGood DEF DecodingState
<1> QED
  BY <1>2, <1>5, <1>6, <1>8

(* resume_l keeps the object good, the restart of the audio included.      *)
LEMMA ResumeGood ==
    ASSUME NEW q, Good(q), NEW f
    PROVE  Good(Resume(q, f))
<1> DEFINE v == ResumeVideo(q, f)
           a == ResumeAudio(v, f)
           r == Mark(a, InState(a, {"AD", "SUBTITLE"}, "PAUSED"), "STARTED")
<1>0. SUFFICES ASSUME q.state = "PAUSED" PROVE Good(Resume(q, f))
  BY DEF Resume
<1>1. Good(v) /\ v.player = q.player /\ v.state = q.state
  <2> DEFINE o == OnDevice(q, DevResumeVideo(q.dev, f))
  <2>1. Good(o) /\ o.player = q.player /\ o.state = q.state
    BY DeviceTypes, OnDeviceGood DEF Good, Player
  <2>2. v = IF q.dec["VIDEO"] = "PAUSED" THEN Mark(o, {"VIDEO"}, "STARTED") ELSE q
    BY DEF ResumeVideo
  <2> HIDE DEF o, v
  <2> QED
    BY <1>0, <2>1, <2>2, MarkGood DEF DecodingState
<1> HIDE DEF v
<1>2. Good(a) /\ a.state \in {"PAUSED", "RUNNING"}
  <2>1. CASE v.dec["AUDIO"] = "PAUSED"
    <3> DEFINE o == OnDevice(v, DevResumeAudio(v.dev, f))
    <3>1. v.dev \in Device
      BY <1>1 DEF Good, Player
    <3>2. Good(o) /\ o.state = v.state
      BY <1>1, <3>1, DeviceTypes, OnDeviceGood
    <3>3. a = Mark(o, {"AUDIO"}, "STARTED")
      BY <2>1 DEF ResumeAudio
    <3> HIDE DEF o, a
    <3> QED
      BY <1>0, <1>1, <3>2, <3>3, MarkGood DEF DecodingState
  <2>2. CASE v.dec["AUDIO"] # "PAUSED" /\ ~RestartsAudio(v)
    BY <1>0, <1>1, <2>2 DEF ResumeAudio
  <2>3. CASE v.dec["AUDIO"] # "PAUSED" /\ RestartsAudio(v)
    BY <1>0, <1>1, <2>3, StartAudioGood, StartAudioKeepsUp DEF ResumeAudio
  <2> QED
    BY <2>1, <2>2, <2>3
<1>3. a.player
  BY <1>2 DEF Good
<1> HIDE DEF a
<1>4. Good(r) /\ r.player
  BY <1>2, <1>3, MarkGood DEF DecodingState
<1>5. Resume(q, f) = IF q.state # "PAUSED" \/ ~q.player THEN q
                     ELSE IF ResumeFails(q, f) THEN r ELSE SetState(r, "RUNNING")
  BY DEF Resume, v, a
<1> QED
  BY <1>4, <1>5, SetStateGood

(* What flush gives the codec layer again is of its type.                  *)
LEMMA RefreshedType ==
    ASSUME NEW q, Good(q)
    PROVE  Refreshed(q) \in Device
<1>1. q.dev \in Device
  BY DEF Good, Player
<1>2. DevStop(q.dev) \in Device
  BY <1>1, WholeDeviceTypes
<1> DEFINE o == DevStop(q.dev)
           v == IF q.dec["VIDEO"] \in {"STARTED", "PAUSED"}
                THEN HasCodec(q, "VIDEO") ELSE o.videoSet
           a == IF q.dec["AUDIO"] \in {"STARTED", "PAUSED"}
                THEN HasCodec(q, "AUDIO") ELSE o.audioSet
           m == q.dec["AD"] \in {"STARTED", "PAUSED"} \/ o.mix
<1>3. Refreshed(q) = [o EXCEPT !.videoSet = v, !.audioSet = a, !.mix = m]
  BY DEF Refreshed
<1> HIDE DEF o
<1>4. v \in BOOLEAN /\ a \in BOOLEAN /\ m \in BOOLEAN
  BY <1>2 DEF HasCodec, Device, o
<1>5. o \in Device
  BY <1>2 DEF o
<1> HIDE DEF v, a, m
<1> QED
  BY <1>3, <1>4, <1>5 DEF Device

(* flush keeps the object good, also when it has to wait for a new ECM.    *)
LEMMA FlushGood ==
    ASSUME NEW q, Good(q), NEW f
    PROVE  Good(Flush(q, f))
<1> DEFINE r == OnDevice(q, Refreshed(q))
           d == DevStart(r.dev, f)
           e == IF r.state = "PAUSED" THEN DevPause(d, f) ELSE d
           w == SetState(WaitFor(r, {"ecm"}), "PREPARING")
<1>1. Refreshed(q) \in Device
  BY RefreshedType
<1>2. Good(r) /\ r.player = q.player /\ r.dev \in Device
  BY <1>1, OnDeviceGood
<1>3. Flush(q, f) = IF q.state \notin {"RUNNING", "PAUSED"} \/ ~q.player THEN q
                    ELSE IF NeedsEcm(r) THEN Mark(w, Stream, "START_PENDING")
                    ELSE OnDevice(r, e)
  BY DEF Flush
<1> HIDE DEF r
<1>4. e \in Device
  BY <1>2, WholeDeviceTypes
<1>5. q.player => Good(w) /\ w.state = "PREPARING"
  <2>1. r \in Player /\ {"ecm"} \in SUBSET Waiting /\ "PREPARING" \in State
    BY <1>2 DEF Good, Waiting, State
  <2>2. SUFFICES ASSUME q.player PROVE Good(w) /\ w.state = "PREPARING"
    OBVIOUS
  <2> DEFINE n == WaitFor(r, {"ecm"})
  <2>3. /\ n \in Player /\ n.player = r.player
        /\ n.waiting = r.waiting \cup {"ecm"} /\ n.parser # "none"
    BY <2>1, WaitForType
  <2> HIDE DEF n
  <2>4. /\ SetState(n, "PREPARING") \in Player
        /\ SetState(n, "PREPARING").player = n.player
        /\ SetState(n, "PREPARING").waiting = n.waiting
        /\ SetState(n, "PREPARING").parser = n.parser
        /\ SetState(n, "PREPARING").state = "PREPARING"
    BY <2>1, <2>3, SetStateType
  <2>5. w = SetState(n, "PREPARING")
    BY DEF n
  <2> QED
    BY <1>2, <2>2, <2>3, <2>4, <2>5 DEF Good
<1> HIDE DEF e, w
<1> QED
  BY <1>2, <1>3, <1>4, <1>5, OnDeviceGood, MarkGood DEF DecodingState

(* STOPPED is entered only with every stream stopped.                      *)
LEMMA StopIfIdleGood ==
    ASSUME NEW q, Good(q), q.player
    PROVE  Good(StopIfIdle(q)) /\ StopIfIdle(q).player
<1>1. CASE AllStopped(q)
  <2>1. /\ SetState(q, "STOPPED") \in Player
        /\ SetState(q, "STOPPED").state = "STOPPED"
        /\ SetState(q, "STOPPED").player
        /\ SetState(q, "STOPPED").dec = q.dec
    BY SetStateType DEF Good, State
  <2>2. AllStopped(SetState(q, "STOPPED"))
    BY <1>1, <2>1 DEF AllStopped
  <2>3. StopIfIdle(q) = SetState(q, "STOPPED")
    BY <1>1 DEF StopIfIdle, AllStopped
  <2> QED
    BY <2>1, <2>2, <2>3 DEF Good
<1>2. CASE ~AllStopped(q)
  BY <1>2 DEF StopIfIdle, AllStopped
<1> QED
  BY <1>1, <1>2

(* How every stop reaches resetIfNeeded_l.                                 *)
LEMMA StoppedGood ==
    ASSUME NEW q, Good(q), q.player, NEW S
    PROVE  /\ Good(StopIfIdle(Mark(q, S, "STOPPED")))
           /\ StopIfIdle(Mark(q, S, "STOPPED")).player
BY MarkGood, StopIfIdleGood DEF DecodingState

(* The five stops up to reset_l keep the object good and its codec layer.  *)
LEMMA StopGood ==
    ASSUME NEW q, Good(q), q.player, NEW f
    PROVE  /\ Good(StopAll(q)) /\ StopAll(q).player
           /\ Good(StopVideo(q)) /\ StopVideo(q).player
           /\ Good(StopAudio(q, f)) /\ StopAudio(q, f).player
           /\ Good(StopAD(q, f)) /\ StopAD(q, f).player
           /\ Good(StopSubtitle(q)) /\ StopSubtitle(q).player
<1>1. q.dev \in Device
  BY DEF Good, Player
<1>2. Good(StopAll(q)) /\ StopAll(q).player
  <2> DEFINE d == [DevStop(q.dev) EXCEPT !.audioSet = FALSE, !.mix = FALSE]
             r == IF Active(q) THEN OnDevice(q, d) ELSE q
  <2>1. d \in Device
    <3>1. DevStop(q.dev) \in Device
      BY <1>1, WholeDeviceTypes
    <3> QED
      BY <3>1 DEF Device
  <2>2. StopAll(q) = StopIfIdle(Mark(r, Stream, "STOPPED"))
    BY DEF StopAll
  <2> HIDE DEF d
  <2>3. Good(r) /\ r.player
    BY <2>1, OnDeviceGood
  <2> QED
    BY <2>2, <2>3, StoppedGood
<1>3. Good(StopVideo(q)) /\ StopVideo(q).player
  BY <1>1, DeviceTypes, OnDeviceGood, StoppedGood DEF StopVideo
<1>4. Good(StopAudio(q, f)) /\ StopAudio(q, f).player
  <2> DEFINE d == DevSetAudioParams(DevStopAudio(q.dev), FALSE)
             r == IF ~Active(q) THEN q
                  ELSE IF q.dec["AD"] = "STARTED"
                  THEN ResetADCodec(OnDevice(q, d), TRUE, f)
                  ELSE OnDevice(q, d)
             m == Mark(r, {"AUDIO"}, "STOPPED")
             n == [m EXCEPT !.switching = FALSE]
  <2>1. d \in Device
    BY <1>1, DeviceTypes
  <2>2. StopAudio(q, f) = StopIfIdle(n)
    BY DEF StopAudio
  <2> HIDE DEF d
  <2>on. Good(OnDevice(q, d)) /\ OnDevice(q, d).player
    BY <2>1, OnDeviceGood
  <2>reset. /\ Good(ResetADCodec(OnDevice(q, d), TRUE, f))
            /\ ResetADCodec(OnDevice(q, d), TRUE, f).player
    <3> DEFINE o == OnDevice(q, d)
    <3>1. Good(o) /\ o.player
      BY <2>on
    <3> HIDE DEF o
    <3>2. Good(ResetADCodec(o, TRUE, f)) /\ ResetADCodec(o, TRUE, f).player
      BY <3>1, ResetADCodecGood
    <3> QED
      BY <3>2 DEF o
  <2>3. Good(r) /\ r.player
    BY <2>on, <2>reset
  <2> HIDE DEF r
  <2>4. Good(m) /\ m.player
    BY <2>3, MarkGood DEF DecodingState
  <2> HIDE DEF m
  <2>5. /\ n \in Player /\ n.state = m.state /\ n.player
        /\ n.parser = m.parser /\ n.waiting = m.waiting /\ n.dec = m.dec
    BY <2>4 DEF Good, Player
  <2>6. Good(n)
    BY <2>4, <2>5, SameControl
  <2> QED
    BY <2>2, <2>5, <2>6, StopIfIdleGood
<1>5. Good(StopAD(q, f)) /\ StopAD(q, f).player
  <2> DEFINE d == DevSetADParams(DevStopAD(q.dev), FALSE)
             r == IF ~Active(q) THEN q
                  ELSE IF q.dec["AUDIO"] = "STARTED"
                  THEN ResetAudioCodec(OnDevice(q, d), TRUE, f)
                  ELSE OnDevice(q, d)
  <2>1. d \in Device
    BY <1>1, DeviceTypes
  <2>2. StopAD(q, f) = StopIfIdle(Mark(r, {"AD"}, "STOPPED"))
    BY DEF StopAD
  <2> HIDE DEF d
  <2>on. Good(OnDevice(q, d)) /\ OnDevice(q, d).player
    BY <2>1, OnDeviceGood
  <2>reset. /\ Good(ResetAudioCodec(OnDevice(q, d), TRUE, f))
            /\ ResetAudioCodec(OnDevice(q, d), TRUE, f).player
    <3> DEFINE o == OnDevice(q, d)
    <3>1. Good(o) /\ o.player
      BY <2>on
    <3> HIDE DEF o
    <3>2. Good(ResetAudioCodec(o, TRUE, f)) /\ ResetAudioCodec(o, TRUE, f).player
      BY <3>1, ResetAudioCodecGood
    <3> QED
      BY <3>2 DEF o
  <2>3. Good(r) /\ r.player
    BY <2>on, <2>reset
  <2> HIDE DEF r
  <2> QED
    BY <2>2, <2>3, StoppedGood
<1>6. Good(StopSubtitle(q)) /\ StopSubtitle(q).player
  BY <1>1, DeviceTypes, OnDeviceGood, StoppedGood DEF StopSubtitle
<1> QED
  BY <1>2, <1>3, <1>4, <1>5, <1>6

(* The second half of reset_l ends in a good IDLE object if no stream is   *)
(* up.                                                                     *)
LEMMA ResetDoneGood ==
    ASSUME NEW q, Good(q), OneClient => AllStopped(q), NEW b \in BOOLEAN
    PROVE  Good(ResetDone(q, b)) /\ ResetDone(q, b).state = "IDLE"
<1> DEFINE r == [q EXCEPT
                    !.parser = "none", !.asked = {},
                    !.player = FALSE, !.dev = NewDevice,
                    !.cas = q.cas /\ q.standalone /\ ~b,
                    !.standalone = q.standalone /\ ~b,
                    !.switching = FALSE]
<1>1. r \in Player /\ r.parser = "none" /\ r.dec = q.dec
  BY NewDeviceType DEF Good, Player
<1>2. ResetDone(q, b) = SetState(r, "IDLE")
  BY DEF ResetDone
<1> HIDE DEF r
<1>3. /\ SetState(r, "IDLE") \in Player
      /\ SetState(r, "IDLE").state = "IDLE"
      /\ SetState(r, "IDLE").parser = "none"
      /\ SetState(r, "IDLE").dec = q.dec
  BY <1>1, SetStateType DEF State
<1> QED
  BY <1>2, <1>3 DEF Good, AllStopped

(* What follows the closing of the parser, the restart of a mode switch    *)
(* too.                                                                    *)
LEMMA AfterCloseGood ==
    ASSUME NEW q, Good(q), OneClient => AllStopped(q), NEW k, NEW f
    PROVE  Good(AfterClose(q, k, f))
BY ResetDoneGood, StartGood, StartVideoGood DEF AfterClose, Restart

(* switchAudioTrack keeps the object good.                                 *)
LEMMA SwitchAudioTrackGood ==
    ASSUME NEW q0, Good(q0), NEW v \in Param, NEW f
    PROVE  Good(SwitchAudioTrack(q0, v, f))
<1> DEFINE q == [q0 EXCEPT !.prm["AUDIO"] = v]
           d == DevStopAudio(q.dev)
           r == Mark(OnDevice(q, d), {"AUDIO"}, "STOPPED")
           n == [r EXCEPT !.switching = TRUE]
<1>1. Good(q) /\ q.dev \in Device
  <2>1. /\ q \in Player /\ q.state = q0.state /\ q.player = q0.player
        /\ q.parser = q0.parser /\ q.waiting = q0.waiting /\ q.dec = q0.dec
    BY DEF Good, Player, Stream
  <2> HIDE DEF q
  <2> QED
    BY <2>1, SameControl DEF Player
<1>2. SwitchAudioTrack(q0, v, f) = IF ~Active(q) \/ ~q.player THEN q
                                   ELSE IF q.state = "RUNNING" THEN StartAudio(r, f)
                                   ELSE n
  BY DEF SwitchAudioTrack
<1> HIDE DEF q
<1>3. Good(r)
  BY <1>1, DeviceTypes, OnDeviceGood, MarkGood DEF DecodingState
<1> HIDE DEF r
<1>4. Good(n)
  <2>1. /\ n \in Player /\ n.state = r.state /\ n.player = r.player
        /\ n.parser = r.parser /\ n.waiting = r.waiting /\ n.dec = r.dec
    BY <1>3 DEF Good, Player
  <2> QED
    BY <1>3, <2>1, SameControl
<1> QED
  BY <1>1, <1>2, <1>3, <1>4, StartAudioGood

(* switchSubtitleTrack keeps the object good.                              *)
LEMMA SwitchSubtitleTrackGood ==
    ASSUME NEW q0, Good(q0), NEW v \in Param, NEW f
    PROVE  Good(SwitchSubtitleTrack(q0, v, f))
<1> DEFINE q == [q0 EXCEPT !.prm["SUBTITLE"] = v]
           r == OnDevice(q, DevSwitchSubtitle(q.dev, v = "full", f))
           S == IF v = "full" THEN {"SUBTITLE"} ELSE {}
<1>1. Good(q) /\ q.dev \in Device
  <2>1. /\ q \in Player /\ q.state = q0.state /\ q.player = q0.player
        /\ q.parser = q0.parser /\ q.waiting = q0.waiting /\ q.dec = q0.dec
    BY DEF Good, Player, Stream
  <2> HIDE DEF q
  <2> QED
    BY <2>1, SameControl DEF Player
<1>2. SwitchSubtitleTrack(q0, v, f) = IF ~Active(q) \/ ~q.player THEN q
                                      ELSE Mark(r, S, "STARTED")
  BY DEF SwitchSubtitleTrack
<1> HIDE DEF q
<1>3. Good(r) /\ r.state = q.state
  BY <1>1, WholeDeviceTypes, OnDeviceGood
<1> QED
  BY <1>1, <1>2, <1>3, MarkGood DEF DecodingState, Active

(* Starting a pending stream or leaving it alone.                          *)
LEMMA StartPendingGood ==
    ASSUME NEW q, Good(q), NEW s, NEW r, Good(r)
    PROVE  Good(StartPending(q, s, r))
BY DEF StartPending

(* finishPreparingIfNeeded_l restores what the callback has just broken:   *)
(* the object may be PREPARING with nothing left to wait for.              *)
LEMMA FinishPreparingGood ==
    ASSUME NEW q \in Player, q.state # "IDLE" => q.player,
           q.parser # "none" => q.state # "IDLE",
           q.state = "PREPARING" => q.parser # "none",
           OneClient /\ q.state \in {"IDLE", "STOPPED"} => AllStopped(q),
           NEW f
    PROVE  Good(FinishPreparing(q, f))
<1> DEFINE u == SetState(q, "PREPARED")
           v == StartPending(u, "VIDEO", StartVideo(u, f))
           a == StartPending(v, "AUDIO", StartAudio(v, f))
           s == StartPending(a, "SUBTITLE", StartSubtitle(a, f))
           d == StartPending(s, "AD", StartAD(s, f))
<1>1. CASE q.state = "PREPARING" /\ q.waiting = {}
  <2>1. Good(u)
    BY <1>1, SetStateType DEF Good, State
  <2>2. FinishPreparing(q, f) = IF q.last = "PAUSED" THEN Pause(d, f) ELSE d
    BY <1>1 DEF FinishPreparing
  <2> HIDE DEF u
  <2>3. Good(v)
    BY <2>1, StartVideoGood, StartPendingGood
  <2> HIDE DEF v
  <2>4. Good(a)
    BY <2>3, StartAudioGood, StartPendingGood
  <2> HIDE DEF a
  <2>5. Good(s)
    BY <2>4, StartSubtitleGood, StartPendingGood
  <2> HIDE DEF s
  <2>6. Good(d)
    BY <2>5, StartADGood, StartPendingGood
  <2> HIDE DEF d
  <2> QED
    BY <2>2, <2>6, PauseGood
<1>2. CASE ~(q.state = "PREPARING" /\ q.waiting = {})
  <2>1. FinishPreparing(q, f) = q
    BY <1>2 DEF FinishPreparing
  <2> QED
    BY <1>2, <2>1 DEF Good
<1> QED
  BY <1>1, <1>2

(* EVENT_PROGRAM_PARSED keeps the object good.                             *)
LEMMA ProgramParsedGood ==
    ASSUME NEW q, Good(q), NEW found, NEW f
    PROVE  Good(ProgramParsed(q, found, f))
<1> DEFINE learnt(s) == s \in found /\ q.prm[s] = "nocodec"
           r == [q EXCEPT !.prm = [s \in Stream |->
                                       IF learnt(s) THEN "full" ELSE q.prm[s]],
                          !.waiting = q.waiting \ {"codec"}]
<1>1. /\ r \in Player /\ r.state = q.state /\ r.player = q.player
      /\ r.parser = q.parser /\ r.dec = q.dec
  BY DEF Good, Player, Param
<1>2. ProgramParsed(q, found, f) = FinishPreparing(r, f)
  BY DEF ProgramParsed, Good, Player
<1> HIDE DEF r
<1> QED
  BY <1>1, <1>2, FinishPreparingGood DEF Good, AllStopped

(* EVENT_ECM_DATA_PARSED keeps the object good.                            *)
LEMMA EcmDataParsedGood ==
    ASSUME NEW q, Good(q), NEW f
    PROVE  Good(EcmDataParsed(q, f))
<1> DEFINE r == [q EXCEPT !.waiting = q.waiting \ {"ecm"}]
<1>1. /\ r \in Player /\ r.state = q.state /\ r.player = q.player
      /\ r.parser = q.parser /\ r.dec = q.dec
  BY DEF Good, Player
<1>2. EcmDataParsed(q, f) = FinishPreparing(r, f)
  BY DEF EcmDataParsed, Good, Player
<1> HIDE DEF r
<1> QED
  BY <1>1, <1>2, FinishPreparingGood DEF Good, AllStopped

(* A callback that comes when no preparation is under way changes neither  *)
(* the state nor a stream.                                                 *)
LEMMA CallbackOutsidePreparing ==
    ASSUME NEW q, Good(q), q.state # "PREPARING", NEW found, NEW f
    PROVE  /\ ProgramParsed(q, found, f).state = q.state
           /\ ProgramParsed(q, found, f).dec = q.dec
           /\ EcmDataParsed(q, f).state = q.state
           /\ EcmDataParsed(q, f).dec = q.dec
BY DEF ProgramParsed, EcmDataParsed, FinishPreparing, Good, Player

(* The inductive invariant of the specification.  Good(p) is spread over   *)
(* the properties it strengthens; the last conjunct, that a STOPPED object *)
(* has no stream up, is what lets reset_l start.                           *)
IInv ==
    /\ TypeOK
    /\ Sound
    /\ OneClient => IdleMeansStopped /\ WindowIsQuiet
    /\ OneClient /\ p.state = "STOPPED" => AllStopped(p)

(* The window of reset_l, with one client thread. *)
Window == OneClient => WindowIsQuiet

(* The invariant in the shape the steps are proved in.                     *)
LEMMA IInvParts == IInv <=> TypeOK /\ Good(p) /\ Window
BY DEF IInv, TypeOK, Sound, CodecLayerInUse, ParserInUse, PreparingWaits,
       IdleMeansStopped, Window, Good, AllStopped

(* The same of the next state.                                             *)
LEMMA IInvPartsNext == IInv' <=> TypeOK' /\ Good(p)' /\ Window'
BY DEF IInv, TypeOK, Sound, CodecLayerInUse, ParserInUse, PreparingWaits,
       IdleMeansStopped, Window, Good, AllStopped

(* The constructor makes a good object.                                    *)
LEMMA NewPlayerGood == Good(NewPlayer)
<1>1. NewDevice \in Device
  BY NewDeviceType
<1>2. UserWaitingEcmMode \in {"sync", "async"}
  BY SourceAssumption
<1>3. NewPlayer \in Player
  BY <1>1, <1>2
  DEF NewPlayer, Player, State, DecodingState, Waiting, Param, DecodeMode
<1> QED
  BY <1>3 DEF Good, NewPlayer, AllStopped

(* The invariant holds of the object the constructor makes.                *)
THEOREM InitEstablishesIInv == Init => IInv
<1>1. SUFFICES ASSUME Init PROVE TypeOK /\ Good(p) /\ Window
  BY IInvParts
<1>2. Good(p)
  BY <1>1, NewPlayerGood DEF Init
<1>3. TypeOK
  BY <1>1, <1>2 DEF Init, TypeOK, Good, Location, Report
<1>4. Window
  BY <1>1 DEF Init, Window, WindowIsQuiet
<1> QED
  BY <1>2, <1>3, <1>4

(* A call that keeps mLock and leaves a good object.                       *)
LEMMA BecomesKeepsIInv ==
    ASSUME IInv, NEW t \in Client, pc[t] = "out", NEW q, Good(q), Becomes(q)
    PROVE  IInv'
<1>1. TypeOK /\ Window
  BY IInvParts
<1>2. p' = q /\ pc' = pc /\ joining' = joining /\ report' = report
  BY DEF Becomes
<1>3. Good(p)'
  BY <1>2 DEF Good, AllStopped
<1>4. TypeOK'
  BY <1>1, <1>2, <1>3 DEF TypeOK, Good
<1>5. Window'
  BY <1>2 DEF Window, WindowIsQuiet, OneClient
<1> QED
  BY <1>3, <1>4, <1>5, IInvPartsNext

(* A call that ends in resetIfNeeded_l: in one step, or out of mLock.      *)
LEMMA BecomesAndResetsKeepsIInv ==
    ASSUME IInv, NEW t \in Client, pc[t] = "out", NEW q, Good(q),
           NEW k \in {"stop", "mode"}, NEW f, BecomesAndResets(t, q, k, f)
    PROVE  IInv'
<1>1. CASE Becomes(q)
  BY <1>1, BecomesKeepsIInv
<1>2. CASE q.state = "STOPPED" /\ Becomes(AfterClose(q, k, f))
  <2>1. OneClient => AllStopped(q)
    BY <1>2 DEF Good
  <2> QED
    BY <1>2, <2>1, AfterCloseGood, BecomesKeepsIInv
<1>3. CASE q.state = "STOPPED" /\ GivesUpLock(t, q, k)
  <2> DEFINE r == CloseParser(q)
  <2>1. /\ r \in Player /\ r.state = "STOPPED" /\ r.player = q.player
        /\ r.dec = q.dec
    BY <1>3 DEF CloseParser, Good, Player
  <2>2. Good(r) /\ (OneClient => AllStopped(r))
    BY <1>3, <2>1 DEF Good, AllStopped
  <2>3. /\ p' = r
        /\ pc' = [pc EXCEPT ![t] = k]
        /\ joining' \in {joining, joining \cup {t}}
        /\ report' = report
    BY <1>3 DEF GivesUpLock
  <2> HIDE DEF r
  <2>4. Good(p)'
    BY <2>2, <2>3 DEF Good, AllStopped
  <2>5. TypeOK'
    BY <2>3, <2>4 DEF IInv, TypeOK, Good, Location
  <2>6. Window'
    BY <2>1, <2>2, <2>3 DEF Window, WindowIsQuiet, AllStopped
  <2> QED
    BY <2>4, <2>5, <2>6, IInvPartsNext
<1> QED
  BY <1>1, <1>2, <1>3 DEF BecomesAndResets

(* switchDecodeMode_l, restart included.                                   *)
LEMMA SwitchDecodeModeKeepsIInv ==
    ASSUME IInv, NEW t \in Client, pc[t] = "out", NEW q, Good(q), NEW m \in DecodeMode,
           NEW f, SwitchDecodeMode(t, q, m, f)
    PROVE  IInv'
<1> DEFINE r == [q EXCEPT !.mode = m]
<1>1. Good(r) /\ r.state = q.state
  <2>1. /\ r \in Player /\ r.state = q.state /\ r.player = q.player
        /\ r.parser = q.parser /\ r.waiting = q.waiting /\ r.dec = q.dec
    BY DEF Good, Player
  <2> QED
    BY <2>1, SameControl
<1>2. \/ Becomes(r)
      \/ r.state = "RUNNING" /\ BecomesAndResets(t, StopAll(r), "mode", f)
  BY <1>1 DEF SwitchDecodeMode
<1> HIDE DEF r
<1>3. r.state = "RUNNING" => Good(StopAll(r))
  <2>1. SUFFICES ASSUME r.state = "RUNNING" PROVE Good(StopAll(r))
    OBVIOUS
  <2>2. r.player
    BY <1>1, <2>1 DEF Good
  <2> QED
    BY <1>1, <2>2, StopGood
<1> QED
  BY <1>1, <1>2, <1>3, BecomesKeepsIInv, BecomesAndResetsKeepsIInv

(* Every method of the client, and the end of reset_l.                     *)
LEMMA ClientStepKeepsIInv ==
    ASSUME IInv, NEW t \in Client, ClientStep(t)
    PROVE  IInv'
<1>0. Good(p)
  BY IInvParts
<1>1. CASE SetParams(t)
  <2>1. PICK s \in Stream : \E v \in Offered[s] : Becomes([p EXCEPT !.prm[s] = v])
    BY <1>1 DEF SetParams
  <2>2. PICK v \in Offered[s] : Becomes([p EXCEPT !.prm[s] = v])
    BY <2>1
  <2>3. v \in Param
    BY ClientAssumption
  <2>4. Good([p EXCEPT !.prm[s] = v])
    <3> DEFINE r == [p EXCEPT !.prm[s] = v]
    <3>1. /\ r \in Player /\ r.state = p.state /\ r.player = p.player
          /\ r.parser = p.parser /\ r.waiting = p.waiting /\ r.dec = p.dec
      BY <1>0, <2>3 DEF Good, Player
    <3> QED
      BY <1>0, <3>1, SameControl
  <2>5. pc[t] = "out"
    BY <1>1 DEF SetParams, Enter
  <2> QED
    BY <2>2, <2>4, <2>5, BecomesKeepsIInv
<1>2. CASE SetIptvCASParams(t)
  <2>1. Good([p EXCEPT !.casType = TRUE])
    <3> DEFINE r == [p EXCEPT !.casType = TRUE]
    <3>1. /\ r \in Player /\ r.state = p.state /\ r.player = p.player
          /\ r.parser = p.parser /\ r.waiting = p.waiting /\ r.dec = p.dec
      BY <1>0 DEF Good, Player
    <3> QED
      BY <1>0, <3>1, SameControl
  <2> QED
    BY <1>2, <2>1, BecomesKeepsIInv DEF SetIptvCASParams, Enter
<1>3. CASE SetCasSession(t)
  <2>1. Good([p EXCEPT !.cas = TRUE, !.standalone = TRUE])
    <3> DEFINE r == [p EXCEPT !.cas = TRUE, !.standalone = TRUE]
    <3>1. /\ r \in Player /\ r.state = p.state /\ r.player = p.player
          /\ r.parser = p.parser /\ r.waiting = p.waiting /\ r.dec = p.dec
      BY <1>0 DEF Good, Player
    <3> QED
      BY <1>0, <3>1, SameControl
  <2> QED
    BY <1>3, <2>1, BecomesKeepsIInv DEF SetCasSession, Enter
<1>4. CASE DoStart(t)
  BY <1>0, <1>4, StartGood, BecomesKeepsIInv DEF DoStart, Enter
<1>5. CASE DoStartVideo(t)
  BY <1>0, <1>5, StartVideoGood, BecomesKeepsIInv DEF DoStartVideo, Enter
<1>6. CASE DoStartAudio(t)
  BY <1>0, <1>6, StartAudioGood, BecomesKeepsIInv DEF DoStartAudio, Enter
<1>7. CASE DoStartAD(t)
  BY <1>0, <1>7, StartADGood, BecomesKeepsIInv DEF DoStartAD, Enter
<1>8. CASE DoStartSubtitle(t)
  BY <1>0, <1>8, StartSubtitleGood, BecomesKeepsIInv DEF DoStartSubtitle, Enter
<1>9. CASE DoStop(t)
  BY <1>0, <1>9, StopGood, BecomesAndResetsKeepsIInv DEF DoStop, Enter
<1>10. CASE DoStopVideo(t)
  BY <1>0, <1>10, StopGood, BecomesAndResetsKeepsIInv DEF DoStopVideo, Enter
<1>11. CASE DoStopAudio(t)
  BY <1>0, <1>11, StopGood, BecomesAndResetsKeepsIInv DEF DoStopAudio, Enter
<1>12. CASE DoStopAD(t)
  BY <1>0, <1>12, StopGood, BecomesAndResetsKeepsIInv DEF DoStopAD, Enter
<1>13. CASE DoStopSubtitle(t)
  BY <1>0, <1>13, StopGood, BecomesAndResetsKeepsIInv DEF DoStopSubtitle, Enter
<1>14. CASE DoPause(t)
  BY <1>0, <1>14, PauseGood, BecomesKeepsIInv DEF DoPause, Enter
<1>15. CASE DoResume(t)
  BY <1>0, <1>15, ResumeGood, BecomesKeepsIInv DEF DoResume, Enter
<1>16. CASE DoFlush(t)
  BY <1>0, <1>16, FlushGood, BecomesKeepsIInv DEF DoFlush, Enter
<1>17. CASE DoSwitchAudioTrack(t)
  <2>1. PICK f \in Outcomes, v \in Offered["AUDIO"] :
            Becomes(SwitchAudioTrack(p, v, f))
    BY <1>17 DEF DoSwitchAudioTrack, Enter
  <2>2. v \in Param
    BY ClientAssumption DEF Stream
  <2>3. pc[t] = "out"
    BY <1>17 DEF DoSwitchAudioTrack, Enter
  <2> QED
    BY <1>0, <2>1, <2>2, <2>3, SwitchAudioTrackGood, BecomesKeepsIInv
<1>18. CASE DoSwitchSubtitleTrack(t)
  <2>1. PICK f \in Outcomes, v \in Offered["SUBTITLE"] :
            Becomes(SwitchSubtitleTrack(p, v, f))
    BY <1>18 DEF DoSwitchSubtitleTrack, Enter
  <2>2. v \in Param
    BY ClientAssumption DEF Stream
  <2>3. pc[t] = "out"
    BY <1>18 DEF DoSwitchSubtitleTrack, Enter
  <2> QED
    BY <1>0, <2>1, <2>2, <2>3, SwitchSubtitleTrackGood, BecomesKeepsIInv
<1>19. CASE SetDecodeMode(t)
  BY <1>0, <1>19, SwitchDecodeModeKeepsIInv DEF SetDecodeMode, Enter
<1>20. CASE SetPlaybackRate(t)
  <2>1. PICK f \in Outcomes, r \in {"zero", "normal", "fast"} :
            \/ Becomes(Pause(p, f))
            \/ SwitchDecodeMode(t, Resume(p, f), ModeOfRate(r), f)
    BY <1>20 DEF SetPlaybackRate
  <2>2. ModeOfRate(r) \in DecodeMode
    BY DEF ModeOfRate, DecodeMode
  <2>3. pc[t] = "out"
    BY <1>20 DEF SetPlaybackRate, Enter
  <2> QED
    BY <1>0, <2>1, <2>2, <2>3, PauseGood, ResumeGood, BecomesKeepsIInv,
       SwitchDecodeModeKeepsIInv
<1>21. CASE FinishReset(t)
  <2>1. PICK f \in Outcomes : p' = AfterClose(p, pc[t], f)
    BY <1>21 DEF FinishReset
  <2>2. /\ pc[t] # "out"
        /\ pc' = [pc EXCEPT ![t] = "out"]
        /\ joining' = joining \ {t}
        /\ report' = report
    BY <1>21 DEF FinishReset, LeavesReset
  <2>3. OneClient => AllStopped(p)
    BY <2>2 DEF IInv, WindowIsQuiet, AllStopped
  <2>4. Good(AfterClose(p, pc[t], f))
    BY <1>0, <2>3, AfterCloseGood
  <2>5. Good(p)'
    BY <2>1, <2>4 DEF Good, AllStopped
  <2>6. TypeOK'
    BY <2>2, <2>5 DEF IInv, TypeOK, Good, Location
  <2>7. Window'
    BY <2>2 DEF IInv, TypeOK, Window, WindowIsQuiet, OneClient
  <2> QED
    BY <2>5, <2>6, <2>7, IInvPartsNext
<1> QED
  BY <1>1, <1>2, <1>3, <1>4, <1>5, <1>6, <1>7, <1>8, <1>9, <1>10, <1>11,
     <1>12, <1>13, <1>14, <1>15, <1>16, <1>17, <1>18, <1>19, <1>20, <1>21
  DEF ClientStep

(* A callback that does nothing unless the object is PREPARING.            *)
LEMMA CallbackKeepsIInv ==
    ASSUME IInv, NEW q, Good(q), p' = q, report' = "nothing",
           UNCHANGED <<pc, joining>>,
           p.state # "PREPARING" => q.state = p.state /\ q.dec = p.dec
    PROVE  IInv'
<1>1. TypeOK /\ Window
  BY IInvParts
<1>2. Good(p)'
  BY DEF Good, AllStopped
<1>3. TypeOK'
  BY <1>1, <1>2 DEF TypeOK, Good, Report
<1>4. Window'
  BY <1>1 DEF Window, WindowIsQuiet
<1> QED
  BY <1>2, <1>3, <1>4, IInvPartsNext

(* Every step of the parser's thread.                                      *)
LEMMA ParserStepKeepsIInv ==
    ASSUME IInv, ParserStep
    PROVE  IInv'
<1>0. Good(p)
  BY IInvParts
<1>1. ASSUME NEW w \in Waiting, Finds(w) PROVE IInv'
  BY <1>1 DEF Finds, IInv, TypeOK, Report, Sound, CodecLayerInUse,
              ParserInUse, PreparingWaits, IdleMeansStopped, WindowIsQuiet,
              AllStopped
<1>2. CASE OnProgramParsed
  <2>1. PICK f \in Outcomes, found \in SUBSET {"VIDEO", "AUDIO"} :
            p' = ProgramParsed(p, found, f)
    BY <1>2 DEF OnProgramParsed
  <2>2. report' = "nothing" /\ UNCHANGED <<pc, joining>>
    BY <1>2 DEF OnProgramParsed, Delivers
  <2> QED
    BY <1>0, <2>1, <2>2, ProgramParsedGood, CallbackOutsidePreparing,
       CallbackKeepsIInv
<1>3. CASE OnEcmDataParsed
  <2>1. PICK f \in Outcomes : p' = EcmDataParsed(p, f)
    BY <1>3 DEF OnEcmDataParsed
  <2>2. report' = "nothing" /\ UNCHANGED <<pc, joining>>
    BY <1>3 DEF OnEcmDataParsed, Delivers
  <2> QED
    BY <1>0, <2>1, <2>2, EcmDataParsedGood, CallbackOutsidePreparing,
       CallbackKeepsIInv
<1> QED
  BY <1>1, <1>2, <1>3 DEF ParserStep

(* Every step preserves the invariant.                                     *)
THEOREM NextKeepsIInv == IInv /\ [Next]_vars => IInv'
<1>1. SUFFICES ASSUME IInv, [Next]_vars PROVE IInv'
  OBVIOUS
<1>2. CASE UNCHANGED vars
  BY <1>1, <1>2 DEF vars, IInv, TypeOK, Sound, CodecLayerInUse, ParserInUse,
                    PreparingWaits, IdleMeansStopped, WindowIsQuiet, AllStopped
<1>3. CASE Next
  BY <1>1, <1>3, ClientStepKeepsIInv, ParserStepKeepsIInv DEF Next
<1> QED
  BY <1>1, <1>2, <1>3

(* The invariant holds of every reachable state.                           *)
THEOREM InductiveInvariant == Spec => []IInv
  BY InitEstablishesIInv, NextKeepsIInv, PTL DEF Spec

(* Every field of AmlMpPlayerImpl keeps its type: mStreamState its four    *)
(* values per stream, mPrepareWaitingType its two bits.                    *)
THEOREM TypeCorrect == Spec => []TypeOK
<1>1. IInv => TypeOK
  BY DEF IInv
<1> QED
  BY <1>1, InductiveInvariant, PTL

(* Outside IDLE mPlayer is never null, so start_l, startVideoDecoding_l    *)
(* and finishPreparingIfNeeded_l may use it unchecked.                     *)
THEOREM CodecLayerIsThere == Spec => []CodecLayerInUse
<1>1. IInv => CodecLayerInUse
  BY DEF IInv, Sound
<1> QED
  BY <1>1, InductiveInvariant, PTL

(* A parser never outlives its playback: an IDLE object has none that      *)
(* could report to it.                                                     *)
THEOREM ParserGoesWithPlayback == Spec => []ParserInUse
<1>1. IInv => ParserInUse
  BY DEF IInv, Sound
<1> QED
  BY <1>1, InductiveInvariant, PTL

(* A PREPARING object always has a reason to wait and a parser that can    *)
(* end it: no callback takes the last reason and leaves it PREPARING.      *)
THEOREM PreparingIsServed == Spec => []PreparingWaits
<1>1. IInv => PreparingWaits
  BY DEF IInv, Sound
<1> QED
  BY <1>1, InductiveInvariant, PTL

(* With one client thread an IDLE object has no stream up, whatever fails  *)
(* and whatever the parser's thread does.                                  *)
THEOREM IdleIsStopped ==
    ASSUME OneClient
    PROVE  Spec => []IdleMeansStopped
<1>1. IInv => IdleMeansStopped
  BY DEF IInv
<1> QED
  BY <1>1, InductiveInvariant, PTL

(* With one client thread nothing comes back to life while reset_l is out  *)
(* of mLock: a late callback finds nothing to finish.                      *)
THEOREM WindowStaysQuiet ==
    ASSUME OneClient
    PROVE  Spec => []WindowIsQuiet
<1>1. IInv => WindowIsQuiet
  BY DEF IInv
<1> QED
  BY <1>1, InductiveInvariant, PTL

-----------------------------------------------------------------------------
(* The CAS session through the handlers.                                   *)

(* What a handler other than setCasSession and reset_l does to the session *)
(* and to the decode mode: it may bind one, and it forgets none.           *)
HasSession(q) == {"mode", "standalone", "cas", "dec", "prm", "dev"} \subseteq DOMAIN q
KeepsSession(q, r) ==
    /\ HasSession(r)
    /\ r.mode = q.mode /\ r.standalone = q.standalone
    /\ q.cas => r.cas

(* The steps the handlers are made of.                                     *)
LEMMA PartsKeepSession ==
    ASSUME NEW q, HasSession(q)
    PROVE  /\ KeepsSession(q, q)
           /\ \A d : KeepsSession(q, OnDevice(q, d))
           /\ \A S, v : KeepsSession(q, Mark(q, S, v))
           /\ \A s : KeepsSession(q, SetState(q, s))
           /\ \A w : KeepsSession(q, OpenParser(q, w))
           /\ KeepsSession(q, PrepareCas(q))
<1> USE DEF KeepsSession, HasSession
<1>1. \A d : KeepsSession(q, OnDevice(q, d))
  BY DEF OnDevice
<1>2. \A S, v : KeepsSession(q, Mark(q, S, v))
  BY DEF Mark
<1>3. \A s : KeepsSession(q, SetState(q, s))
  BY DEF SetState
<1>4. \A w : KeepsSession(q, OpenParser(q, w))
  BY DEF OpenParser
<1>5. KeepsSession(q, PrepareCas(q))
  BY DEF PrepareCas
<1> QED
  BY <1>1, <1>2, <1>3, <1>4, <1>5

LEMMA ThenKeepsSession ==
    ASSUME NEW q, NEW r, KeepsSession(q, r), NEW s, KeepsSession(r, s)
    PROVE  KeepsSession(q, s)
BY DEF KeepsSession

LEMMA PreparationKeepsSession ==
    ASSUME NEW q, HasSession(q), NEW f
    PROVE  KeepsSession(q, Prepared(q, f)) /\ \A S : KeepsSession(q, Deferred(q, S))
<1> DEFINE c == PrepareCas(q)
           r == IF c.player \/ "create" \in f THEN c
                ELSE [c EXCEPT !.player = TRUE, !.dev = NewDevice]
<1>1. KeepsSession(q, c)
  BY PartsKeepSession
<1> HIDE DEF c
<1>2. KeepsSession(c, r)
  BY <1>1 DEF KeepsSession, HasSession
<1>3. KeepsSession(q, r)
  BY <1>1, <1>2, ThenKeepsSession
<1>4. ASSUME NEW b, HasSession(b) PROVE KeepsSession(b, PrepareWait(b))
  <2> DEFINE w == (IF NeedsCodecId(b) THEN {"codec"} ELSE {})
                      \cup (IF NeedsEcm(b) THEN {"ecm"} ELSE {})
             m == IF MonitorPidChange THEN OpenParser(b, {"codec"}) ELSE b
             o == OpenParser(m, w)
             n == [o EXCEPT !.waiting = m.waiting \cup w]
  <2>1. KeepsSession(b, m)
    BY <1>4, PartsKeepSession
  <2>2. PrepareWait(b) = IF w = {} THEN SetState(m, "PREPARED")
                         ELSE SetState(n, "PREPARING")
    BY DEF PrepareWait, WaitFor
  <2> HIDE DEF m, w
  <2>3. KeepsSession(m, o)
    BY <2>1, PartsKeepSession DEF KeepsSession
  <2> HIDE DEF o
  <2>4. KeepsSession(o, n)
    BY <2>3 DEF KeepsSession, HasSession
  <2>5. KeepsSession(b, n) /\ HasSession(n) /\ HasSession(m)
    BY <2>1, <2>3, <2>4, ThenKeepsSession DEF KeepsSession
  <2> HIDE DEF n
  <2>6. /\ KeepsSession(m, SetState(m, "PREPARED"))
        /\ KeepsSession(n, SetState(n, "PREPARING"))
    BY <2>5, PartsKeepSession
  <2> QED
    BY <2>1, <2>2, <2>5, <2>6, ThenKeepsSession
<1>5. Prepare(q, f) = IF PrepareFails(q, f) THEN r ELSE PrepareWait(r)
  BY DEF Prepare, c
<1> HIDE DEF r
<1>6. KeepsSession(q, Prepare(q, f))
  BY <1>3, <1>4, <1>5, ThenKeepsSession DEF KeepsSession
<1> QED
  BY <1>6, PartsKeepSession DEF Prepared, Deferred

LEMMA ResetCodecKeepsSession ==
    ASSUME NEW q, HasSession(q), NEW b, NEW f
    PROVE  KeepsSession(q, ResetADCodec(q, b, f)) /\ KeepsSession(q, ResetAudioCodec(q, b, f))
BY PartsKeepSession DEF ResetADCodec, ResetAudioCodec

LEMMA NowRunningKeepsSession ==
    ASSUME NEW q, HasSession(q), NEW S
    PROVE  KeepsSession(q, Mark(SetState(q, "RUNNING"), S, "STARTED"))
<1> DEFINE r == SetState(q, "RUNNING")
<1>1. KeepsSession(q, r) /\ HasSession(r)
  BY PartsKeepSession DEF KeepsSession
<1> HIDE DEF r
<1>2. KeepsSession(r, Mark(r, S, "STARTED"))
  BY <1>1, PartsKeepSession
<1>3. KeepsSession(q, Mark(r, S, "STARTED"))
  BY <1>1, <1>2, ThenKeepsSession
<1> QED
  BY <1>3 DEF r

(* How every start ends, after its preparation and on the codec layer.     *)
LEMMA StartKeepsSession ==
    ASSUME NEW q, HasSession(q), NEW a, KeepsSession(q, a), NEW d, NEW S, NEW T
    PROVE  /\ KeepsSession(q, OnDevice(a, d))
           /\ KeepsSession(q, Mark(SetState(OnDevice(a, d), "RUNNING"), S, "STARTED"))
           /\ KeepsSession(q, Deferred(q, T)) /\ KeepsSession(q, q)
<1> DEFINE r == OnDevice(a, d)
<1>1. KeepsSession(a, r) /\ HasSession(r)
  BY PartsKeepSession DEF KeepsSession
<1>2. KeepsSession(q, r)
  BY <1>1, ThenKeepsSession
<1> HIDE DEF r
<1>3. KeepsSession(r, Mark(SetState(r, "RUNNING"), S, "STARTED"))
  BY <1>1, NowRunningKeepsSession
<1>4. KeepsSession(q, Mark(SetState(r, "RUNNING"), S, "STARTED"))
  BY <1>2, <1>3, ThenKeepsSession
<1> QED
  BY <1>2, <1>4, PartsKeepSession, PreparationKeepsSession DEF r

LEMMA StartADKeepsSession ==
    ASSUME NEW q0, HasSession(q0), NEW f
    PROVE  KeepsSession(q0, StartAD(q0, f))
<1> DEFINE q == Prepared(q0, f)
           a == IF q.dec["AUDIO"] = "STARTED" THEN ResetAudioCodec(q, FALSE, f) ELSE q
           d == DevStartAD(DevSetADParams(a.dev, TRUE), f)
           r == OnDevice(a, d)
<1>1. KeepsSession(q0, q) /\ HasSession(q)
  BY PreparationKeepsSession DEF KeepsSession
<1>2. StartAD(q0, f) = IF NotReady(q) THEN Deferred(q, {"AD"})
                       ELSE IF ~HasPid(q, "AD") THEN q
                       ELSE IF "startAD" \in f THEN r
                       ELSE Mark(SetState(r, "RUNNING"), {"AD"}, "STARTED")
  BY DEF StartAD
<1> HIDE DEF q
<1>3. KeepsSession(q, a)
  BY <1>1, PartsKeepSession, ResetCodecKeepsSession
<1> HIDE DEF a, d
<1>4. KeepsSession(q, StartAD(q0, f))
  BY <1>1, <1>2, <1>3, StartKeepsSession
<1> QED
  BY <1>1, <1>4, ThenKeepsSession

LEMMA StartsKeepSession ==
    ASSUME NEW q0, HasSession(q0), NEW f
    PROVE  /\ KeepsSession(q0, StartVideo(q0, f)) /\ KeepsSession(q0, StartAudio(q0, f))
           /\ KeepsSession(q0, StartAD(q0, f)) /\ KeepsSession(q0, StartSubtitle(q0, f))
           /\ KeepsSession(q0, Start(q0, f))
<1> DEFINE q == Prepared(q0, f)
<1>1. KeepsSession(q0, q) /\ HasSession(q)
  BY PreparationKeepsSession DEF KeepsSession
<1>2. KeepsSession(q0, StartVideo(q0, f))
  <2> DEFINE d == IF HasPid(q, "VIDEO")
                  THEN DevSetVideoParams(q.dev, HasCodec(q, "VIDEO")) ELSE q.dev
             r == OnDevice(q, DevStartVideo(d, f))
             S == IF HasPid(q, "VIDEO") THEN {"VIDEO"} ELSE {}
  <2>1. StartVideo(q0, f) = IF NotReady(q) THEN Deferred(q, {"VIDEO"})
                            ELSE IF "startVideo" \in f THEN r
                            ELSE Mark(SetState(r, "RUNNING"), S, "STARTED")
    BY DEF StartVideo
  <2> HIDE DEF q, d, S
  <2>2. KeepsSession(q, StartVideo(q0, f))
    BY <1>1, <2>1, PartsKeepSession, StartKeepsSession
  <2> QED
    BY <1>1, <2>2, ThenKeepsSession
<1>3. KeepsSession(q0, StartAudio(q0, f))
  <2> DEFINE a == IF q.dec["AD"] = "STARTED" THEN ResetADCodec(q, FALSE, f) ELSE q
             d == DevStartAudio(DevSetAudioParams(a.dev, HasCodec(q, "AUDIO")), f)
             r == OnDevice(a, d)
  <2>1. StartAudio(q0, f) = IF NotReady(q) THEN Deferred(q, {"AUDIO"})
                            ELSE IF ~HasPid(q, "AUDIO") THEN q
                            ELSE IF "startAudio" \in f THEN r
                            ELSE Mark(SetState(r, "RUNNING"), {"AUDIO"}, "STARTED")
    BY DEF StartAudio
  <2> HIDE DEF q
  <2>2. KeepsSession(q, a)
    BY <1>1, PartsKeepSession, ResetCodecKeepsSession
  <2> HIDE DEF a, d
  <2>3. KeepsSession(q, StartAudio(q0, f))
    BY <1>1, <2>1, <2>2, StartKeepsSession
  <2> QED
    BY <1>1, <2>3, ThenKeepsSession
<1>4. KeepsSession(q0, StartAD(q0, f))
  BY StartADKeepsSession
<1>5. KeepsSession(q0, StartSubtitle(q0, f))
  <2> DEFINE d == IF HasCodec(q, "SUBTITLE")
                  THEN DevSetSubtitleParams(q.dev, TRUE) ELSE q.dev
             r == OnDevice(q, DevStartSubtitle(d, f))
             S == IF HasCodec(q, "SUBTITLE") THEN {"SUBTITLE"} ELSE {}
  <2>1. StartSubtitle(q0, f) =
            IF ~q0.player \/ q0.dec["SUBTITLE"] = "STARTED" THEN q0
            ELSE IF NotReady(q) THEN Deferred(q, {"SUBTITLE"})
            ELSE IF d.subtitleSet /\ "startSubtitle" \in f THEN r
            ELSE Mark(SetState(r, "RUNNING"), S, "STARTED")
    BY DEF StartSubtitle
  <2> HIDE DEF q, d, S
  <2>2. StartSubtitle(q0, f) = q0 \/ KeepsSession(q, StartSubtitle(q0, f))
    BY <1>1, <2>1, PartsKeepSession, StartKeepsSession
  <2> QED
    BY <1>1, <2>2, ThenKeepsSession, PartsKeepSession
<1>6. KeepsSession(q0, Start(q0, f))
  <2> DEFINE d == ParametersSet(q)
             any == Configured(q) # {}
             e == IF any THEN DevStart(d, f) ELSE d
             r == OnDevice(q, e)
             u == Mark(SetState(r, "RUNNING"), Configured(q), "STARTED")
  <2>1. Start(q0, f) = IF NotReady(q) THEN Deferred(q, Stream)
                       ELSE IF any /\ DevStartFails(d, f) THEN r ELSE StartAD(u, f)
    BY DEF Start
  <2> HIDE DEF q, d, any, e
  <2>2. /\ KeepsSession(q, r) /\ KeepsSession(q, u)
        /\ KeepsSession(q, Deferred(q, Stream))
    BY <1>1, PartsKeepSession, StartKeepsSession
  <2> HIDE DEF r, u
  <2>3. KeepsSession(u, StartAD(u, f))
    BY <2>2, StartADKeepsSession DEF KeepsSession
  <2>4. KeepsSession(q, StartAD(u, f))
    BY <2>2, <2>3, ThenKeepsSession
  <2> QED
    BY <1>1, <2>1, <2>2, <2>4, ThenKeepsSession
<1> QED
  BY <1>2, <1>3, <1>4, <1>5, <1>6

LEMMA PausesKeepSession ==
    ASSUME NEW q, HasSession(q), NEW f
    PROVE  KeepsSession(q, Pause(q, f)) /\ KeepsSession(q, Flush(q, f))
<1>1. KeepsSession(q, Pause(q, f))
  <2> DEFINE r == OnDevice(q, DevPause(q.dev, f))
             u == SetState(r, "PAUSED")
             S == InState(r, Stream, "STARTED")
  <2>1. Pause(q, f) = IF q.state # "RUNNING" \/ ~q.player THEN q
                      ELSE IF DevPauseFails(q.dev, f) THEN r ELSE Mark(u, S, "PAUSED")
    BY DEF Pause
  <2> HIDE DEF S
  <2>2. KeepsSession(q, r) /\ HasSession(r)
    BY PartsKeepSession DEF KeepsSession
  <2> HIDE DEF r
  <2>3. KeepsSession(r, u) /\ HasSession(u)
    BY <2>2, PartsKeepSession DEF KeepsSession
  <2> HIDE DEF u
  <2>4. KeepsSession(u, Mark(u, S, "PAUSED"))
    BY <2>3, PartsKeepSession
  <2> QED
    BY <2>1, <2>2, <2>3, <2>4, PartsKeepSession, ThenKeepsSession
<1>2. KeepsSession(q, Flush(q, f))
  <2> DEFINE r == OnDevice(q, Refreshed(q))
             d == DevStart(r.dev, f)
             e == IF r.state = "PAUSED" THEN DevPause(d, f) ELSE d
             o == OpenParser(r, {"ecm"})
             w == [o EXCEPT !.waiting = r.waiting \cup {"ecm"}]
             u == SetState(w, "PREPARING")
  <2>1. Flush(q, f) = IF q.state \notin {"RUNNING", "PAUSED"} \/ ~q.player THEN q
                      ELSE IF NeedsEcm(r) THEN Mark(u, Stream, "START_PENDING")
                      ELSE OnDevice(r, e)
    BY DEF Flush, WaitFor
  <2> HIDE DEF e
  <2>2. KeepsSession(q, r) /\ HasSession(r)
    BY PartsKeepSession DEF KeepsSession
  <2> HIDE DEF r
  <2>3. KeepsSession(r, o) /\ HasSession(o) /\ KeepsSession(r, OnDevice(r, e))
    BY <2>2, PartsKeepSession DEF KeepsSession
  <2> HIDE DEF o
  <2>4. KeepsSession(o, w) /\ HasSession(w)
    BY <2>3 DEF KeepsSession, HasSession
  <2> HIDE DEF w
  <2>5. KeepsSession(w, u) /\ HasSession(u)
    BY <2>4, PartsKeepSession DEF KeepsSession
  <2> HIDE DEF u
  <2>6. KeepsSession(u, Mark(u, Stream, "START_PENDING"))
    BY <2>5, PartsKeepSession
  <2>7. KeepsSession(q, Mark(u, Stream, "START_PENDING"))
    BY <2>2, <2>3, <2>4, <2>5, <2>6 DEF KeepsSession
  <2>8. KeepsSession(q, OnDevice(r, e))
    BY <2>2, <2>3, ThenKeepsSession
  <2> QED
    BY <2>1, <2>7, <2>8, PartsKeepSession
<1> QED
  BY <1>1, <1>2

LEMMA ResumeKeepsSession ==
    ASSUME NEW q, HasSession(q), NEW f
    PROVE  KeepsSession(q, Resume(q, f))
<1> DEFINE v == ResumeVideo(q, f)
           a == ResumeAudio(v, f)
           S == InState(a, {"AD", "SUBTITLE"}, "PAUSED")
           r == Mark(a, S, "STARTED")
<1>0. ASSUME NEW b, HasSession(b), NEW d, NEW T, NEW w
      PROVE  KeepsSession(b, Mark(OnDevice(b, d), T, w))
  <2> DEFINE o == OnDevice(b, d)
  <2>1. KeepsSession(b, o) /\ HasSession(o)
    BY <1>0, PartsKeepSession DEF KeepsSession
  <2> HIDE DEF o
  <2>2. KeepsSession(o, Mark(o, T, w))
    BY <2>1, PartsKeepSession
  <2>3. KeepsSession(b, Mark(o, T, w))
    BY <2>1, <2>2, ThenKeepsSession
  <2> QED
    BY <2>3 DEF o
<1>1. KeepsSession(q, v) /\ HasSession(v)
  BY <1>0, PartsKeepSession DEF ResumeVideo, KeepsSession
<1>2. Resume(q, f) = IF q.state # "PAUSED" \/ ~q.player THEN q
                     ELSE IF ResumeFails(q, f) THEN r ELSE SetState(r, "RUNNING")
  BY DEF Resume
<1> HIDE DEF v
<1>3. KeepsSession(v, a) /\ HasSession(a)
  BY <1>0, <1>1, PartsKeepSession, StartsKeepSession DEF ResumeAudio, KeepsSession
<1> HIDE DEF a, S
<1>4. KeepsSession(a, r) /\ HasSession(r)
  BY <1>3, PartsKeepSession DEF KeepsSession
<1> HIDE DEF r
<1>5. KeepsSession(r, SetState(r, "RUNNING"))
  BY <1>4, PartsKeepSession
<1>6. KeepsSession(q, r) /\ KeepsSession(q, SetState(r, "RUNNING"))
  BY <1>1, <1>3, <1>4, <1>5 DEF KeepsSession
<1> QED
  BY <1>2, <1>6, PartsKeepSession

(* How every stop reaches resetIfNeeded_l.                                 *)
LEMMA StoppedKeepsSession ==
    ASSUME NEW q, HasSession(q), NEW S
    PROVE  KeepsSession(q, StopIfIdle(q)) /\ KeepsSession(q, StopIfIdle(Mark(q, S, "STOPPED")))
<1>1. ASSUME NEW b, HasSession(b) PROVE KeepsSession(b, StopIfIdle(b))
  BY <1>1, PartsKeepSession DEF StopIfIdle
<1> DEFINE m == Mark(q, S, "STOPPED")
<1>2. KeepsSession(q, m) /\ HasSession(m)
  BY PartsKeepSession DEF KeepsSession
<1> HIDE DEF m
<1>3. KeepsSession(q, StopIfIdle(m))
  BY <1>1, <1>2, ThenKeepsSession
<1> QED
  BY <1>1, <1>3 DEF m

LEMMA StopsKeepSession ==
    ASSUME NEW q, HasSession(q), NEW f
    PROVE  /\ KeepsSession(q, StopAll(q)) /\ KeepsSession(q, StopVideo(q))
           /\ KeepsSession(q, StopAudio(q, f)) /\ KeepsSession(q, StopAD(q, f))
           /\ KeepsSession(q, StopSubtitle(q))
<1>1. ASSUME NEW d, NEW S
      PROVE  KeepsSession(q, StopIfIdle(Mark(IF Active(q) THEN OnDevice(q, d) ELSE q,
                                             S, "STOPPED")))
  <2> DEFINE r == IF Active(q) THEN OnDevice(q, d) ELSE q
  <2>1. KeepsSession(q, r) /\ HasSession(r)
    BY PartsKeepSession DEF KeepsSession
  <2> HIDE DEF r
  <2>2. KeepsSession(r, StopIfIdle(Mark(r, S, "STOPPED")))
    BY <2>1, StoppedKeepsSession
  <2>3. KeepsSession(q, StopIfIdle(Mark(r, S, "STOPPED")))
    BY <2>1, <2>2, ThenKeepsSession
  <2> QED
    BY <2>3 DEF r
<1>2. /\ KeepsSession(q, StopAll(q)) /\ KeepsSession(q, StopVideo(q))
      /\ KeepsSession(q, StopSubtitle(q))
  BY <1>1 DEF StopAll, StopVideo, StopSubtitle
<1>3. ASSUME NEW d
      PROVE  /\ KeepsSession(q, ResetADCodec(OnDevice(q, d), TRUE, f))
             /\ KeepsSession(q, ResetAudioCodec(OnDevice(q, d), TRUE, f))
             /\ KeepsSession(q, OnDevice(q, d)) /\ KeepsSession(q, q)
  <2> DEFINE o == OnDevice(q, d)
  <2>1. KeepsSession(q, o) /\ HasSession(o)
    BY PartsKeepSession DEF KeepsSession
  <2> HIDE DEF o
  <2>2. /\ KeepsSession(q, ResetADCodec(o, TRUE, f))
        /\ KeepsSession(q, ResetAudioCodec(o, TRUE, f))
    BY <2>1, ResetCodecKeepsSession, ThenKeepsSession
  <2> QED
    BY <2>1, <2>2, PartsKeepSession DEF o
<1>4. KeepsSession(q, StopAudio(q, f))
  <2> DEFINE d == DevSetAudioParams(DevStopAudio(q.dev), FALSE)
             r == IF ~Active(q) THEN q
                  ELSE IF q.dec["AD"] = "STARTED"
                  THEN ResetADCodec(OnDevice(q, d), TRUE, f)
                  ELSE OnDevice(q, d)
             m == Mark(r, {"AUDIO"}, "STOPPED")
             n == [m EXCEPT !.switching = FALSE]
  <2>1. StopAudio(q, f) = StopIfIdle(n)
    BY DEF StopAudio
  <2> HIDE DEF d
  <2>2. KeepsSession(q, r) /\ HasSession(r)
    BY <1>3 DEF KeepsSession
  <2> HIDE DEF r
  <2>3. KeepsSession(r, m) /\ HasSession(m)
    BY <2>2, PartsKeepSession DEF KeepsSession
  <2> HIDE DEF m
  <2>4. KeepsSession(m, n) /\ HasSession(n)
    BY <2>3 DEF KeepsSession, HasSession
  <2> HIDE DEF n
  <2>5. KeepsSession(n, StopIfIdle(n))
    BY <2>4, StoppedKeepsSession
  <2> QED
    BY <2>1, <2>2, <2>3, <2>4, <2>5 DEF KeepsSession
<1>5. KeepsSession(q, StopAD(q, f))
  <2> DEFINE d == DevSetADParams(DevStopAD(q.dev), FALSE)
             r == IF ~Active(q) THEN q
                  ELSE IF q.dec["AUDIO"] = "STARTED"
                  THEN ResetAudioCodec(OnDevice(q, d), TRUE, f)
                  ELSE OnDevice(q, d)
  <2>1. StopAD(q, f) = StopIfIdle(Mark(r, {"AD"}, "STOPPED"))
    BY DEF StopAD
  <2> HIDE DEF d
  <2>2. KeepsSession(q, r) /\ HasSession(r)
    BY <1>3 DEF KeepsSession
  <2> HIDE DEF r
  <2>3. KeepsSession(r, StopIfIdle(Mark(r, {"AD"}, "STOPPED")))
    BY <2>2, StoppedKeepsSession
  <2> QED
    BY <2>1, <2>2, <2>3, ThenKeepsSession
<1> QED
  BY <1>2, <1>4, <1>5

LEMMA SwitchesKeepSession ==
    ASSUME NEW q0 \in Player, NEW v, NEW f
    PROVE  /\ KeepsSession(q0, SwitchAudioTrack(q0, v, f))
           /\ KeepsSession(q0, SwitchSubtitleTrack(q0, v, f))
<1>1. KeepsSession(q0, SwitchAudioTrack(q0, v, f))
  <2> DEFINE q == [q0 EXCEPT !.prm["AUDIO"] = v]
             o == OnDevice(q, DevStopAudio(q.dev))
             r == Mark(o, {"AUDIO"}, "STOPPED")
             n == [r EXCEPT !.switching = TRUE]
  <2>1. SwitchAudioTrack(q0, v, f) = IF ~Active(q) \/ ~q.player THEN q
                                     ELSE IF q.state = "RUNNING" THEN StartAudio(r, f)
                                     ELSE n
    BY DEF SwitchAudioTrack
  <2>2. KeepsSession(q0, q) /\ HasSession(q)
    BY DEF KeepsSession, HasSession, Player
  <2> HIDE DEF q
  <2>3. KeepsSession(q, o) /\ HasSession(o)
    BY <2>2, PartsKeepSession DEF KeepsSession
  <2> HIDE DEF o
  <2>4. KeepsSession(o, r) /\ HasSession(r)
    BY <2>3, PartsKeepSession DEF KeepsSession
  <2> HIDE DEF r
  <2>5. KeepsSession(r, n) /\ KeepsSession(r, StartAudio(r, f))
    BY <2>4, StartsKeepSession DEF KeepsSession, HasSession
  <2>6. KeepsSession(q0, n) /\ KeepsSession(q0, StartAudio(r, f))
    BY <2>2, <2>3, <2>4, <2>5 DEF KeepsSession
  <2> QED
    BY <2>1, <2>2, <2>6
<1>2. KeepsSession(q0, SwitchSubtitleTrack(q0, v, f))
  <2> DEFINE q == [q0 EXCEPT !.prm["SUBTITLE"] = v]
             r == OnDevice(q, DevSwitchSubtitle(q.dev, v = "full", f))
             S == IF v = "full" THEN {"SUBTITLE"} ELSE {}
  <2>1. SwitchSubtitleTrack(q0, v, f) = IF ~Active(q) \/ ~q.player THEN q
                                        ELSE Mark(r, S, "STARTED")
    BY DEF SwitchSubtitleTrack
  <2>2. KeepsSession(q0, q) /\ HasSession(q)
    BY DEF KeepsSession, HasSession, Player
  <2> HIDE DEF q, S
  <2>3. KeepsSession(q, r) /\ HasSession(r)
    BY <2>2, PartsKeepSession DEF KeepsSession
  <2> HIDE DEF r
  <2>4. KeepsSession(r, Mark(r, S, "STARTED"))
    BY <2>3, PartsKeepSession
  <2>5. KeepsSession(q0, Mark(r, S, "STARTED"))
    BY <2>2, <2>3, <2>4 DEF KeepsSession
  <2> QED
    BY <2>1, <2>2, <2>5
<1> QED
  BY <1>1, <1>2

LEMMA FinishKeepsSession ==
    ASSUME NEW q, HasSession(q), NEW f
    PROVE  KeepsSession(q, FinishPreparing(q, f))
<1> DEFINE u == SetState(q, "PREPARED")
           v == StartPending(u, "VIDEO", StartVideo(u, f))
           a == StartPending(v, "AUDIO", StartAudio(v, f))
           s == StartPending(a, "SUBTITLE", StartSubtitle(a, f))
           d == StartPending(s, "AD", StartAD(s, f))
<1>1. FinishPreparing(q, f) = IF q.state # "PREPARING" \/ q.waiting # {} THEN q
                              ELSE IF q.last = "PAUSED" THEN Pause(d, f) ELSE d
  BY DEF FinishPreparing
<1>2. KeepsSession(q, u) /\ HasSession(u)
  BY PartsKeepSession DEF KeepsSession
<1> HIDE DEF u
<1>3. KeepsSession(u, v) /\ HasSession(v)
  BY <1>2, PartsKeepSession, StartsKeepSession DEF StartPending, KeepsSession
<1> HIDE DEF v
<1>4. KeepsSession(v, a) /\ HasSession(a)
  BY <1>3, PartsKeepSession, StartsKeepSession DEF StartPending, KeepsSession
<1> HIDE DEF a
<1>5. KeepsSession(a, s) /\ HasSession(s)
  BY <1>4, PartsKeepSession, StartsKeepSession DEF StartPending, KeepsSession
<1> HIDE DEF s
<1>6. KeepsSession(s, d) /\ HasSession(d)
  BY <1>5, PartsKeepSession, StartsKeepSession DEF StartPending, KeepsSession
<1> HIDE DEF d
<1>7. KeepsSession(d, Pause(d, f))
  BY <1>6, PausesKeepSession
<1>8. KeepsSession(q, d) /\ KeepsSession(q, Pause(d, f))
  BY <1>2, <1>3, <1>4, <1>5, <1>6, <1>7 DEF KeepsSession
<1> QED
  BY <1>1, <1>8, PartsKeepSession

LEMMA CallbacksKeepSession ==
    ASSUME NEW q \in Player, NEW found, NEW f
    PROVE  KeepsSession(q, ProgramParsed(q, found, f)) /\ KeepsSession(q, EcmDataParsed(q, f))
<1>1. KeepsSession(q, ProgramParsed(q, found, f))
  <2> DEFINE learnt(s) == s \in found /\ q.prm[s] = "nocodec"
             r == [q EXCEPT !.prm = [s \in Stream |->
                                         IF learnt(s) THEN "full" ELSE q.prm[s]],
                            !.waiting = @ \ {"codec"}]
  <2>1. KeepsSession(q, r) /\ HasSession(r)
    BY DEF KeepsSession, HasSession, Player
  <2>2. ProgramParsed(q, found, f) = FinishPreparing(r, f)
    BY DEF ProgramParsed
  <2> HIDE DEF r
  <2> QED
    BY <2>1, <2>2, FinishKeepsSession, ThenKeepsSession
<1>2. KeepsSession(q, EcmDataParsed(q, f))
  <2> DEFINE r == [q EXCEPT !.waiting = @ \ {"ecm"}]
  <2>1. KeepsSession(q, r) /\ HasSession(r)
    BY DEF KeepsSession, HasSession, Player
  <2>2. EcmDataParsed(q, f) = FinishPreparing(r, f)
    BY DEF EcmDataParsed
  <2> HIDE DEF r
  <2> QED
    BY <2>1, <2>2, FinishKeepsSession, ThenKeepsSession
<1> QED
  BY <1>1, <1>2

(* A session that the client has set is bound. *)
Bound(q) == q.standalone => q.cas

(* A step keeps the session, or it is the end of the playback: reset_l with *)
(* clearCasSession, which no thread in a mode switch is inside of.          *)
SessionKept == Bound(p') /\ (p.standalone => p'.standalone)
SessionGone ==
    ~p'.standalone /\ p'.mode = p.mode /\ \A t \in Client : pc[t] # "mode"

LEMMA KeptSession ==
    ASSUME NEW q, KeepsSession(p, q), Bound(p), p' = q
    PROVE  SessionKept
BY DEF KeepsSession, Bound, SessionKept

(* reset_l of a mode switch leaves the session, and the start that follows. *)
LEMMA ModeSwitchKeepsSession ==
    ASSUME NEW q, HasSession(q), Bound(q), NEW f
    PROVE  LET r == AfterClose(q, "mode", f) IN (r.standalone <=> q.standalone) /\ Bound(r)
<1> DEFINE b == [q EXCEPT
                    !.parser = "none", !.asked = {},
                    !.player = FALSE, !.dev = NewDevice,
                    !.cas = q.cas /\ q.standalone /\ ~FALSE,
                    !.standalone = q.standalone /\ ~FALSE,
                    !.switching = FALSE]
           d == ResetDone(q, FALSE)
<1>1. HasSession(b) /\ (b.standalone <=> q.standalone) /\ (b.standalone => b.cas)
  BY DEF HasSession, Bound
<1>2. d = SetState(b, "IDLE")
  BY DEF ResetDone
<1> HIDE DEF b
<1>3. KeepsSession(b, d) /\ HasSession(d)
  <2>1. KeepsSession(b, SetState(b, "IDLE"))
    BY <1>1, PartsKeepSession
  <2> QED
    BY <1>2, <2>1 DEF KeepsSession
<1> HIDE DEF d
<1>4. KeepsSession(d, Restart(d, f))
  BY <1>3, StartsKeepSession DEF Restart
<1>5. AfterClose(q, "mode", f) = Restart(d, f)
  BY DEF AfterClose, d
<1> QED
  BY <1>1, <1>3, <1>4, <1>5 DEF KeepsSession, Bound

LEMMA StopEndsSession ==
    ASSUME NEW q, HasSession(q)
    PROVE  ~ResetDone(q, TRUE).standalone /\ ResetDone(q, TRUE).mode = q.mode
<1> DEFINE b == [q EXCEPT
                    !.parser = "none", !.asked = {},
                    !.player = FALSE, !.dev = NewDevice,
                    !.cas = q.cas /\ q.standalone /\ ~TRUE,
                    !.standalone = q.standalone /\ ~TRUE,
                    !.switching = FALSE]
<1>1. HasSession(b) /\ ~b.standalone /\ b.mode = q.mode
  BY DEF HasSession
<1>2. ResetDone(q, TRUE) = SetState(b, "IDLE")
  BY DEF ResetDone
<1> HIDE DEF b
<1>3. KeepsSession(b, SetState(b, "IDLE"))
  BY <1>1, PartsKeepSession
<1> QED
  BY <1>1, <1>2, <1>3 DEF KeepsSession

LEMMA StopResetsSession ==
    ASSUME NEW t \in Client, NEW q, KeepsSession(p, q), Bound(p), NEW f,
           BecomesAndResets(t, q, "stop", f), \A u \in Client : pc[u] # "mode"
    PROVE  SessionKept \/ SessionGone
<1>1. HasSession(q) /\ Bound(q) /\ q.mode = p.mode
  BY DEF KeepsSession, Bound
<1>2. CASE p' = q
  BY <1>2, KeptSession
<1>3. CASE p' = AfterClose(q, "stop", f)
  BY <1>1, <1>3, StopEndsSession DEF AfterClose, SessionGone
<1>4. CASE p' = CloseParser(q)
  BY <1>1, <1>4 DEF CloseParser, KeepsSession, HasSession, Bound, SessionKept
<1> QED
  BY <1>2, <1>3, <1>4 DEF BecomesAndResets, Becomes, GivesUpLock

LEMMA SessionStep ==
    ASSUME OneClient, TypeOK, Bound(p), Next
    PROVE  SessionKept \/ SessionGone
<1>1. p \in Player /\ HasSession(p) /\ KeepsSession(p, p)
  BY DEF TypeOK, HasSession, KeepsSession, Player
<1>2. ASSUME NEW t \in Client, pc[t] = "out" PROVE \A u \in Client : pc[u] # "mode"
  BY <1>2 DEF OneClient
<1>3. ASSUME NEW t \in Client, NEW q, NEW m, NEW f, KeepsSession(p, q),
             SwitchDecodeMode(t, q, m, f)
      PROVE  SessionKept
  <2> DEFINE r == [q EXCEPT !.mode = m]
  <2>1. HasSession(r) /\ r.standalone = p.standalone /\ (p.cas => r.cas)
    BY <1>3 DEF KeepsSession, HasSession
  <2>2. Becomes(r) \/ BecomesAndResets(t, StopAll(r), "mode", f)
    BY <1>3 DEF SwitchDecodeMode
  <2> HIDE DEF r
  <2>3. CASE Becomes(r)
    BY <2>1, <2>3 DEF Becomes, SessionKept, Bound
  <2>4. CASE BecomesAndResets(t, StopAll(r), "mode", f)
    <3> DEFINE s == StopAll(r)
    <3>1. /\ HasSession(s) /\ s.standalone = p.standalone /\ (p.cas => s.cas)
      BY <2>1, StopsKeepSession DEF KeepsSession
    <3>2. BecomesAndResets(t, s, "mode", f)
      BY <2>4
    <3> HIDE DEF s
    <3>3. CASE p' = s
      BY <3>1, <3>3 DEF SessionKept, Bound
    <3>4. CASE p' = AfterClose(s, "mode", f)
      BY <3>1, <3>4, ModeSwitchKeepsSession DEF SessionKept, Bound
    <3>5. CASE p' = CloseParser(s)
      BY <3>1, <3>5 DEF CloseParser, HasSession, SessionKept, Bound
    <3> QED
      BY <3>2, <3>3, <3>4, <3>5 DEF BecomesAndResets, Becomes, GivesUpLock
  <2> QED
    BY <2>2, <2>3, <2>4
<1>4. ASSUME NEW t \in Client, ClientStep(t) PROVE SessionKept \/ SessionGone
  <2>1. CASE SetParams(t)
    <3>1. PICK s \in Stream : \E v \in Offered[s] : p' = [p EXCEPT !.prm[s] = v]
      BY <2>1 DEF SetParams, Becomes
    <3>2. PICK v \in Offered[s] : p' = [p EXCEPT !.prm[s] = v]
      BY <3>1
    <3> QED
      BY <1>1, <3>2 DEF Player, SessionKept, Bound
  <2>2. CASE SetIptvCASParams(t)
    BY <1>1, <2>2 DEF SetIptvCASParams, Becomes, Player, SessionKept, Bound
  <2>3. CASE SetCasSession(t)
    BY <1>1, <2>3 DEF SetCasSession, Becomes, Player, SessionKept, Bound
  <2>4. CASE \E f \in Outcomes :
                \/ Becomes(Start(p, f)) \/ Becomes(StartVideo(p, f))
                \/ Becomes(StartAudio(p, f)) \/ Becomes(StartAD(p, f))
                \/ Becomes(StartSubtitle(p, f)) \/ Becomes(Pause(p, f))
                \/ Becomes(Resume(p, f)) \/ Becomes(Flush(p, f))
    BY <1>1, <2>4, StartsKeepSession, PausesKeepSession, ResumeKeepsSession, KeptSession
    DEF Becomes
  <2>5. CASE \E f \in Outcomes \cup {{}} :
                /\ pc[t] = "out"
                /\ \/ BecomesAndResets(t, StopAll(p), "stop", f)
                   \/ BecomesAndResets(t, StopVideo(p), "stop", f)
                   \/ BecomesAndResets(t, StopAudio(p, f), "stop", f)
                   \/ BecomesAndResets(t, StopAD(p, f), "stop", f)
                   \/ BecomesAndResets(t, StopSubtitle(p), "stop", f)
    <3>1. PICK f \in Outcomes \cup {{}} :
              /\ pc[t] = "out"
              /\ \/ BecomesAndResets(t, StopAll(p), "stop", f)
                 \/ BecomesAndResets(t, StopVideo(p), "stop", f)
                 \/ BecomesAndResets(t, StopAudio(p, f), "stop", f)
                 \/ BecomesAndResets(t, StopAD(p, f), "stop", f)
                 \/ BecomesAndResets(t, StopSubtitle(p), "stop", f)
      BY <2>5
    <3>2. \A u \in Client : pc[u] # "mode"
      BY <1>2, <3>1
    <3> QED
      BY <1>1, <3>1, <3>2, StopsKeepSession, StopResetsSession
  <2>6. CASE DoSwitchAudioTrack(t) \/ DoSwitchSubtitleTrack(t)
    BY <1>1, <2>6, SwitchesKeepSession, KeptSession
    DEF DoSwitchAudioTrack, DoSwitchSubtitleTrack, Becomes
  <2>7. CASE SetDecodeMode(t)
    BY <1>1, <1>3, <2>7 DEF SetDecodeMode
  <2>8. CASE SetPlaybackRate(t)
    <3>1. PICK f \in Outcomes, r \in {"zero", "normal", "fast"} :
              \/ Becomes(Pause(p, f))
              \/ SwitchDecodeMode(t, Resume(p, f), ModeOfRate(r), f)
      BY <2>8 DEF SetPlaybackRate
    <3> QED
      BY <1>1, <1>3, <3>1, PausesKeepSession, ResumeKeepsSession, KeptSession DEF Becomes
  <2>9. CASE FinishReset(t)
    <3>1. PICK f \in Outcomes : p' = AfterClose(p, pc[t], f)
      BY <2>9 DEF FinishReset
    <3>2. CASE pc[t] = "stop"
      BY <1>1, <3>1, <3>2, StopEndsSession DEF AfterClose, SessionGone, OneClient
    <3>3. CASE pc[t] = "mode"
      BY <1>1, <3>1, <3>3, ModeSwitchKeepsSession DEF SessionKept
    <3> QED
      BY <2>9, <3>2, <3>3 DEF FinishReset, LeavesReset, TypeOK, Location
  <2> QED
    BY <1>4, <2>1, <2>2, <2>3, <2>4, <2>5, <2>6, <2>7, <2>8, <2>9
    DEF ClientStep, DoStart, DoStartVideo, DoStartAudio, DoStartAD, DoStartSubtitle,
        DoStop, DoStopVideo, DoStopAudio, DoStopAD, DoStopSubtitle, DoPause, DoResume,
        DoFlush, Enter
<1>5. ASSUME ParserStep PROVE SessionKept
  <2>1. ASSUME NEW w, Finds(w) PROVE SessionKept
    BY <2>1 DEF Finds, SessionKept, Bound
  <2> QED
    BY <1>1, <1>5, <2>1, CallbacksKeepSession, KeptSession
    DEF ParserStep, OnProgramParsed, OnEcmDataParsed
<1> QED
  BY <1>4, <1>5 DEF Next

(* With one client thread the session that setCasSession has brought is     *)
(* there after every step of a mode switch, through its reset_l too ("Not   *)
(* clear cas session while switch decode mode"), whatever fails meanwhile.  *)
THEOREM SessionSurvives ==
    ASSUME OneClient
    PROVE  Spec => SessionSurvivesModeSwitch
<1> DEFINE Survives == \A t \in Client :
               (pc[t] = "mode" \/ p'.mode # p.mode) /\ p.standalone
                   => p'.standalone /\ p'.cas
<1>1. Init => Bound(p)
  BY DEF Init, NewPlayer, Bound
<1>2. ASSUME IInv, Bound(p), [Next]_vars
      PROVE  Bound(p)' /\ [Survives]_vars
  <2>1. CASE Next
    <3>1. SessionKept \/ SessionGone
      BY <1>2, <2>1, SessionStep DEF IInv
    <3>2. Survives
      BY <3>1 DEF SessionKept, SessionGone, Bound
    <3>3. Bound(p')
      BY <3>1 DEF SessionKept, SessionGone, Bound
    <3> QED
      BY <3>2, <3>3 DEF Bound
  <2>2. CASE UNCHANGED vars
    BY <1>2, <2>2 DEF vars, Bound
  <2> QED
    BY <1>2, <2>1, <2>2
<1>3. SessionSurvivesModeSwitch <=> [][Survives]_vars
  BY DEF SessionSurvivesModeSwitch
<1> HIDE DEF Survives
<1>4. Spec => [][Survives]_vars
  BY <1>1, <1>2, InductiveInvariant, PTL DEF Spec
<1> QED
  BY <1>3, <1>4, PTL

-----------------------------------------------------------------------------
(* A preparation that a flush of a paused player has begun.                *)

(* No call into the codec layer fails. *)
NoFailure == Outcomes \subseteq {{}}

(* The handlers of the client leave the preparation alone or stop it.      *)
LEMMA PreparingIsLeftAlone ==
    ASSUME NEW q \in Player, q.state = "PREPARING", NEW f
    PROVE  /\ StartVideo(q, f).state = "PREPARING" /\ StartAudio(q, f).state = "PREPARING"
           /\ StartAD(q, f).state = "PREPARING" /\ StartSubtitle(q, f).state = "PREPARING"
           /\ Start(q, f).state = "PREPARING"
           /\ Pause(q, f) = q /\ Resume(q, f) = q /\ Flush(q, f) = q
           /\ \A v : SwitchAudioTrack(q, v, f).state = "PREPARING"
           /\ \A v : SwitchSubtitleTrack(q, v, f).state = "PREPARING"
<1>1. \A S : Mark(q, S, "START_PENDING").state = "PREPARING"
  BY DEF Mark, Player
<1>2. NotReady(q) /\ Prepared(q, f) = q /\ \A S : Deferred(q, S).state = "PREPARING"
  BY <1>1 DEF NotReady, Prepared, Deferred
<1>3. /\ StartVideo(q, f).state = "PREPARING" /\ StartAudio(q, f).state = "PREPARING"
      /\ StartAD(q, f).state = "PREPARING" /\ Start(q, f).state = "PREPARING"
  BY <1>2 DEF StartVideo, StartAudio, StartAD, Start
<1>4. StartSubtitle(q, f).state = "PREPARING"
  BY <1>2 DEF StartSubtitle
<1>5. Pause(q, f) = q /\ Resume(q, f) = q /\ Flush(q, f) = q
  BY DEF Pause, Resume, Flush
<1>6. ASSUME NEW v
      PROVE  /\ SwitchAudioTrack(q, v, f).state = "PREPARING"
             /\ SwitchSubtitleTrack(q, v, f).state = "PREPARING"
  <2>1. /\ [q EXCEPT !.prm["AUDIO"] = v].state = "PREPARING"
        /\ [q EXCEPT !.prm["SUBTITLE"] = v].state = "PREPARING"
    BY DEF Player
  <2> QED
    BY <2>1 DEF SwitchAudioTrack, SwitchSubtitleTrack, Active
<1> QED
  BY <1>3, <1>4, <1>5, <1>6

LEMMA StopsOfPreparing ==
    ASSUME NEW q \in Player, q.state = "PREPARING", NEW f
    PROVE  /\ StopAll(q).state # "RUNNING" /\ StopAll(q) \in Player
           /\ StopVideo(q).state # "RUNNING" /\ StopVideo(q) \in Player
           /\ StopAudio(q, f).state # "RUNNING" /\ StopAudio(q, f) \in Player
           /\ StopAD(q, f).state # "RUNNING" /\ StopAD(q, f) \in Player
           /\ StopSubtitle(q).state # "RUNNING" /\ StopSubtitle(q) \in Player
<1>1. ASSUME NEW b \in Player, b.state = "PREPARING"
      PROVE  StopIfIdle(b).state # "RUNNING" /\ StopIfIdle(b) \in Player
  <2>1. SetState(b, "STOPPED") \in Player /\ SetState(b, "STOPPED").state = "STOPPED"
    BY <1>1, SetStateType DEF State
  <2> QED
    BY <1>1, <2>1 DEF StopIfIdle
<1>2. ASSUME NEW S
      PROVE  Mark(q, S, "STOPPED") \in Player /\ Mark(q, S, "STOPPED").state = "PREPARING"
  BY DEF Mark, Player, DecodingState
<1>3. ASSUME NEW S
      PROVE  /\ StopIfIdle(Mark(q, S, "STOPPED")).state # "RUNNING"
             /\ StopIfIdle(Mark(q, S, "STOPPED")) \in Player
  BY <1>1, <1>2
<1>4. ~Active(q)
  BY DEF Active
<1>5. /\ StopAll(q) = StopIfIdle(Mark(q, Stream, "STOPPED"))
      /\ StopVideo(q) = StopIfIdle(Mark(q, {"VIDEO"}, "STOPPED"))
      /\ StopAD(q, f) = StopIfIdle(Mark(q, {"AD"}, "STOPPED"))
      /\ StopSubtitle(q) = StopIfIdle(Mark(q, {"SUBTITLE"}, "STOPPED"))
  BY <1>4 DEF StopAll, StopVideo, StopAD, StopSubtitle
<1>6. StopAudio(q, f).state # "RUNNING" /\ StopAudio(q, f) \in Player
  <2> DEFINE m == Mark(q, {"AUDIO"}, "STOPPED")
             n == [m EXCEPT !.switching = FALSE]
  <2>1. StopAudio(q, f) = StopIfIdle(n)
    BY <1>4 DEF StopAudio
  <2>2. m \in Player /\ m.state = "PREPARING"
    BY <1>2
  <2> HIDE DEF m
  <2>3. n \in Player /\ n.state = "PREPARING"
    BY <2>2 DEF Player
  <2> QED
    BY <1>1, <2>1, <2>3
<1> QED
  BY <1>3, <1>5, <1>6

(* The end of a preparation that began while PAUSED.                       *)
LEMMA FinishesPaused ==
    ASSUME NEW q \in Player, q.player, q.state = "PREPARING", q.last = "PAUSED"
    PROVE  FinishPreparing(q, {}).state # "RUNNING"
<1> DEFINE u == SetState(q, "PREPARED")
           v == StartPending(u, "VIDEO", StartVideo(u, {}))
           a == StartPending(v, "AUDIO", StartAudio(v, {}))
           s == StartPending(a, "SUBTITLE", StartSubtitle(a, {}))
           d == StartPending(s, "AD", StartAD(s, {}))
<1>1. FinishPreparing(q, {}) = IF q.waiting # {} THEN q ELSE Pause(d, {})
  BY DEF FinishPreparing
<1>2. Good(u)
  BY SetStateType DEF Good, State
<1> HIDE DEF u
<1>3. Good(v)
  BY <1>2, StartVideoGood, StartPendingGood
<1> HIDE DEF v
<1>4. Good(a)
  BY <1>3, StartAudioGood, StartPendingGood
<1> HIDE DEF a
<1>5. Good(s)
  BY <1>4, StartSubtitleGood, StartPendingGood
<1> HIDE DEF s
<1>6. Good(d)
  BY <1>5, StartADGood, StartPendingGood
<1> HIDE DEF d
<1>7. Pause(d, {}).state # "RUNNING"
  <2>1. CASE d.state # "RUNNING"
    BY <2>1 DEF Pause
  <2>2. CASE d.state = "RUNNING"
    <3> DEFINE r == OnDevice(d, DevPause(d.dev, {}))
               w == SetState(r, "PAUSED")
    <3>1. d.player /\ d.dev \in Device
      BY <1>6, <2>2 DEF Good, Player
    <3>2. Pause(d, {}) = Mark(w, InState(r, Stream, "STARTED"), "PAUSED")
      BY <2>2, <3>1 DEF Pause, DevPauseFails
    <3>3. Good(r) /\ r.player
      BY <1>6, <3>1, WholeDeviceTypes, OnDeviceGood
    <3> HIDE DEF r
    <3>4. Good(w) /\ w.state = "PAUSED"
      BY <3>3, SetStateGood
    <3> HIDE DEF w
    <3> QED
      BY <3>2, <3>4, MarkGood DEF DecodingState
  <2> QED
    BY <2>1, <2>2
<1> QED
  BY <1>1, <1>7

LEMMA PausedStep ==
    ASSUME OneClient, NoFailure, IInv, Next, p.state = "PREPARING", p.last = "PAUSED"
    PROVE  p'.state # "RUNNING"
<1>1. p \in Player /\ p.player /\ Good(p) /\ ~Active(p)
  BY IInvParts DEF Good, Active
<1>2. \A f \in Outcomes : f = {}
  BY DEF NoFailure
<1>3. ASSUME NEW t, NEW q \in Player, q.state # "RUNNING", NEW f,
             BecomesAndResets(t, q, "stop", f)
      PROVE  p'.state # "RUNNING"
  <2>1. CASE p' = q
    BY <1>3, <2>1
  <2>2. CASE p' = AfterClose(q, "stop", f)
    <3> DEFINE b == [q EXCEPT
                        !.parser = "none", !.asked = {},
                        !.player = FALSE, !.dev = NewDevice,
                        !.cas = q.cas /\ q.standalone /\ ~TRUE,
                        !.standalone = q.standalone /\ ~TRUE,
                        !.switching = FALSE]
    <3>1. b \in Player
      BY <1>3, NewDeviceType DEF Player
    <3>2. AfterClose(q, "stop", f) = SetState(b, "IDLE")
      BY DEF AfterClose, ResetDone
    <3> HIDE DEF b
    <3> QED
      BY <2>2, <3>1, <3>2, SetStateType DEF State
  <2>3. CASE p' = CloseParser(q)
    BY <1>3, <2>3 DEF CloseParser, Player
  <2> QED
    BY <1>3, <2>1, <2>2, <2>3 DEF BecomesAndResets, Becomes, GivesUpLock
<1>4. ASSUME NEW t \in Client, ClientStep(t) PROVE p'.state # "RUNNING"
  <2>1. CASE SetParams(t)
    <3>1. PICK s \in Stream : \E v \in Offered[s] : p' = [p EXCEPT !.prm[s] = v]
      BY <2>1 DEF SetParams, Becomes
    <3>2. PICK v \in Offered[s] : p' = [p EXCEPT !.prm[s] = v]
      BY <3>1
    <3> QED
      BY <1>1, <3>2 DEF Player
  <2>2. CASE SetIptvCASParams(t) \/ SetCasSession(t)
    BY <1>1, <2>2 DEF SetIptvCASParams, SetCasSession, Becomes, Player
  <2>3. CASE \E f \in Outcomes :
                \/ Becomes(Start(p, f)) \/ Becomes(StartVideo(p, f))
                \/ Becomes(StartAudio(p, f)) \/ Becomes(StartAD(p, f))
                \/ Becomes(StartSubtitle(p, f)) \/ Becomes(Pause(p, f))
                \/ Becomes(Resume(p, f)) \/ Becomes(Flush(p, f))
    BY <1>1, <2>3, PreparingIsLeftAlone DEF Becomes
  <2>4. CASE \E f \in Outcomes \cup {{}} :
                \/ BecomesAndResets(t, StopAll(p), "stop", f)
                \/ BecomesAndResets(t, StopVideo(p), "stop", f)
                \/ BecomesAndResets(t, StopAudio(p, f), "stop", f)
                \/ BecomesAndResets(t, StopAD(p, f), "stop", f)
                \/ BecomesAndResets(t, StopSubtitle(p), "stop", f)
    BY <1>1, <1>3, <2>4, StopsOfPreparing
  <2>5. CASE DoSwitchAudioTrack(t) \/ DoSwitchSubtitleTrack(t)
    BY <1>1, <2>5, PreparingIsLeftAlone
    DEF DoSwitchAudioTrack, DoSwitchSubtitleTrack, Becomes
  <2>6. CASE SetDecodeMode(t)
    <3>1. PICK m \in DecodeMode : p' = [p EXCEPT !.mode = m]
      BY <1>1, <2>6 DEF SetDecodeMode, SwitchDecodeMode, Becomes
    <3> QED
      BY <1>1, <3>1 DEF Player
  <2>7. CASE SetPlaybackRate(t)
    BY <1>1, <2>7 DEF SetPlaybackRate
  <2>8. CASE FinishReset(t)
    BY <2>8 DEF FinishReset, LeavesReset, IInv, WindowIsQuiet
  <2> QED
    BY <1>4, <2>1, <2>2, <2>3, <2>4, <2>5, <2>6, <2>7, <2>8
    DEF ClientStep, DoStart, DoStartVideo, DoStartAudio, DoStartAD, DoStartSubtitle,
        DoStop, DoStopVideo, DoStopAudio, DoStopAD, DoStopSubtitle, DoPause, DoResume,
        DoFlush
<1>5. ASSUME OnProgramParsed PROVE p'.state # "RUNNING"
  <2>1. PICK found \in SUBSET {"VIDEO", "AUDIO"} : p' = ProgramParsed(p, found, {})
    BY <1>2, <1>5 DEF OnProgramParsed
  <2> DEFINE learnt(s) == s \in found /\ p.prm[s] = "nocodec"
             r == [p EXCEPT !.prm = [s \in Stream |->
                                         IF learnt(s) THEN "full" ELSE p.prm[s]],
                            !.waiting = p.waiting \ {"codec"}]
  <2>2. r \in Player /\ r.player /\ r.state = "PREPARING" /\ r.last = "PAUSED"
    BY <1>1 DEF Player, Param
  <2>3. p' = FinishPreparing(r, {})
    BY <1>1, <2>1 DEF ProgramParsed, Player
  <2> HIDE DEF r
  <2> QED
    BY <2>2, <2>3, FinishesPaused
<1>6. ASSUME OnEcmDataParsed PROVE p'.state # "RUNNING"
  <2> DEFINE r == [p EXCEPT !.waiting = p.waiting \ {"ecm"}]
  <2>1. r \in Player /\ r.player /\ r.state = "PREPARING" /\ r.last = "PAUSED"
    BY <1>1 DEF Player
  <2>2. p' = FinishPreparing(r, {})
    BY <1>1, <1>2, <1>6 DEF OnEcmDataParsed, EcmDataParsed, Player
  <2> HIDE DEF r
  <2> QED
    BY <2>1, <2>2, FinishesPaused
<1> QED
  BY <1>4, <1>5, <1>6 DEF Next, ParserStep, Finds

(* With one client thread and no call that fails, a player whose flush      *)
(* waits for a new ECM while PAUSED does not come back RUNNING: the ECM     *)
(* ends the wait in finishPreparingIfNeeded_l, which pauses again.          *)
THEOREM FlushComesBackPaused ==
    ASSUME OneClient, NoFailure
    PROVE  Spec => FlushKeepsPause
<1> DEFINE Kept == p.state = "PREPARING" /\ p.last = "PAUSED" => p'.state # "RUNNING"
<1>1. ASSUME IInv, [Next]_vars PROVE [Kept]_vars
  BY <1>1, PausedStep
<1>2. FlushKeepsPause <=> [][Kept]_vars
  BY DEF FlushKeepsPause
<1> HIDE DEF Kept
<1>3. Spec => [][Kept]_vars
  BY <1>1, InductiveInvariant, PTL DEF Spec
<1> QED
  BY <1>2, <1>3, PTL

-----------------------------------------------------------------------------
(* The phase of the player and the states of its streams.                  *)

(* The client uses the calls on the whole player alone. *)
WholePlayerCalls ==
    Calls \subseteq {"setParams", "setIptvCASParams", "start", "stop", "pause",
                     "resume", "flush", "setPlaybackRate"}

(* What a stream needs to be started. *)
Startable(q, s) == IF s = "SUBTITLE" THEN HasCodec(q, s) ELSE HasPid(q, s)

(* The invariant that PhaseTellsStreams needs: what start_l will find to    *)
(* start is all that is PAUSED, and outside RUNNING and PAUSED nothing is. *)
Phased(q) ==
    /\ \A s \in Stream :
          /\ q.state = "PAUSED" => q.dec[s] # "STARTED"
          /\ q.state = "RUNNING" => q.dec[s] # "PAUSED"
          /\ q.state \notin {"RUNNING", "PAUSED"} => q.dec[s] \in {"STOPPED", "START_PENDING"}
          /\ q.dec[s] \in {"STARTED", "PAUSED"} => Startable(q, s)
    /\ ~q.switching

(* r is q in the state st, with the streams of S started. *)
Starts(q, r, st, S) ==
    /\ r.state = st /\ r.prm = q.prm /\ r.switching = q.switching
    /\ \A s \in Stream : r.dec[s] = IF s \in S THEN "STARTED" ELSE q.dec[s]

LEMMA StartsShape ==
    ASSUME NEW q \in Player, NEW d, NEW S
    PROVE  /\ Starts(q, Mark(SetState(OnDevice(q, d), "RUNNING"), S, "STARTED"), "RUNNING", S)
           /\ Starts(q, OnDevice(q, d), q.state, {})
<1> DEFINE r == OnDevice(q, d)
           u == SetState(r, "RUNNING")
<1>1. /\ Starts(q, r, q.state, {}) /\ r.dec = q.dec
      /\ {"state", "last", "dec", "prm", "switching"} \subseteq DOMAIN r
  BY DEF OnDevice, Player, Starts
<1> HIDE DEF r
<1>2. /\ u.state = "RUNNING" /\ u.dec = r.dec /\ u.prm = r.prm
      /\ u.switching = r.switching
      /\ {"state", "last", "dec", "prm", "switching"} \subseteq DOMAIN u
  BY <1>1 DEF SetState
<1> HIDE DEF u
<1>3. Starts(q, Mark(u, S, "STARTED"), "RUNNING", S)
  BY <1>1, <1>2 DEF Mark, Starts
<1> QED
  BY <1>1, <1>3 DEF r, u

(* The starts of one stream in an object that is up.                       *)
LEMMA StartShapes ==
    ASSUME NEW q \in Player, q.state \notin {"IDLE", "PREPARING"}
    PROVE  /\ Starts(q, StartVideo(q, {}), "RUNNING", {s \in {"VIDEO"} : HasPid(q, s)})
           /\ Starts(q, StartAudio(q, {}),
                     IF HasPid(q, "AUDIO") THEN "RUNNING" ELSE q.state,
                     {s \in {"AUDIO"} : HasPid(q, s)})
           /\ Starts(q, StartAD(q, {}),
                     IF HasPid(q, "AD") THEN "RUNNING" ELSE q.state,
                     {s \in {"AD"} : HasPid(q, s)})
<1>1. Prepared(q, {}) = q /\ ~NotReady(q) /\ Starts(q, q, q.state, {})
  BY DEF Prepared, NotReady, Starts
<1>2. Starts(q, StartVideo(q, {}), "RUNNING", {s \in {"VIDEO"} : HasPid(q, s)})
  <2> DEFINE d == IF HasPid(q, "VIDEO")
                  THEN DevSetVideoParams(q.dev, HasCodec(q, "VIDEO")) ELSE q.dev
             S == IF HasPid(q, "VIDEO") THEN {"VIDEO"} ELSE {}
  <2>1. StartVideo(q, {}) =
            Mark(SetState(OnDevice(q, DevStartVideo(d, {})), "RUNNING"), S, "STARTED")
    BY <1>1 DEF StartVideo
  <2>2. S = {s \in {"VIDEO"} : HasPid(q, s)}
    OBVIOUS
  <2> HIDE DEF d, S
  <2> QED
    BY <2>1, <2>2, StartsShape
<1>3. ASSUME NEW a, a = q \/ \E e : a = OnDevice(q, e), NEW d, NEW S
      PROVE  Starts(q, Mark(SetState(OnDevice(a, d), "RUNNING"), S, "STARTED"), "RUNNING", S)
  <2>1. OnDevice(a, d) = OnDevice(q, d)
    BY <1>3 DEF OnDevice, Player
  <2> QED
    BY <2>1, StartsShape
<1>4. Starts(q, StartAudio(q, {}), IF HasPid(q, "AUDIO") THEN "RUNNING" ELSE q.state,
             {s \in {"AUDIO"} : HasPid(q, s)})
  <2> DEFINE a == IF q.dec["AD"] = "STARTED" THEN ResetADCodec(q, FALSE, {}) ELSE q
             d == DevStartAudio(DevSetAudioParams(a.dev, HasCodec(q, "AUDIO")), {})
             S == {s \in {"AUDIO"} : HasPid(q, s)}
             w == Mark(SetState(OnDevice(a, d), "RUNNING"), {"AUDIO"}, "STARTED")
  <2>1. StartAudio(q, {}) = IF ~HasPid(q, "AUDIO") THEN q ELSE w
    BY <1>1 DEF StartAudio
  <2>2. a = q \/ \E e : a = OnDevice(q, e)
    BY DEF ResetADCodec
  <2> HIDE DEF a, d
  <2>3. Starts(q, w, "RUNNING", {"AUDIO"})
    BY <1>3, <2>2
  <2> HIDE DEF w
  <2>4. S = IF HasPid(q, "AUDIO") THEN {"AUDIO"} ELSE {}
    OBVIOUS
  <2> HIDE DEF S
  <2> QED
    BY <1>1, <2>1, <2>3, <2>4 DEF S
<1>5. Starts(q, StartAD(q, {}), IF HasPid(q, "AD") THEN "RUNNING" ELSE q.state,
             {s \in {"AD"} : HasPid(q, s)})
  <2> DEFINE a == IF q.dec["AUDIO"] = "STARTED" THEN ResetAudioCodec(q, FALSE, {}) ELSE q
             d == DevStartAD(DevSetADParams(a.dev, TRUE), {})
             S == {s \in {"AD"} : HasPid(q, s)}
             w == Mark(SetState(OnDevice(a, d), "RUNNING"), {"AD"}, "STARTED")
  <2>1. StartAD(q, {}) = IF ~HasPid(q, "AD") THEN q ELSE w
    BY <1>1 DEF StartAD
  <2>2. a = q \/ \E e : a = OnDevice(q, e)
    BY DEF ResetAudioCodec
  <2> HIDE DEF a, d
  <2>3. Starts(q, w, "RUNNING", {"AD"})
    BY <1>3, <2>2
  <2> HIDE DEF w
  <2>4. S = IF HasPid(q, "AD") THEN {"AD"} ELSE {}
    OBVIOUS
  <2> HIDE DEF S
  <2> QED
    BY <1>1, <2>1, <2>3, <2>4 DEF S
<1> QED
  BY <1>2, <1>4, <1>5

(* startSubtitleDecoding_l does not start again what is started.           *)
LEMMA StartSubtitleShape ==
    ASSUME NEW q \in Player, q.state \notin {"IDLE", "PREPARING"}, q.player,
           q.dec["SUBTITLE"] # "STARTED"
    PROVE  Starts(q, StartSubtitle(q, {}), "RUNNING", {s \in {"SUBTITLE"} : HasCodec(q, s)})
<1> DEFINE d == IF HasCodec(q, "SUBTITLE")
                THEN DevSetSubtitleParams(q.dev, TRUE) ELSE q.dev
           S == IF HasCodec(q, "SUBTITLE") THEN {"SUBTITLE"} ELSE {}
<1>1. StartSubtitle(q, {}) =
          Mark(SetState(OnDevice(q, DevStartSubtitle(d, {})), "RUNNING"), S, "STARTED")
  BY DEF StartSubtitle, Prepared, NotReady
<1>2. S = {s \in {"SUBTITLE"} : HasCodec(q, s)}
  OBVIOUS
<1> HIDE DEF d, S
<1> QED
  BY <1>1, <1>2, StartsShape

(* The preparation touches no stream.                                      *)
PhaseFields(q, r) ==
    /\ {"state", "last", "dec", "prm", "switching"} \subseteq DOMAIN r
    /\ r.dec = q.dec /\ r.prm = q.prm /\ r.switching = q.switching

LEMMA PhaseFieldsParts ==
    ASSUME NEW q, PhaseFields(q, q)
    PROVE  /\ \A s : PhaseFields(q, SetState(q, s)) /\ SetState(q, s).state = s
           /\ \A w : PhaseFields(q, OpenParser(q, w)) /\ OpenParser(q, w).state = q.state
           /\ PhaseFields(q, PrepareCas(q)) /\ PrepareCas(q).state = q.state
<1> USE DEF PhaseFields
<1>1. \A s : PhaseFields(q, SetState(q, s)) /\ SetState(q, s).state = s
  BY DEF SetState
<1>2. \A w : PhaseFields(q, OpenParser(q, w)) /\ OpenParser(q, w).state = q.state
  BY DEF OpenParser
<1>3. PhaseFields(q, PrepareCas(q)) /\ PrepareCas(q).state = q.state
  BY DEF PrepareCas
<1> QED
  BY <1>1, <1>2, <1>3

LEMMA PreparedShape ==
    ASSUME NEW q \in Player, q.state = "IDLE"
    PROVE  /\ PhaseFields(q, Prepared(q, {}))
           /\ Prepared(q, {}).state \in {"PREPARED", "PREPARING"}
<1> DEFINE c == PrepareCas(q)
           b == IF c.player \/ "create" \in {} THEN c
                ELSE [c EXCEPT !.player = TRUE, !.dev = NewDevice]
           w == (IF NeedsCodecId(b) THEN {"codec"} ELSE {})
                    \cup (IF NeedsEcm(b) THEN {"ecm"} ELSE {})
           m == IF MonitorPidChange THEN OpenParser(b, {"codec"}) ELSE b
           o == OpenParser(m, w)
           n == [o EXCEPT !.waiting = m.waiting \cup w]
<1>1. Prepared(q, {}) = IF w = {} THEN SetState(m, "PREPARED") ELSE SetState(n, "PREPARING")
  BY DEF Prepared, Prepare, PrepareFails, PrepareWait, WaitFor
<1>2. PhaseFields(q, c)
  BY PhaseFieldsParts DEF PhaseFields, Player
<1> HIDE DEF c
<1>3. PhaseFields(q, b)
  BY <1>2 DEF PhaseFields
<1> HIDE DEF b, w
<1>4. PhaseFields(q, m)
  <2>1. PhaseFields(b, OpenParser(b, {"codec"}))
    BY <1>3, PhaseFieldsParts DEF PhaseFields
  <2> QED
    BY <1>3, <2>1 DEF PhaseFields
<1> HIDE DEF m
<1>5. PhaseFields(q, o)
  <2>1. PhaseFields(m, OpenParser(m, w))
    BY <1>4, PhaseFieldsParts DEF PhaseFields
  <2> QED
    BY <1>4, <2>1 DEF PhaseFields
<1> HIDE DEF o
<1>6. PhaseFields(q, n)
  BY <1>5 DEF PhaseFields
<1> HIDE DEF n
<1>7. /\ PhaseFields(m, SetState(m, "PREPARED")) /\ SetState(m, "PREPARED").state = "PREPARED"
      /\ PhaseFields(n, SetState(n, "PREPARING"))
      /\ SetState(n, "PREPARING").state = "PREPARING"
  <2>1. PhaseFields(m, m) /\ PhaseFields(n, n)
    BY <1>4, <1>6 DEF PhaseFields
  <2> QED
    BY <2>1, PhaseFieldsParts
<1> QED
  BY <1>1, <1>4, <1>6, <1>7 DEF PhaseFields

LEMMA PreparedPhased ==
    ASSUME NEW q, Good(q), Phased(q)
    PROVE  LET r == Prepared(q, {}) IN Good(r) /\ Phased(r) /\ r.state # "IDLE"
<1>1. CASE q.state = "IDLE"
  BY <1>1, PreparedGood, PreparedShape
  DEF Good, Phased, PhaseFields, Startable, HasPid, HasCodec
<1>2. CASE q.state # "IDLE"
  BY <1>2 DEF Prepared
<1> QED
  BY <1>1, <1>2

(* A start leaves the phases in step if it starts all that can be started  *)
(* of a PAUSED player.                                                     *)
LEMMA StartsPhased ==
    ASSUME NEW q, Phased(q), NEW r, NEW S, Starts(q, r, "RUNNING", S),
           \A s \in S \cap Stream : Startable(q, s),
           q.state = "PAUSED" => \A s \in Stream : Startable(q, s) => s \in S
    PROVE  Phased(r)
BY DEF Phased, Starts, Startable, HasPid, HasCodec

LEMMA StartVideoPhased ==
    ASSUME NEW q0, Good(q0), Phased(q0), q0.state # "PAUSED"
    PROVE  Phased(StartVideo(q0, {}))
<1> DEFINE q == Prepared(q0, {})
<1>1. Good(q) /\ Phased(q) /\ q.state # "IDLE" /\ q.state # "PAUSED"
  <2>1. Good(q) /\ Phased(q) /\ q.state # "IDLE"
    BY PreparedPhased
  <2>2. q.state # "PAUSED"
    BY PreparedShape DEF Good, Prepared
  <2> QED
    BY <2>1, <2>2
<1>2. StartVideo(q0, {}) = StartVideo(q, {})
  BY <1>1 DEF StartVideo, Prepared
<1> HIDE DEF q
<1>3. CASE q.state = "PREPARING"
  <2>1. StartVideo(q, {}) = Mark(q, {"VIDEO"}, "START_PENDING")
    BY <1>3 DEF StartVideo, Prepared, NotReady, Deferred
  <2> QED
    BY <1>1, <1>2, <1>3, <2>1
    DEF Mark, Phased, Good, Player, Startable, HasPid, HasCodec
<1>4. CASE q.state # "PREPARING"
  <2> DEFINE S == {s \in {"VIDEO"} : HasPid(q, s)}
  <2>1. Starts(q, StartVideo(q, {}), "RUNNING", S)
    BY <1>1, <1>4, StartShapes DEF Good
  <2>2. \A s \in S \cap Stream : Startable(q, s)
    BY DEF Startable
  <2> HIDE DEF S
  <2> QED
    BY <1>1, <1>2, <2>1, <2>2, StartsPhased
<1> QED
  BY <1>3, <1>4

(* start_l, also of a player that is PAUSED or RUNNING.                     *)
LEMMA StartPhased ==
    ASSUME NEW q0, Good(q0), Phased(q0)
    PROVE  Phased(Start(q0, {}))
<1> DEFINE q == Prepared(q0, {})
<1>1. Good(q) /\ Phased(q) /\ q.state # "IDLE"
  BY PreparedPhased
<1>2. Start(q0, {}) = Start(q, {})
  BY <1>1 DEF Start, Prepared
<1> HIDE DEF q
<1>3. CASE q.state = "PREPARING"
  <2>1. Start(q, {}) = Mark(q, Stream, "START_PENDING")
    BY <1>3 DEF Start, Prepared, NotReady, Deferred
  <2> QED
    BY <1>1, <1>2, <1>3, <2>1
    DEF Mark, Phased, Good, Player, Startable, HasPid, HasCodec
<1>4. CASE q.state # "PREPARING"
  <2> DEFINE d == ParametersSet(q)
             e == IF Configured(q) # {} THEN DevStart(d, {}) ELSE d
             u == Mark(SetState(OnDevice(q, e), "RUNNING"), Configured(q), "STARTED")
             A == {s \in {"AD"} : HasPid(u, s)}
  <2>1. Start(q, {}) = StartAD(u, {})
    BY <1>1, <1>4
    DEF Start, Prepared, NotReady, DevStartFails
  <2>2. Starts(q, u, "RUNNING", Configured(q))
    BY <1>1, StartsShape DEF Good
  <2>3. Good(u)
    <3>1. e \in Device
      BY <1>1, ParametersSetType, WholeDeviceTypes DEF Good, Player
    <3> HIDE DEF e
    <3>2. Good(OnDevice(q, e)) /\ OnDevice(q, e).player
      BY <1>1, <3>1, OnDeviceGood DEF Good
    <3> QED
      BY <3>2, NowRunning
  <2> HIDE DEF u
  <2>4. Starts(u, StartAD(u, {}), "RUNNING", A)
    BY <2>2, <2>3, StartShapes DEF Starts, Good
  <2>5. A = {s \in {"AD"} : HasPid(q, s)}
    BY <2>2 DEF Starts, HasPid
  <2> HIDE DEF A
  <2>6. Starts(q, StartAD(u, {}), "RUNNING", Configured(q) \cup A)
    BY <2>2, <2>4 DEF Starts
  <2>7. \A s \in Stream : s \in Configured(q) \cup A <=> Startable(q, s)
    BY <2>5 DEF Configured, Startable, Stream
  <2> QED
    BY <1>1, <1>2, <2>1, <2>6, <2>7, StartsPhased
<1> QED
  BY <1>3, <1>4

(* r is q in the state st, with the streams of S in decoding state v.      *)
Marks(q, r, st, S, v) ==
    /\ r.state = st /\ r.prm = q.prm /\ r.switching = q.switching
    /\ \A s \in Stream : r.dec[s] = IF s \in S THEN v ELSE q.dec[s]

LEMMA MarkShape ==
    ASSUME NEW q, NEW r, PhaseFields(q, r), NEW st, NEW S, NEW v
    PROVE  Marks(q, Mark(SetState(r, st), S, v), st, S, v)
<1> DEFINE u == SetState(r, st)
<1>1. PhaseFields(q, u) /\ u.state = st
  <2>1. PhaseFields(r, r)
    BY DEF PhaseFields
  <2>2. PhaseFields(r, u) /\ u.state = st
    BY <2>1, PhaseFieldsParts
  <2> QED
    BY <2>2 DEF PhaseFields
<1> HIDE DEF u
<1>2. /\ {"state", "last", "dec", "prm", "switching"} \subseteq DOMAIN u
      /\ u.dec = q.dec /\ u.prm = q.prm /\ u.switching = q.switching
  BY <1>1 DEF PhaseFields
<1> DEFINE m == Mark(u, S, v)
<1>3. /\ m.state = u.state /\ m.prm = u.prm /\ m.switching = u.switching
      /\ m.dec = [s \in Stream |-> IF s \in S THEN v ELSE u.dec[s]]
  BY <1>2 DEF Mark
<1> HIDE DEF m
<1>4. Marks(q, m, st, S, v)
  BY <1>1, <1>2, <1>3 DEF Marks
<1> QED
  BY <1>4 DEF m, u

LEMMA OnDeviceShape ==
    ASSUME NEW q \in Player, NEW d
    PROVE  PhaseFields(q, OnDevice(q, d)) /\ OnDevice(q, d).state = q.state
BY DEF OnDevice, Player, PhaseFields

(* pause_l marks every stream that runs.                                   *)
LEMMA PausePhased ==
    ASSUME NEW q, Good(q), Phased(q)
    PROVE  Phased(Pause(q, {}))
<1> DEFINE r == OnDevice(q, DevPause(q.dev, {}))
           S == InState(r, Stream, "STARTED")
<1>1. Pause(q, {}) = IF q.state # "RUNNING" \/ ~q.player THEN q
                     ELSE Mark(SetState(r, "PAUSED"), S, "PAUSED")
  BY DEF Pause, DevPauseFails
<1>2. PhaseFields(q, r)
  BY OnDeviceShape DEF Good
<1>3. \A s \in Stream : s \in S <=> q.dec[s] = "STARTED"
  BY <1>2 DEF InState, PhaseFields
<1> HIDE DEF r, S
<1>4. Marks(q, Mark(SetState(r, "PAUSED"), S, "PAUSED"), "PAUSED", S, "PAUSED")
  BY <1>2, MarkShape
<1> QED
  BY <1>1, <1>3, <1>4 DEF Marks, Phased, Startable, HasPid, HasCodec

LEMMA ResumedShape ==
    ASSUME NEW q, NEW d, NEW s0 \in Stream,
           {"state", "last", "dec", "prm", "switching", "dev"} \subseteq DOMAIN q
    PROVE  LET r == Mark(OnDevice(q, d), {s0}, "STARTED")
           IN  /\ {"state", "last", "dec", "prm", "switching", "dev"} \subseteq DOMAIN r
               /\ r.state = q.state /\ r.prm = q.prm /\ r.switching = q.switching
               /\ r.dec[s0] = "STARTED"
               /\ \A s \in Stream : s # s0 => r.dec[s] = q.dec[s]
<1> DEFINE o == OnDevice(q, d)
<1>1. /\ {"state", "last", "dec", "prm", "switching", "dev"} \subseteq DOMAIN o
      /\ o.state = q.state /\ o.prm = q.prm /\ o.switching = q.switching /\ o.dec = q.dec
  BY DEF OnDevice
<1> HIDE DEF o
<1>2. LET r == Mark(o, {s0}, "STARTED")
      IN  /\ {"state", "last", "dec", "prm", "switching", "dev"} \subseteq DOMAIN r
          /\ r.state = q.state /\ r.prm = q.prm /\ r.switching = q.switching
          /\ r.dec[s0] = "STARTED"
          /\ \A s \in Stream : s # s0 => r.dec[s] = q.dec[s]
  BY <1>1 DEF Mark
<1> QED
  BY <1>2 DEF o

(* resume_l marks every stream that is held.                               *)
LEMMA ResumePhased ==
    ASSUME NEW q, Good(q), Phased(q)
    PROVE  Phased(Resume(q, {}))
<1> DEFINE v == ResumeVideo(q, {})
           a == ResumeAudio(v, {})
           S == InState(a, {"AD", "SUBTITLE"}, "PAUSED")
           r == Mark(a, S, "STARTED")
           Held(S0, s) == IF s \in S0 /\ q.dec[s] = "PAUSED" THEN "STARTED" ELSE q.dec[s]
           Part(b, S0) ==
               /\ {"state", "last", "dec", "prm", "switching", "dev"} \subseteq DOMAIN b
               /\ b.state = q.state /\ b.prm = q.prm /\ b.switching = q.switching
               /\ \A s \in Stream : b.dec[s] = Held(S0, s)
<1>1. Resume(q, {}) = IF q.state # "PAUSED" \/ ~q.player THEN q ELSE SetState(r, "RUNNING")
  BY DEF Resume, ResumeFails
<1>2. CASE q.state # "PAUSED" \/ ~q.player
  BY <1>1, <1>2
<1>3. CASE q.state = "PAUSED" /\ q.player
  <2>1. Part(v, {"VIDEO"})
    <3>1. Part(q, {})
      BY DEF Good, Player
    <3> HIDE DEF v
    <3>3. q.dec["VIDEO"] # "PAUSED" => v = q
      BY DEF v, ResumeVideo
    <3>4. q.dec["VIDEO"] = "PAUSED" => \E d : v = Mark(OnDevice(q, d), {"VIDEO"}, "STARTED")
      BY DEF v, ResumeVideo
    <3>5. CASE q.dec["VIDEO"] # "PAUSED"
      BY <3>1, <3>3, <3>5
    <3>6. CASE q.dec["VIDEO"] = "PAUSED"
      <4>1. PICK d : v = Mark(OnDevice(q, d), {"VIDEO"}, "STARTED")
        BY <3>4, <3>6
      <4>2. "VIDEO" \in Stream /\ Stream = {"VIDEO", "AUDIO", "AD", "SUBTITLE"}
        BY DEF Stream
      <4>3. /\ {"state", "last", "dec", "prm", "switching", "dev"} \subseteq DOMAIN v
            /\ v.state = q.state /\ v.prm = q.prm /\ v.switching = q.switching
            /\ v.dec["VIDEO"] = "STARTED"
            /\ \A s \in Stream : s # "VIDEO" => v.dec[s] = q.dec[s]
        BY <3>1, <4>1, <4>2, ResumedShape
      <4> QED
        BY <3>1, <3>6, <4>2, <4>3
    <3> QED
      BY <3>5, <3>6
  <2> HIDE DEF v
  <2>2. Part(a, {"VIDEO", "AUDIO"})
    <3>1. v.dec["AUDIO"] = q.dec["AUDIO"] /\ ~RestartsAudio(v)
      BY <2>1 DEF Phased, RestartsAudio, Stream
    <3>2. v.dec["AUDIO"] # "PAUSED" => a = v
      BY <3>1 DEF ResumeAudio
    <3>3. v.dec["AUDIO"] = "PAUSED" => \E d : a = Mark(OnDevice(v, d), {"AUDIO"}, "STARTED")
      BY DEF ResumeAudio
    <3> HIDE DEF a
    <3>4. CASE v.dec["AUDIO"] # "PAUSED"
      BY <2>1, <3>1, <3>2, <3>4
    <3>5. CASE v.dec["AUDIO"] = "PAUSED"
      <4>1. PICK d : a = Mark(OnDevice(v, d), {"AUDIO"}, "STARTED")
        BY <3>3, <3>5
      <4>2. "AUDIO" \in Stream /\ Stream = {"VIDEO", "AUDIO", "AD", "SUBTITLE"}
        BY DEF Stream
      <4>3. /\ {"state", "last", "dec", "prm", "switching", "dev"} \subseteq DOMAIN a
            /\ a.state = v.state /\ a.prm = v.prm /\ a.switching = v.switching
            /\ a.dec["AUDIO"] = "STARTED"
            /\ \A s \in Stream : s # "AUDIO" => a.dec[s] = v.dec[s]
        BY <2>1, <4>1, <4>2, ResumedShape
      <4> QED
        BY <2>1, <3>1, <3>5, <4>2, <4>3
    <3> QED
      BY <3>4, <3>5
  <2> HIDE DEF a
  <2>3. Part(r, Stream)
    BY <2>2 DEF Mark, InState, Stream
  <2> HIDE DEF r
  <2>4. PhaseFields(r, SetState(r, "RUNNING")) /\ SetState(r, "RUNNING").state = "RUNNING"
    <3>1. PhaseFields(r, r)
      BY <2>3 DEF PhaseFields
    <3> QED
      BY <3>1, PhaseFieldsParts
  <2> QED
    BY <1>1, <1>3, <2>3, <2>4 DEF PhaseFields, Phased, Startable, HasPid, HasCodec
<1> QED
  BY <1>2, <1>3

(* flush that has to wait marks every stream to be started again.          *)
LEMMA FlushWaits ==
    ASSUME NEW q, NEW o, PhaseFields(q, o)
    PROVE  Marks(q, Mark(SetState(WaitFor(o, {"ecm"}), "PREPARING"), Stream, "START_PENDING"),
                 "PREPARING", Stream, "START_PENDING")
<1> DEFINE x == OpenParser(o, {"ecm"})
           w == WaitFor(o, {"ecm"})
<1>1. PhaseFields(q, x)
  <2>1. PhaseFields(o, o)
    BY DEF PhaseFields
  <2>2. PhaseFields(o, x)
    BY <2>1, PhaseFieldsParts DEF PhaseFields
  <2> QED
    BY <2>2 DEF PhaseFields
<1>2. w = [x EXCEPT !.waiting = o.waiting \cup {"ecm"}]
  BY DEF WaitFor
<1> HIDE DEF x, w
<1>3. PhaseFields(q, w)
  BY <1>1, <1>2 DEF PhaseFields
<1> QED
  BY <1>3, MarkShape DEF w

LEMMA FlushPhased ==
    ASSUME NEW q, Good(q), Phased(q)
    PROVE  Phased(Flush(q, {}))
<1> DEFINE r == OnDevice(q, Refreshed(q))
           m == Mark(SetState(WaitFor(r, {"ecm"}), "PREPARING"), Stream, "START_PENDING")
<1>1. Flush(q, {}) = q \/ Flush(q, {}) = m \/ \E d : Flush(q, {}) = OnDevice(r, d)
  BY DEF Flush
<1>2. PhaseFields(q, r) /\ r.state = q.state /\ \A d : OnDevice(r, d) = OnDevice(q, d)
  BY OnDeviceShape DEF Good, OnDevice, Player
<1> HIDE DEF r
<1>3. \A d : Phased(OnDevice(r, d))
  BY <1>2, OnDeviceShape DEF Good, PhaseFields, Phased, Startable, HasPid, HasCodec
<1>4. Marks(q, m, "PREPARING", Stream, "START_PENDING")
  BY <1>2, FlushWaits
<1> HIDE DEF m
<1>5. Phased(m)
  BY <1>4 DEF Marks, Phased
<1> QED
  BY <1>1, <1>3, <1>5

(* stop_l up to reset_l leaves a STOPPED player with every stream STOPPED. *)
LEMMA StopAllShape ==
    ASSUME NEW q \in Player
    PROVE  Marks(q, StopAll(q), "STOPPED", Stream, "STOPPED")
<1> DEFINE d == [DevStop(q.dev) EXCEPT !.audioSet = FALSE, !.mix = FALSE]
           r == IF Active(q) THEN OnDevice(q, d) ELSE q
           m == Mark(r, Stream, "STOPPED")
<1>1. StopAll(q) = StopIfIdle(m)
  BY DEF StopAll
<1>2. PhaseFields(q, r)
  BY OnDeviceShape DEF PhaseFields, Player
<1> HIDE DEF r
<1>3. PhaseFields(m, m) /\ m.prm = q.prm /\ m.switching = q.switching /\ AllStopped(m)
  BY <1>2 DEF PhaseFields, Mark, AllStopped
<1> HIDE DEF m
<1>4. PhaseFields(m, SetState(m, "STOPPED")) /\ SetState(m, "STOPPED").state = "STOPPED"
  BY <1>3, PhaseFieldsParts
<1> QED
  BY <1>1, <1>3, <1>4 DEF StopIfIdle, PhaseFields, AllStopped, Marks

(* reset_l leaves the streams and the parameters as they are.              *)
LEMMA ResetDoneShape ==
    ASSUME NEW q \in Player, NEW b
    PROVE  /\ ResetDone(q, b).dec = q.dec /\ ResetDone(q, b).prm = q.prm
           /\ ~ResetDone(q, b).switching
<1> DEFINE n == [q EXCEPT
                  !.parser = "none", !.asked = {},
                  !.player = FALSE, !.dev = NewDevice,
                  !.cas = q.cas /\ q.standalone /\ ~b,
                  !.standalone = q.standalone /\ ~b,
                  !.switching = FALSE]
<1>1. ResetDone(q, b) = SetState(n, "IDLE")
  BY DEF ResetDone
<1>2. PhaseFields(n, n) /\ n.dec = q.dec /\ n.prm = q.prm /\ n.switching = FALSE
  BY DEF PhaseFields, Player
<1> HIDE DEF n
<1>3. PhaseFields(n, SetState(n, "IDLE"))
  BY <1>2, PhaseFieldsParts
<1> QED
  BY <1>1, <1>2, <1>3 DEF PhaseFields

(* A call that ends in resetIfNeeded_l after stop_l.                        *)
LEMMA StoppedPhased ==
    ASSUME NEW q, Good(q), AllStopped(q), ~q.switching, NEW k
    PROVE  /\ q.state \notin {"RUNNING", "PAUSED"} => Phased(q) /\ Phased(CloseParser(q))
           /\ Phased(AfterClose(q, k, {}))
<1>1. q.state \notin {"RUNNING", "PAUSED"} => Phased(q) /\ Phased(CloseParser(q))
  BY DEF Phased, AllStopped, CloseParser, Good, Player
<1>2. ASSUME NEW b \in BOOLEAN PROVE Good(ResetDone(q, b)) /\ Phased(ResetDone(q, b))
                                     /\ ResetDone(q, b).state = "IDLE"
  <2> DEFINE r == ResetDone(q, b)
  <2>1. Good(r) /\ r.state = "IDLE"
    BY ResetDoneGood
  <2>2. r.dec = q.dec /\ ~r.switching
    BY ResetDoneShape DEF Good
  <2> HIDE DEF r
  <2>3. Phased(r)
    BY <2>1, <2>2 DEF Phased, AllStopped
  <2> QED
    BY <2>1, <2>3 DEF r
<1>3. Phased(AfterClose(q, k, {}))
  <2>1. Phased(Restart(ResetDone(q, FALSE), {}))
    BY <1>2, StartPhased, StartVideoPhased DEF Restart
  <2> QED
    BY <1>2, <2>1 DEF AfterClose
<1> QED
  BY <1>1, <1>3

(* The object between two starts of finishPreparingIfNeeded_l.             *)
Mid(q) == Good(q) /\ Phased(q) /\ q.state \in {"PREPARED", "RUNNING"}

LEMMA StartedMid ==
    ASSUME NEW q, Mid(q), NEW r, Good(r), NEW S, NEW st, Starts(q, r, st, S),
           st = "RUNNING" \/ (st = q.state /\ S \cap Stream = {}),
           \A s \in S \cap Stream : Startable(q, s)
    PROVE  Mid(r)
<1>1. CASE st = "RUNNING"
  BY <1>1, StartsPhased DEF Mid, Starts
<1>2. CASE st = q.state /\ S \cap Stream = {}
  BY <1>2 DEF Mid, Starts, Phased, Startable, HasPid, HasCodec
<1> QED
  BY <1>1, <1>2

LEMMA PendingMid ==
    ASSUME NEW q, Mid(q)
    PROVE  /\ Mid(StartPending(q, "VIDEO", StartVideo(q, {})))
           /\ Mid(StartPending(q, "AUDIO", StartAudio(q, {})))
           /\ Mid(StartPending(q, "AD", StartAD(q, {})))
           /\ Mid(StartPending(q, "SUBTITLE", StartSubtitle(q, {})))
<1>1. q \in Player /\ Good(q) /\ q.state \notin {"IDLE", "PREPARING"} /\ q.player
  BY DEF Mid, Good
<1>2. Mid(StartVideo(q, {}))
  <2>1. \A s \in {s \in {"VIDEO"} : HasPid(q, s)} \cap Stream : Startable(q, s)
    BY DEF Startable
  <2> QED
    BY <1>1, <2>1, StartShapes, StartVideoGood, StartedMid
<1>3. Mid(StartAudio(q, {}))
  <2> DEFINE S == {s \in {"AUDIO"} : HasPid(q, s)}
             st == IF HasPid(q, "AUDIO") THEN "RUNNING" ELSE q.state
  <2>1. \A s \in S \cap Stream : Startable(q, s)
    BY DEF Startable
  <2>2. st = "RUNNING" \/ (st = q.state /\ S \cap Stream = {})
    OBVIOUS
  <2>3. Starts(q, StartAudio(q, {}), st, S)
    BY <1>1, StartShapes
  <2> HIDE DEF S, st
  <2> QED
    BY <1>1, <2>1, <2>2, <2>3, StartAudioGood, StartedMid
<1>4. Mid(StartAD(q, {}))
  <2> DEFINE S == {s \in {"AD"} : HasPid(q, s)}
             st == IF HasPid(q, "AD") THEN "RUNNING" ELSE q.state
  <2>1. \A s \in S \cap Stream : Startable(q, s)
    BY DEF Startable
  <2>2. st = "RUNNING" \/ (st = q.state /\ S \cap Stream = {})
    OBVIOUS
  <2>3. Starts(q, StartAD(q, {}), st, S)
    BY <1>1, StartShapes
  <2> HIDE DEF S, st
  <2> QED
    BY <1>1, <2>1, <2>2, <2>3, StartADGood, StartedMid
<1>5. ASSUME q.dec["SUBTITLE"] # "STARTED" PROVE Mid(StartSubtitle(q, {}))
  <2>1. \A s \in {s \in {"SUBTITLE"} : HasCodec(q, s)} \cap Stream : Startable(q, s)
    BY DEF Startable
  <2> QED
    BY <1>1, <1>5, <2>1, StartSubtitleShape, StartSubtitleGood, StartedMid
<1> QED
  BY <1>2, <1>3, <1>4, <1>5 DEF StartPending

LEMMA FinishPhased ==
    ASSUME NEW q \in Player, Phased(q), q.state = "PREPARING" => q.player
    PROVE  Phased(FinishPreparing(q, {}))
<1> DEFINE u == SetState(q, "PREPARED")
           v == StartPending(u, "VIDEO", StartVideo(u, {}))
           a == StartPending(v, "AUDIO", StartAudio(v, {}))
           s == StartPending(a, "SUBTITLE", StartSubtitle(a, {}))
           d == StartPending(s, "AD", StartAD(s, {}))
<1>1. CASE q.state = "PREPARING" /\ q.waiting = {}
  <2>1. FinishPreparing(q, {}) = IF q.last = "PAUSED" THEN Pause(d, {}) ELSE d
    BY <1>1 DEF FinishPreparing
  <2>2. Mid(u)
    <3>1. Good(u) /\ u.state = "PREPARED"
      BY <1>1, SetStateType DEF Good, State
    <3>2. PhaseFields(q, u)
      BY PhaseFieldsParts DEF PhaseFields, Player
    <3> HIDE DEF u
    <3> QED
      BY <1>1, <3>1, <3>2 DEF Mid, Phased, PhaseFields, Startable, HasPid, HasCodec
  <2> HIDE DEF u
  <2>3. Mid(v)
    BY <2>2, PendingMid
  <2> HIDE DEF v
  <2>4. Mid(a)
    BY <2>3, PendingMid
  <2> HIDE DEF a
  <2>5. Mid(s)
    BY <2>4, PendingMid
  <2> HIDE DEF s
  <2>6. Mid(d)
    BY <2>5, PendingMid
  <2> HIDE DEF d
  <2> QED
    BY <2>1, <2>6, PausePhased DEF Mid
<1>2. CASE ~(q.state = "PREPARING" /\ q.waiting = {})
  BY <1>2 DEF FinishPreparing
<1> QED
  BY <1>1, <1>2

LEMMA BecomesAndResetsPhased ==
    ASSUME IInv, NEW t, NEW q, Good(q), AllStopped(q), ~q.switching,
           q.state \notin {"RUNNING", "PAUSED"}, NEW k, BecomesAndResets(t, q, k, {})
    PROVE  Phased(p')
BY StoppedPhased DEF BecomesAndResets, Becomes, GivesUpLock

LEMMA StopAllPhased ==
    ASSUME IInv, NEW t, NEW q, Good(q), Phased(q), q.player, NEW k,
           BecomesAndResets(t, StopAll(q), k, {})
    PROVE  Phased(p')
<1>1. Good(StopAll(q))
  BY StopGood
<1>2. /\ AllStopped(StopAll(q)) /\ ~StopAll(q).switching
      /\ StopAll(q).state \notin {"RUNNING", "PAUSED"}
  BY StopAllShape DEF Good, Marks, AllStopped, Phased
<1> QED
  BY <1>1, <1>2, BecomesAndResetsPhased

LEMMA SwitchPhased ==
    ASSUME IInv, NEW t, NEW q, Good(q), Phased(q), NEW m \in DecodeMode,
           SwitchDecodeMode(t, q, m, {})
    PROVE  Phased(p')
<1> DEFINE r == [q EXCEPT !.mode = m]
<1>1. /\ Good(r) /\ Phased(r) /\ r.state = q.state /\ r.player = q.player
  <2>1. /\ r \in Player /\ r.state = q.state /\ r.player = q.player /\ r.prm = q.prm
        /\ r.parser = q.parser /\ r.waiting = q.waiting /\ r.dec = q.dec
        /\ r.switching = q.switching
    BY DEF Good, Player
  <2> HIDE DEF r
  <2>2. Good(r)
    BY <2>1, SameControl
  <2> QED
    BY <2>1, <2>2 DEF Phased, Startable, HasPid, HasCodec
<1>2. \/ p' = r
      \/ q.state = "RUNNING" /\ BecomesAndResets(t, StopAll(r), "mode", {})
  BY DEF SwitchDecodeMode, Becomes
<1> HIDE DEF r
<1> QED
  BY <1>1, <1>2, StopAllPhased DEF Good

LEMMA PhasedClientStep ==
    ASSUME OneClient, NoFailure, WholePlayerCalls, IInv, Phased(p),
           NEW t \in Client, ClientStep(t)
    PROVE  Phased(p')
<1>1. p \in Player /\ Good(p)
  BY IInvParts DEF Good
<1>2. \A f \in Outcomes : f = {}
  BY DEF NoFailure
<1>3. \A m : Enter(t, m) => m \in {"setParams", "setIptvCASParams", "start", "stop",
                                   "pause", "resume", "flush", "setPlaybackRate"}
  BY DEF Enter, WholePlayerCalls
<1>4. CASE SetParams(t)
  <2>1. PICK s \in Stream : p.dec[s] = "STOPPED" /\ \E v \in Offered[s] :
                                p' = [p EXCEPT !.prm[s] = v]
    BY <1>4 DEF SetParams, Becomes
  <2>2. PICK v \in Offered[s] : p' = [p EXCEPT !.prm[s] = v]
    BY <2>1
  <2>3. /\ p'.state = p.state /\ p'.dec = p.dec /\ p'.switching = p.switching
        /\ \A u \in Stream : u # s => p'.prm[u] = p.prm[u]
    BY <1>1, <2>2 DEF Player
  <2> QED
    BY <2>1, <2>3 DEF Phased, Startable, HasPid, HasCodec
<1>5. CASE SetIptvCASParams(t)
  BY <1>1, <1>5 DEF SetIptvCASParams, Becomes, Player, Phased, Startable, HasPid, HasCodec
<1>6. CASE DoStart(t)
  BY <1>1, <1>2, <1>6, StartPhased DEF DoStart, Becomes
<1>7. CASE DoStop(t)
  BY <1>1, <1>7, StopAllPhased DEF DoStop
<1>8. CASE DoPause(t)
  BY <1>1, <1>2, <1>8, PausePhased DEF DoPause, Becomes
<1>9. CASE DoResume(t)
  BY <1>1, <1>2, <1>9, ResumePhased DEF DoResume, Becomes
<1>10. CASE DoFlush(t)
  BY <1>1, <1>2, <1>10, FlushPhased DEF DoFlush, Becomes
<1>11. CASE SetPlaybackRate(t)
  <2>1. PICK r \in {"zero", "normal", "fast"} :
            \/ p' = Pause(p, {})
            \/ SwitchDecodeMode(t, Resume(p, {}), ModeOfRate(r), {})
    BY <1>2, <1>11 DEF SetPlaybackRate, Becomes
  <2>2. ModeOfRate(r) \in DecodeMode
    BY DEF ModeOfRate, DecodeMode
  <2>3. Good(Resume(p, {})) /\ Phased(Resume(p, {})) /\ Phased(Pause(p, {}))
    BY <1>1, ResumeGood, ResumePhased, PausePhased
  <2> QED
    BY <2>1, <2>2, <2>3, SwitchPhased
<1>12. CASE FinishReset(t)
  <2>1. p.state = "STOPPED" /\ AllStopped(p) /\ ~p.switching
    BY <1>12 DEF FinishReset, LeavesReset, IInv, WindowIsQuiet, AllStopped, Phased
  <2>2. p' = AfterClose(p, pc[t], {})
    BY <1>2, <1>12 DEF FinishReset
  <2> QED
    BY <1>1, <2>1, <2>2, StoppedPhased
<1>13. ~SetCasSession(t) /\ ~DoStartVideo(t) /\ ~DoStartAudio(t) /\ ~DoStartAD(t)
       /\ ~DoStartSubtitle(t) /\ ~DoStopVideo(t) /\ ~DoStopAudio(t) /\ ~DoStopAD(t)
       /\ ~DoStopSubtitle(t) /\ ~DoSwitchAudioTrack(t) /\ ~DoSwitchSubtitleTrack(t)
       /\ ~SetDecodeMode(t)
  BY <1>3 DEF SetCasSession, DoStartVideo, DoStartAudio, DoStartAD, DoStartSubtitle,
     DoStopVideo, DoStopAudio, DoStopAD, DoStopSubtitle, DoSwitchAudioTrack,
     DoSwitchSubtitleTrack, SetDecodeMode
<1> QED
  BY <1>4, <1>5, <1>6, <1>7, <1>8, <1>9, <1>10, <1>11, <1>12, <1>13 DEF ClientStep

LEMMA PhasedParserStep ==
    ASSUME NoFailure, IInv, Phased(p), ParserStep
    PROVE  Phased(p')
<1>1. p \in Player /\ Good(p)
  BY IInvParts DEF Good
<1>2. \A f \in Outcomes : f = {}
  BY DEF NoFailure
<1>3. ASSUME OnProgramParsed PROVE Phased(p')
  <2>1. PICK found \in SUBSET {"VIDEO", "AUDIO"} : p' = ProgramParsed(p, found, {})
    BY <1>2, <1>3 DEF OnProgramParsed
  <2> DEFINE learnt(s) == s \in found /\ p.prm[s] = "nocodec"
             r == [p EXCEPT !.prm = [s \in Stream |->
                                         IF learnt(s) THEN "full" ELSE p.prm[s]],
                            !.waiting = p.waiting \ {"codec"}]
  <2>2. /\ r \in Player /\ r.player = p.player /\ r.state = p.state /\ r.dec = p.dec
        /\ r.switching = p.switching
        /\ \A s \in Stream : r.prm[s] \in {p.prm[s], "full"}
    BY <1>1 DEF Player, Param
  <2>3. p' = FinishPreparing(r, {})
    BY <1>1, <2>1 DEF ProgramParsed, Player
  <2> HIDE DEF r
  <2>4. Phased(r)
    BY <2>2 DEF Phased, Startable, HasPid, HasCodec
  <2> QED
    BY <1>1, <2>2, <2>3, <2>4, FinishPhased DEF Good
<1>4. ASSUME OnEcmDataParsed PROVE Phased(p')
  <2> DEFINE r == [p EXCEPT !.waiting = p.waiting \ {"ecm"}]
  <2>1. /\ r \in Player /\ r.player = p.player /\ r.state = p.state /\ r.dec = p.dec
        /\ r.switching = p.switching /\ r.prm = p.prm
    BY <1>1 DEF Player
  <2>2. p' = FinishPreparing(r, {})
    BY <1>1, <1>2, <1>4 DEF OnEcmDataParsed, EcmDataParsed, Player
  <2> HIDE DEF r
  <2>3. Phased(r)
    BY <2>1 DEF Phased, Startable, HasPid, HasCodec
  <2> QED
    BY <1>1, <2>1, <2>2, <2>3, FinishPhased DEF Good
<1>5. ASSUME NEW w, Finds(w) PROVE Phased(p')
  BY <1>5 DEF Finds
<1> QED
  BY <1>3, <1>4, <1>5 DEF ParserStep

(* A client that calls from one thread and only on the whole player finds   *)
(* no stream running while mState is PAUSED and none held while it is       *)
(* RUNNING, as long as no call into the codec layer fails: the methods that *)
(* set mState and those that set mStreamState agree.                        *)
THEOREM PhaseStaysInStep ==
    ASSUME OneClient, NoFailure, WholePlayerCalls
    PROVE  Spec => []PhaseTellsStreams
<1> DEFINE Inv == Phased(p)
<1>1. Init => Inv
  BY DEF Init, NewPlayer, Phased
<1>2. ASSUME IInv, Inv, [Next]_vars PROVE Inv'
  <2>1. CASE Next
    BY <1>2, <2>1, PhasedClientStep, PhasedParserStep DEF Next, Phased
  <2>2. CASE UNCHANGED vars
    BY <1>2, <2>2 DEF vars, Phased
  <2> QED
    BY <1>2, <2>1, <2>2
<1>3. Inv => PhaseTellsStreams
  BY DEF Phased, PhaseTellsStreams, PausedMeansPaused, RunningMeansResumed
<1> HIDE DEF Inv
<1> QED
  BY <1>1, <1>2, <1>3, InductiveInvariant, PTL DEF Spec

-----------------------------------------------------------------------------
(* The decoding states of video and audio, and what their decoder does.    *)

(* The client plays no audio description, and names the codec of each of   *)
(* its streams.                                                            *)
NoDescription ==
    Calls \cap {"startADDecoding", "stopADDecoding"} = {} /\ Offered["AD"] \subseteq {"none"}
CodecsKnown == \A s \in Stream : "nocodec" \notin Offered[s]

(* A stream with a decoder of its own: whether the codec layer has its     *)
(* parameters, and what its decoder does.                                  *)
Given(d, s) == IF s = "VIDEO" THEN d.videoSet ELSE d.audioSet
Does(d, s) == IF s = "VIDEO" THEN d.video ELSE d.audio

(* What DecodersFollow leans on, of one stream, in an object that is or is *)
(* about to be in the state st.  A stream is up only in an object that is  *)
(* RUNNING or PAUSED, and its decoder has parameters; one that is PAUSED   *)
(* in a RUNNING object (another stream was started since) may run after a  *)
(* flush.                                                                  *)
Tracks(q, s, st) ==
    /\ st \notin {"RUNNING", "PAUSED"} => q.dec[s] \in {"STOPPED", "START_PENDING"}
    /\ st = "PAUSED" => q.dec[s] # "STARTED"
    /\ q.dec[s] = "STARTED" /\ HasCodec(q, s) =>
          Given(q.dev, s) /\ Does(q.dev, s) = "run"
    /\ q.dec[s] = "PAUSED" /\ HasCodec(q, s) =>
          Given(q.dev, s) /\ Does(q.dev, s) \in {"run", "hold"}
    /\ st = "PAUSED" /\ q.dec[s] = "PAUSED" /\ HasCodec(q, s) =>
          Does(q.dev, s) = "hold"

Known(q) ==
    /\ \A s \in Stream : q.prm[s] \in {"none", "full"}
    /\ q.prm["AD"] = "none" /\ q.dec["AD"] \in {"STOPPED", "START_PENDING"}

Followed(q) == Known(q) /\ \A s \in {"VIDEO", "AUDIO"} : Tracks(q, s, q.state)

(* r is q in the state st over the codec layer d, with the streams of S in *)
(* decoding state v.                                                       *)
Shaped(q, r, st, d, S, v) ==
    /\ r.state = st /\ r.prm = q.prm /\ r.dev = d
    /\ \A s \in Stream : r.dec[s] = IF s \in S THEN v ELSE q.dec[s]

LEMMA ShapesOfParts ==
    ASSUME NEW q \in Player, NEW d, NEW S, NEW v, NEW st
    PROVE  /\ Shaped(q, OnDevice(q, d), q.state, d, {}, v)
           /\ Shaped(q, Mark(OnDevice(q, d), S, v), q.state, d, S, v)
           /\ Shaped(q, Mark(SetState(OnDevice(q, d), st), S, v), st, d, S, v)
           /\ Shaped(q, Mark(q, S, v), q.state, q.dev, S, v)
<1> DEFINE Fields == {"state", "last", "dec", "prm", "dev"}
           o == OnDevice(q, d)
           u == SetState(o, st)
<1>1. /\ Shaped(q, o, q.state, d, {}, v) /\ o.dec = q.dec /\ o.prm = q.prm
      /\ Fields \subseteq DOMAIN o /\ Fields \subseteq DOMAIN q
  BY DEF OnDevice, Player, Shaped
<1>2. Shaped(q, Mark(q, S, v), q.state, q.dev, S, v)
  BY <1>1 DEF Mark, Shaped
<1> HIDE DEF o
<1>3. u.state = st /\ u.dec = q.dec /\ u.prm = q.prm /\ u.dev = d /\ Fields \subseteq DOMAIN u
  BY <1>1 DEF SetState, Shaped
<1> HIDE DEF u
<1>4. Shaped(q, Mark(u, S, v), st, d, S, v)
  BY <1>3 DEF Mark, Shaped
<1>5. Shaped(q, Mark(o, S, v), q.state, d, S, v)
  BY <1>1 DEF Mark, Shaped
<1> QED
  BY <1>1, <1>2, <1>4, <1>5 DEF o, u

(* The codec layer e has the parameters and decoder of s that d has.       *)
Kept(d, e, s) == Given(e, s) = Given(d, s) /\ Does(e, s) = Does(d, s)

(* What the methods of the codec layer do to the two decoders.             *)
LEMMA StartsOneDecoder ==
    ASSUME NEW d \in Device, NEW b \in BOOLEAN
    PROVE  /\ LET e == DevStartVideo(DevSetVideoParams(d, b), {})
              IN  Kept(d, e, "AUDIO") /\ Given(e, "VIDEO") = b
                  /\ (b => Does(e, "VIDEO") = "run")
           /\ Kept(d, DevStartVideo(d, {}), "AUDIO")
           /\ LET e == DevStartAudio(DevSetAudioParams(d, b), {})
              IN  Kept(d, e, "VIDEO") /\ Given(e, "AUDIO") = b
                  /\ (b => Does(e, "AUDIO") = "run")
BY DEF Device, Kept, Given, Does, DevStartVideo, DevSetVideoParams, DevStartAudio,
       DevSetAudioParams

LEMMA StartsDecoders ==
    ASSUME NEW d \in Device, NEW s \in {"VIDEO", "AUDIO"}
    PROVE  /\ Given(DevStart(d, {}), s) = Given(d, s)
           /\ Does(DevStart(d, {}), s) = IF Given(d, s) THEN "run" ELSE Does(d, s)
<1> DEFINE v == DevStartVideo(d, {})
           a == IF v.audioSet THEN DevStartAudio(v, {}) ELSE v
<1>1. v \in Device /\ v.audioSet = d.audioSet
  BY DeviceTypes DEF DevStartVideo, Device
<1>2. DevStart(d, {}) = DevStartSubtitle(a, {})
  BY <1>1 DEF DevStart
<1>3. Given(v, s) = Given(d, s) /\ (s = "VIDEO" => Does(v, s) = IF Given(d, s) THEN "run" ELSE Does(d, s))
      /\ (s = "AUDIO" => Does(v, s) = Does(d, s))
  BY DEF DevStartVideo, Device, Given, Does
<1> HIDE DEF v
<1>4. a \in Device /\ Given(a, s) = Given(v, s)
      /\ (s = "VIDEO" => Does(a, s) = Does(v, s))
      /\ (s = "AUDIO" => Does(a, s) = IF Given(v, s) THEN "run" ELSE Does(v, s))
  BY <1>1, DeviceTypes DEF DevStartAudio, Device, Given, Does
<1> HIDE DEF a
<1>5. Kept(a, DevStartSubtitle(a, {}), s)
  BY <1>4 DEF DevStartSubtitle, Device, Kept, Given, Does
<1> QED
  BY <1>2, <1>3, <1>4, <1>5 DEF Kept

LEMMA PausesDecoders ==
    ASSUME NEW d \in Device, NEW s \in {"VIDEO", "AUDIO"}
    PROVE  /\ Given(DevPause(d, {}), s) = Given(d, s)
           /\ Does(DevPause(d, {}), s) = IF Given(d, s) /\ Does(d, s) = "run" THEN "hold"
                                         ELSE Does(d, s)
BY DEF DevPause, DevPauseVideo, DevPauseAudio, Device, Given, Does

LEMMA ResumesOneDecoder ==
    ASSUME NEW d \in Device
    PROVE  /\ Kept(d, DevResumeVideo(d, {}), "AUDIO")
           /\ LET e == DevResumeVideo(d, {})
              IN  Given(e, "VIDEO") = Given(d, "VIDEO")
                  /\ (Does(d, "VIDEO") = "hold" => Does(e, "VIDEO") = "run")
           /\ Kept(d, DevResumeAudio(d, {}), "VIDEO")
           /\ LET e == DevResumeAudio(d, {})
              IN  Given(e, "AUDIO") = Given(d, "AUDIO")
                  /\ (Does(d, "AUDIO") = "hold" => Does(e, "AUDIO") = "run")
BY DEF DevResumeVideo, DevResumeAudio, Device, Kept, Given, Does

LEMMA StopsOneDecoder ==
    ASSUME NEW d \in Device, NEW b \in BOOLEAN
    PROVE  /\ Kept(d, DevStopVideo(d), "AUDIO")
           /\ Kept(d, DevStopAudio(d), "VIDEO")
           /\ Kept(d, DevSetAudioParams(DevStopAudio(d), b), "VIDEO")
BY DEF DevStopVideo, DevStopAudio, DevSetAudioParams, Device, Kept, Given, Does

LEMMA SubtitleKeepsDecoders ==
    ASSUME NEW d \in Device, NEW b \in BOOLEAN, NEW s \in {"VIDEO", "AUDIO"}
    PROVE  /\ Kept(d, DevSetSubtitleParams(d, b), s)
           /\ Kept(d, DevStartSubtitle(d, {}), s)
           /\ Kept(d, DevStopSubtitle(d), s)
BY DEF DevSetSubtitleParams, DevStartSubtitle, DevStopSubtitle, Device, Kept, Given, Does

(* A stream nobody touched, in an object that stays as it is or runs now.  *)
LEMMA UntouchedTracks ==
    ASSUME NEW q, NEW s, NEW st, Tracks(q, s, st), NEW r, r.prm[s] = q.prm[s],
           r.dec[s] = q.dec[s], Kept(q.dev, r.dev, s), NEW su \in {st, "RUNNING"}
    PROVE  Tracks(r, s, su)
BY DEF Tracks, Kept, HasCodec

(* An object with no stream up.                                            *)
LEMMA QuietFollowed ==
    ASSUME NEW q, Known(q),
           \A s \in {"VIDEO", "AUDIO"} : q.dec[s] \in {"STOPPED", "START_PENDING"}
    PROVE  Followed(q)
BY DEF Followed, Tracks

LEMMA PreparedFollowed ==
    ASSUME OneClient, NEW q, Good(q), Followed(q)
    PROVE  LET r == Prepared(q, {})
           IN  Good(r) /\ r \in Player /\ Followed(r) /\ r.state # "IDLE" /\ r.player
<1> DEFINE r == Prepared(q, {})
<1>1. CASE q.state = "IDLE"
  <2>1. PhaseFields(q, r) /\ r.state # "IDLE" /\ Good(r)
    BY <1>1, PreparedGood, PreparedShape DEF Good
  <2> HIDE DEF r
  <2>2. \A s \in Stream : r.dec[s] = "STOPPED"
    BY <1>1, <2>1 DEF Good, AllStopped, PhaseFields
  <2>3. Followed(r)
    BY <2>1, <2>2, QuietFollowed DEF Followed, Known, PhaseFields, Stream
  <2> QED
    BY <2>1, <2>3 DEF Good, r
<1>2. CASE q.state # "IDLE"
  BY <1>2 DEF Prepared, Good
<1> QED
  BY <1>1, <1>2

(* A start that has to wait.                                               *)
LEMMA PendingFollowed ==
    ASSUME NEW q \in Player, Followed(q), q.state = "PREPARING", NEW S
    PROVE  Followed(Deferred(q, S))
<1> DEFINE r == Mark(q, S, "START_PENDING")
<1>1. Deferred(q, S) = r
  BY DEF Deferred
<1>2. Shaped(q, r, q.state, q.dev, S, "START_PENDING")
  BY ShapesOfParts
<1> HIDE DEF r
<1>3. Known(r) /\ \A s \in {"VIDEO", "AUDIO"} : r.dec[s] \in {"STOPPED", "START_PENDING"}
  BY <1>2 DEF Shaped, Followed, Known, Tracks, Stream
<1> QED
  BY <1>1, <1>3, QuietFollowed

(* start...Decoding_l of one of the two streams, in an object that is up.   *)
LEMMA OneStarts ==
    ASSUME NEW q \in Player, q.state \notin {"IDLE", "PREPARING"},
           q.dec["AD"] # "STARTED", \A s \in Stream : q.prm[s] \in {"none", "full"}
    PROVE  /\ LET d == IF HasPid(q, "VIDEO") THEN DevSetVideoParams(q.dev, TRUE) ELSE q.dev
              IN  Shaped(q, StartVideo(q, {}), "RUNNING", DevStartVideo(d, {}),
                         IF HasPid(q, "VIDEO") THEN {"VIDEO"} ELSE {}, "STARTED")
           /\ IF HasPid(q, "AUDIO")
              THEN Shaped(q, StartAudio(q, {}), "RUNNING",
                          DevStartAudio(DevSetAudioParams(q.dev, TRUE), {}), {"AUDIO"}, "STARTED")
              ELSE StartAudio(q, {}) = q
<1>1. Prepared(q, {}) = q /\ ~NotReady(q)
  BY DEF Prepared, NotReady
<1>2. \A s \in {"VIDEO", "AUDIO"} : HasPid(q, s) => HasCodec(q, s) = TRUE
  BY DEF HasPid, HasCodec, Stream
<1>3. LET d == IF HasPid(q, "VIDEO") THEN DevSetVideoParams(q.dev, TRUE) ELSE q.dev
      IN  Shaped(q, StartVideo(q, {}), "RUNNING", DevStartVideo(d, {}),
                 IF HasPid(q, "VIDEO") THEN {"VIDEO"} ELSE {}, "STARTED")
  <2> DEFINE d == IF HasPid(q, "VIDEO") THEN DevSetVideoParams(q.dev, TRUE) ELSE q.dev
             S == IF HasPid(q, "VIDEO") THEN {"VIDEO"} ELSE {}
  <2>1. StartVideo(q, {}) =
            Mark(SetState(OnDevice(q, DevStartVideo(d, {})), "RUNNING"), S, "STARTED")
    BY <1>1, <1>2 DEF StartVideo
  <2> HIDE DEF d, S
  <2>2. Shaped(q, StartVideo(q, {}), "RUNNING", DevStartVideo(d, {}), S, "STARTED")
    BY <2>1, ShapesOfParts
  <2> QED
    BY <2>2 DEF d, S
<1>4. CASE HasPid(q, "AUDIO")
  <2> DEFINE d == DevStartAudio(DevSetAudioParams(q.dev, TRUE), {})
  <2>1. StartAudio(q, {}) = Mark(SetState(OnDevice(q, d), "RUNNING"), {"AUDIO"}, "STARTED")
    BY <1>1, <1>2, <1>4 DEF StartAudio
  <2> HIDE DEF d
  <2>2. Shaped(q, StartAudio(q, {}), "RUNNING", d, {"AUDIO"}, "STARTED")
    BY <2>1, ShapesOfParts
  <2> QED
    BY <1>3, <1>4, <2>2 DEF d
<1>5. CASE ~HasPid(q, "AUDIO")
  <2>1. StartAudio(q, {}) = q
    BY <1>1, <1>5 DEF StartAudio
  <2> QED
    BY <1>3, <1>5, <2>1
<1> QED
  BY <1>4, <1>5

LEMMA StartVideoFollowed ==
    ASSUME OneClient, NEW q0, Good(q0), Followed(q0)
    PROVE  Followed(StartVideo(q0, {}))
<1> DEFINE q == Prepared(q0, {})
<1>1. Good(q) /\ q \in Player /\ Followed(q) /\ q.state # "IDLE"
  BY PreparedFollowed
<1>2. StartVideo(q0, {}) = StartVideo(q, {})
  BY <1>1 DEF StartVideo, Prepared
<1> HIDE DEF q
<1>3. CASE q.state = "PREPARING"
  <2>1. StartVideo(q, {}) = Deferred(q, {"VIDEO"})
    BY <1>3 DEF StartVideo, Prepared, NotReady
  <2> QED
    BY <1>1, <1>2, <1>3, <2>1, PendingFollowed
<1>4. CASE q.state # "PREPARING"
  <2> DEFINE d == IF HasPid(q, "VIDEO") THEN DevSetVideoParams(q.dev, TRUE) ELSE q.dev
             e == DevStartVideo(d, {})
             S == IF HasPid(q, "VIDEO") THEN {"VIDEO"} ELSE {}
             r == StartVideo(q, {})
  <2>1. q.dec["AD"] # "STARTED" /\ q.dev \in Device
    BY <1>1 DEF Followed, Known, Player
  <2>2. Shaped(q, r, "RUNNING", e, S, "STARTED")
    BY <1>1, <1>4, <2>1, OneStarts DEF Followed, Known
  <2>3. /\ Kept(q.dev, e, "AUDIO")
        /\ HasPid(q, "VIDEO") => Given(e, "VIDEO") /\ Does(e, "VIDEO") = "run"
    BY <2>1, StartsOneDecoder
  <2> HIDE DEF e, r, d
  <2>4. Known(r)
    BY <1>1, <2>2 DEF Followed, Known, Shaped, Stream
  <2>5. Tracks(r, "AUDIO", "RUNNING")
    <3>1. r.prm["AUDIO"] = q.prm["AUDIO"] /\ r.dec["AUDIO"] = q.dec["AUDIO"]
          /\ Kept(q.dev, r.dev, "AUDIO")
      BY <2>2, <2>3 DEF Shaped, Stream
    <3> QED
      BY <1>1, <3>1, UntouchedTracks DEF Followed
  <2>6. Tracks(r, "VIDEO", "RUNNING")
    <3>1. CASE HasPid(q, "VIDEO")
      BY <2>2, <2>3, <3>1 DEF Shaped, Stream, Tracks
    <3>2. CASE ~HasPid(q, "VIDEO")
      BY <1>1, <2>2, <3>2 DEF Shaped, Stream, Tracks, HasPid, HasCodec
    <3> QED
      BY <3>1, <3>2
  <2>7. Followed(r)
    BY <2>2, <2>4, <2>5, <2>6 DEF Followed, Shaped
  <2> QED
    BY <1>2, <2>7 DEF r
<1> QED
  BY <1>3, <1>4

(* An object that is RUNNING afterwards, one of whose streams was started.  *)
LEMMA AudioStartsFollowed ==
    ASSUME NEW q \in Player, Known(q), Tracks(q, "VIDEO", "RUNNING"), NEW r,
           Shaped(q, r, "RUNNING", DevStartAudio(DevSetAudioParams(q.dev, TRUE), {}),
                  {"AUDIO"}, "STARTED")
    PROVE  Followed(r)
<1> DEFINE e == DevStartAudio(DevSetAudioParams(q.dev, TRUE), {})
<1>1. Kept(q.dev, e, "VIDEO") /\ Given(e, "AUDIO") /\ Does(e, "AUDIO") = "run"
  BY StartsOneDecoder DEF Player
<1> HIDE DEF e
<1>2. Shaped(q, r, "RUNNING", e, {"AUDIO"}, "STARTED")
  BY DEF e
<1>3. Known(r)
  BY <1>2 DEF Known, Shaped, Stream
<1>4. Tracks(r, "VIDEO", "RUNNING")
  <2>1. r.prm["VIDEO"] = q.prm["VIDEO"] /\ r.dec["VIDEO"] = q.dec["VIDEO"]
        /\ Kept(q.dev, r.dev, "VIDEO")
    BY <1>1, <1>2 DEF Shaped, Stream
  <2> QED
    BY <2>1, UntouchedTracks
<1>5. Tracks(r, "AUDIO", "RUNNING")
  BY <1>1, <1>2 DEF Shaped, Stream, Tracks
<1> QED
  BY <1>2, <1>3, <1>4, <1>5 DEF Followed, Shaped

LEMMA StartAudioFollowed ==
    ASSUME OneClient, NEW q0, Good(q0), Followed(q0)
    PROVE  Followed(StartAudio(q0, {}))
<1> DEFINE q == Prepared(q0, {})
<1>1. Good(q) /\ q \in Player /\ Followed(q) /\ q.state # "IDLE"
  BY PreparedFollowed
<1>2. StartAudio(q0, {}) = StartAudio(q, {})
  BY <1>1 DEF StartAudio, Prepared
<1> HIDE DEF q
<1>3. CASE q.state = "PREPARING"
  <2>1. StartAudio(q, {}) = Deferred(q, {"AUDIO"})
    BY <1>3 DEF StartAudio, Prepared, NotReady
  <2> QED
    BY <1>1, <1>2, <1>3, <2>1, PendingFollowed
<1>4. CASE q.state # "PREPARING"
  <2>1. Known(q) /\ q.dec["AD"] # "STARTED" /\ Tracks(q, "VIDEO", "RUNNING")
    BY <1>1 DEF Followed, Known, Tracks
  <2>2. \/ StartAudio(q, {}) = q
        \/ Shaped(q, StartAudio(q, {}), "RUNNING",
                  DevStartAudio(DevSetAudioParams(q.dev, TRUE), {}), {"AUDIO"}, "STARTED")
    BY <1>1, <1>4, <2>1, OneStarts DEF Known
  <2> QED
    BY <1>1, <1>2, <2>1, <2>2, AudioStartsFollowed
<1> QED
  BY <1>3, <1>4

(* A call that reaches the subtitle alone.                                 *)
LEMMA SubtitleFollowed ==
    ASSUME NEW q, Followed(q), NEW r, NEW st \in {q.state, "RUNNING"}, NEW d,
           NEW S \in SUBSET {"SUBTITLE"}, NEW v, Shaped(q, r, st, d, S, v),
           \A s \in {"VIDEO", "AUDIO"} : Kept(q.dev, d, s)
    PROVE  Followed(r)
<1>1. Known(r)
  BY DEF Followed, Known, Shaped, Stream
<1>2. ASSUME NEW s \in {"VIDEO", "AUDIO"} PROVE Tracks(r, s, st)
  <2>1. r.prm[s] = q.prm[s] /\ r.dec[s] = q.dec[s] /\ Kept(q.dev, r.dev, s)
    BY DEF Shaped, Stream
  <2>2. Tracks(q, s, q.state)
    BY DEF Followed
  <2> QED
    BY <2>1, <2>2, UntouchedTracks
<1> QED
  BY <1>1, <1>2 DEF Followed, Shaped

LEMMA StartSubtitleFollowed ==
    ASSUME OneClient, NEW q0, Good(q0), Followed(q0)
    PROVE  Followed(StartSubtitle(q0, {}))
<1> DEFINE q == Prepared(q0, {})
<1>1. Good(q) /\ q \in Player /\ Followed(q) /\ q.state # "IDLE"
  BY PreparedFollowed
<1> DEFINE d == IF HasCodec(q, "SUBTITLE") THEN DevSetSubtitleParams(q.dev, TRUE) ELSE q.dev
           e == DevStartSubtitle(d, {})
           S == IF HasCodec(q, "SUBTITLE") THEN {"SUBTITLE"} ELSE {}
           r == Mark(SetState(OnDevice(q, e), "RUNNING"), S, "STARTED")
<1>2. \/ StartSubtitle(q0, {}) = q0
      \/ q.state = "PREPARING" /\ StartSubtitle(q0, {}) = Deferred(q, {"SUBTITLE"})
      \/ StartSubtitle(q0, {}) = r
  BY <1>1 DEF StartSubtitle, NotReady
<1>3. ASSUME NEW s \in {"VIDEO", "AUDIO"} PROVE Kept(q.dev, e, s)
  <2>1. q.dev \in Device
    BY <1>1 DEF Player
  <2>2. d \in Device /\ Kept(q.dev, d, s)
    BY <2>1, SubtitleKeepsDecoders, DeviceTypes DEF Kept
  <2> HIDE DEF d
  <2> QED
    BY <2>2, SubtitleKeepsDecoders DEF Kept
<1>4. S \in SUBSET {"SUBTITLE"}
  OBVIOUS
<1> HIDE DEF q, d, e, S
<1>5. Followed(r)
  <2>1. Shaped(q, r, "RUNNING", e, S, "STARTED")
    BY <1>1, ShapesOfParts
  <2> QED
    BY <1>1, <1>3, <1>4, <2>1, SubtitleFollowed
<1> QED
  BY <1>1, <1>2, <1>5, PendingFollowed

LEMMA StartADFollowed ==
    ASSUME NEW q, Followed(q), q.state \notin {"IDLE", "PREPARING"}
    PROVE  StartAD(q, {}) = q
BY DEF StartAD, Prepared, NotReady, Followed, Known, HasPid

LEMMA StartFollowed ==
    ASSUME OneClient, NEW q0, Good(q0), Followed(q0)
    PROVE  Followed(Start(q0, {}))
<1> DEFINE q == Prepared(q0, {})
<1>1. Good(q) /\ q \in Player /\ Followed(q) /\ q.state # "IDLE" /\ q.dev \in Device
  BY PreparedFollowed DEF Player
<1>2. Start(q0, {}) = Start(q, {})
  BY <1>1 DEF Start, Prepared
<1> HIDE DEF q
<1>3. CASE q.state = "PREPARING"
  <2>1. Start(q, {}) = Deferred(q, Stream)
    BY <1>3 DEF Start, Prepared, NotReady
  <2> QED
    BY <1>1, <1>2, <1>3, <2>1, PendingFollowed
<1>4. CASE q.state # "PREPARING"
  <2> DEFINE d == ParametersSet(q)
             e == IF Configured(q) # {} THEN DevStart(d, {}) ELSE d
             S == Configured(q)
             u == Mark(SetState(OnDevice(q, e), "RUNNING"), S, "STARTED")
  <2>1. Start(q, {}) = StartAD(u, {})
    BY <1>1, <1>4 DEF Start, Prepared, NotReady, DevStartFails
  <2>2. Shaped(q, u, "RUNNING", e, S, "STARTED")
    BY <1>1, ShapesOfParts
  <2>3. ASSUME NEW s \in {"VIDEO", "AUDIO"}
        PROVE  /\ s \in S <=> HasPid(q, s)
               /\ HasPid(q, s) => HasCodec(q, s) /\ Given(e, s) /\ Does(e, s) = "run"
    <3>1. s \in S <=> HasPid(q, s)
      BY DEF Configured
    <3>2. HasPid(q, s) => HasCodec(q, s) = TRUE
      BY <1>1 DEF Followed, Known, HasPid, HasCodec, Stream
    <3>3. d \in Device /\ (HasPid(q, s) => Given(d, s))
      <4>1. HasPid(q, s) => Given(d, s)
        BY <1>1, <3>2 DEF ParametersSet, Given, Device
      <4> QED
        BY <1>1, <4>1, ParametersSetType
    <3> HIDE DEF d
    <3>4. HasPid(q, s) => Given(e, s) /\ Does(e, s) = "run"
      BY <3>1, <3>3, StartsDecoders
    <3> QED
      BY <3>1, <3>2, <3>4
  <2>4. "AD" \notin S
    BY DEF Configured
  <2> HIDE DEF u, e, d, S
  <2>5. Known(u)
    BY <1>1, <2>2, <2>4 DEF Followed, Known, Shaped, Stream
  <2>6. ASSUME NEW s \in {"VIDEO", "AUDIO"} PROVE Tracks(u, s, "RUNNING")
    <3>1. CASE HasPid(q, s)
      BY <2>2, <2>3, <3>1 DEF Shaped, Stream, Tracks
    <3>2. CASE ~HasPid(q, s)
      BY <1>1, <2>2, <2>3, <3>2 DEF Shaped, Stream, Tracks, HasPid, HasCodec
    <3> QED
      BY <3>1, <3>2
  <2>7. Followed(u) /\ u.state = "RUNNING"
    BY <2>2, <2>5, <2>6 DEF Followed, Shaped
  <2> QED
    BY <1>2, <2>1, <2>7, StartADFollowed
<1> QED
  BY <1>3, <1>4

LEMMA PauseFollowed ==
    ASSUME NEW q, Good(q), Followed(q)
    PROVE  Followed(Pause(q, {}))
<1> DEFINE e == DevPause(q.dev, {})
           o == OnDevice(q, e)
           S == InState(o, Stream, "STARTED")
           r == Mark(SetState(o, "PAUSED"), S, "PAUSED")
<1>1. Pause(q, {}) = IF q.state = "RUNNING" THEN r ELSE q
  <2>1. ~DevPauseFails(q.dev, {})
    BY DEF DevPauseFails
  <2>2. q.state = "RUNNING" => q.player
    BY DEF Good
  <2> QED
    BY <2>1, <2>2 DEF Pause
<1>2. S = {s \in Stream : q.dec[s] = "STARTED"}
  BY DEF InState, OnDevice, Good, Player
<1>3. Shaped(q, r, "PAUSED", e, S, "PAUSED")
  BY ShapesOfParts DEF Good
<1>4. \A s \in {"VIDEO", "AUDIO"} :
          /\ Given(e, s) = Given(q.dev, s)
          /\ Does(e, s) = IF Given(q.dev, s) /\ Does(q.dev, s) = "run" THEN "hold"
                          ELSE Does(q.dev, s)
  BY PausesDecoders DEF Good, Player
<1> HIDE DEF e, o, S, r
<1>5. ASSUME q.state = "RUNNING" PROVE Followed(r)
  <2>1. Known(r)
    BY <1>2, <1>3 DEF Followed, Known, Shaped, Stream
  <2>2. ASSUME NEW s \in {"VIDEO", "AUDIO"} PROVE Tracks(r, s, "PAUSED")
    <3>1. r.dec[s] = (IF q.dec[s] = "STARTED" THEN "PAUSED" ELSE q.dec[s])
          /\ r.prm[s] = q.prm[s] /\ r.dev = e
      BY <1>2, <1>3 DEF Shaped, Stream
    <3>2. Tracks(q, s, "RUNNING")
      BY <1>5 DEF Followed
    <3> QED
      BY <1>4, <3>1, <3>2 DEF Tracks, HasCodec
  <2> QED
    BY <1>3, <2>1, <2>2 DEF Followed, Shaped
<1> QED
  BY <1>1, <1>5

(* One stream of a PAUSED object is resumed.                                *)
LEMMA ResumesOne ==
    ASSUME NEW q \in Player, Known(q), NEW s \in {"VIDEO", "AUDIO"},
           NEW u \in {"VIDEO", "AUDIO"}, s # u, NEW st, Tracks(q, u, st),
           Tracks(q, s, "PAUSED"), q.dec[s] = "PAUSED",
           NEW r, NEW e, Shaped(q, r, q.state, e, {s}, "STARTED"),
           Kept(q.dev, e, u), Given(e, s) = Given(q.dev, s),
           Does(q.dev, s) = "hold" => Does(e, s) = "run"
    PROVE  Known(r) /\ Tracks(r, u, st) /\ Tracks(r, s, "RUNNING")
<1>1. Known(r)
  BY DEF Known, Shaped, Stream
<1>2. Tracks(r, u, st)
  <2>1. r.prm[u] = q.prm[u] /\ r.dec[u] = q.dec[u] /\ Kept(q.dev, r.dev, u)
    BY DEF Shaped, Stream
  <2> QED
    BY <2>1, UntouchedTracks
<1>3. Tracks(r, s, "RUNNING")
  <2>1. r.prm[s] = q.prm[s] /\ r.dec[s] = "STARTED" /\ r.dev = e
    BY DEF Shaped, Stream
  <2> QED
    BY <2>1 DEF Tracks, HasCodec
<1> QED
  BY <1>1, <1>2, <1>3

LEMMA ResumeFollowed ==
    ASSUME OneClient, NEW q, Good(q), Followed(q)
    PROVE  Followed(Resume(q, {}))
<1> DEFINE v == ResumeVideo(q, {})
           a == ResumeAudio(v, {})
           T == InState(a, {"AD", "SUBTITLE"}, "PAUSED")
           r == Mark(a, T, "STARTED")
<1>1. Resume(q, {}) = IF q.state # "PAUSED" THEN q ELSE SetState(r, "RUNNING")
  BY DEF Resume, ResumeFails, Good
<1>2. CASE q.state = "PAUSED"
  <2>0. q \in Player /\ q.dev \in Device /\ Known(q) /\ Tracks(q, "VIDEO", "PAUSED")
        /\ Tracks(q, "AUDIO", "PAUSED")
    BY <1>2 DEF Good, Player, Followed
  <2>1. /\ Good(v) /\ v \in Player /\ v.state = "PAUSED" /\ Known(v) /\ v.dev \in Device
        /\ Tracks(v, "VIDEO", "RUNNING") /\ Tracks(v, "AUDIO", "PAUSED")
    <3> DEFINE e == DevResumeVideo(q.dev, {})
               o == OnDevice(q, e)
               m == Mark(o, {"VIDEO"}, "STARTED")
    <3>1. v = IF q.dec["VIDEO"] = "PAUSED" THEN m ELSE q
      BY DEF ResumeVideo
    <3>2. Good(m) /\ m.state = "PAUSED"
      <4>1. e \in Device
        BY <2>0, DeviceTypes
      <4> HIDE DEF e
      <4>2. Good(o) /\ o.state = "PAUSED"
        BY <1>2, <4>1, OnDeviceGood
      <4> HIDE DEF o
      <4> QED
        BY <4>2, MarkGood DEF DecodingState
    <3>3. Shaped(q, m, q.state, e, {"VIDEO"}, "STARTED")
      BY <2>0, ShapesOfParts
    <3>4. /\ Kept(q.dev, e, "AUDIO") /\ Given(e, "VIDEO") = Given(q.dev, "VIDEO")
          /\ Does(q.dev, "VIDEO") = "hold" => Does(e, "VIDEO") = "run"
      BY <2>0, ResumesOneDecoder
    <3> HIDE DEF m, e, v
    <3>5. ASSUME q.dec["VIDEO"] = "PAUSED"
          PROVE  Known(m) /\ Tracks(m, "VIDEO", "RUNNING") /\ Tracks(m, "AUDIO", "PAUSED")
      BY <2>0, <3>3, <3>4, <3>5, ResumesOne
    <3>6. ASSUME q.dec["VIDEO"] # "PAUSED" PROVE Tracks(q, "VIDEO", "RUNNING")
      BY <2>0, <3>6 DEF Tracks
    <3> QED
      BY <1>2, <2>0, <3>1, <3>2, <3>5, <3>6 DEF Good, Player
  <2> HIDE DEF v
  <2>2. /\ Good(a) /\ a \in Player /\ a.state \in {"PAUSED", "RUNNING"} /\ Known(a)
        /\ Tracks(a, "VIDEO", "RUNNING") /\ Tracks(a, "AUDIO", "RUNNING")
    <3> DEFINE e == DevResumeAudio(v.dev, {})
               o == OnDevice(v, e)
               m == Mark(o, {"AUDIO"}, "STARTED")
    <3>1. \/ v.dec["AUDIO"] = "PAUSED" /\ a = m
          \/ v.dec["AUDIO"] # "PAUSED" /\ a = StartAudio(v, {})
          \/ v.dec["AUDIO"] # "PAUSED" /\ a = v
      BY DEF ResumeAudio
    <3>2. Good(m) /\ m.state = "PAUSED"
      <4>1. e \in Device
        BY <2>1, DeviceTypes
      <4> HIDE DEF e
      <4>2. Good(o) /\ o.state = "PAUSED"
        BY <2>1, <4>1, OnDeviceGood
      <4> HIDE DEF o
      <4> QED
        BY <4>2, MarkGood DEF DecodingState
    <3>3. Shaped(v, m, v.state, e, {"AUDIO"}, "STARTED")
      BY <2>1, ShapesOfParts
    <3>4. /\ Kept(v.dev, e, "VIDEO") /\ Given(e, "AUDIO") = Given(v.dev, "AUDIO")
          /\ Does(v.dev, "AUDIO") = "hold" => Does(e, "AUDIO") = "run"
      BY <2>1, ResumesOneDecoder
    <3> HIDE DEF m, e, a
    <3>5. CASE v.dec["AUDIO"] = "PAUSED" /\ a = m
      <4>1. Known(m) /\ Tracks(m, "VIDEO", "RUNNING") /\ Tracks(m, "AUDIO", "RUNNING")
        BY <2>1, <3>3, <3>4, <3>5, ResumesOne
      <4> QED
        BY <3>2, <3>5, <4>1 DEF Good
    <3>6. ASSUME v.dec["AUDIO"] # "PAUSED" PROVE Tracks(v, "AUDIO", "RUNNING")
      BY <2>1, <3>6 DEF Tracks
    <3>7. CASE v.dec["AUDIO"] # "PAUSED" /\ a = v
      BY <2>1, <3>6, <3>7
    <3>8. CASE v.dec["AUDIO"] # "PAUSED" /\ a = StartAudio(v, {})
      <4>1. Good(a)
        BY <2>1, <3>8, StartAudioGood
      <4>2. a = v \/ Shaped(v, a, "RUNNING", DevStartAudio(DevSetAudioParams(v.dev, TRUE), {}),
                            {"AUDIO"}, "STARTED")
        BY <2>1, <3>8, OneStarts DEF Known
      <4>3. CASE a = v
        BY <2>1, <3>6, <3>8, <4>3
      <4>4. CASE Shaped(v, a, "RUNNING", DevStartAudio(DevSetAudioParams(v.dev, TRUE), {}),
                        {"AUDIO"}, "STARTED")
        <5>1. Followed(a) /\ a.state = "RUNNING"
          BY <2>1, <4>4, AudioStartsFollowed DEF Shaped
        <5> QED
          BY <4>1, <5>1 DEF Followed, Good
      <4> QED
        BY <4>2, <4>3, <4>4
    <3> QED
      BY <3>1, <3>5, <3>7, <3>8
  <2>3. T \in SUBSET {"SUBTITLE"}
    BY <2>2 DEF InState, Known
  <2> HIDE DEF a, T
  <2>4. Good(r) /\ Shaped(a, r, a.state, a.dev, T, "STARTED")
    <3>1. Good(r)
      BY <2>2, MarkGood DEF DecodingState
    <3> QED
      BY <2>2, <3>1, ShapesOfParts
  <2> HIDE DEF r
  <2> DEFINE w == SetState(r, "RUNNING")
  <2>5. w.state = "RUNNING" /\ w.dec = r.dec /\ w.dev = r.dev /\ w.prm = r.prm
    BY <2>4 DEF SetState, Good, Player
  <2> HIDE DEF w
  <2>6. Known(w)
    BY <2>2, <2>3, <2>4, <2>5 DEF Known, Shaped, Stream
  <2>7. ASSUME NEW s \in {"VIDEO", "AUDIO"} PROVE Tracks(w, s, "RUNNING")
    <3>1. w.prm[s] = a.prm[s] /\ w.dec[s] = a.dec[s] /\ Kept(a.dev, w.dev, s)
      BY <2>3, <2>4, <2>5 DEF Shaped, Stream, Kept
    <3> QED
      BY <2>2, <3>1, UntouchedTracks
  <2>8. Followed(w)
    BY <2>5, <2>6, <2>7 DEF Followed
  <2> QED
    BY <1>1, <1>2, <2>8 DEF w
<1> QED
  BY <1>1, <1>2

LEMMA FlushFollowed ==
    ASSUME NEW q, Good(q), Followed(q)
    PROVE  Followed(Flush(q, {}))
<1> DEFINE d == Refreshed(q)
           o == OnDevice(q, d)
           m == Mark(SetState(WaitFor(o, {"ecm"}), "PREPARING"), Stream, "START_PENDING")
           e == IF q.state = "PAUSED" THEN DevPause(DevStart(d, {}), {}) ELSE DevStart(d, {})
           r == OnDevice(q, e)
<1>1. q \in Player /\ d \in Device
  BY RefreshedType DEF Good
<1>2. PhaseFields(q, o) /\ o.state = q.state /\ o.dev = d /\ \A c : OnDevice(o, c) = OnDevice(q, c)
  BY <1>1, OnDeviceShape DEF OnDevice, Player
<1>3. \/ Flush(q, {}) = q
      \/ q.state \in {"RUNNING", "PAUSED"} /\ Flush(q, {}) = m
      \/ q.state \in {"RUNNING", "PAUSED"} /\ Flush(q, {}) = r
  BY <1>2 DEF Flush
<1>4. Followed(m)
  <2>2. Marks(q, m, "PREPARING", Stream, "START_PENDING")
    BY <1>2, FlushWaits
  <2> HIDE DEF m
  <2>3. Known(m) /\ \A s \in {"VIDEO", "AUDIO"} : m.dec[s] = "START_PENDING"
    BY <2>2 DEF Marks, Followed, Known, Stream
  <2> QED
    BY <2>3, QuietFollowed
<1>5. ASSUME q.state \in {"RUNNING", "PAUSED"} PROVE Followed(r)
  <2>1. Shaped(q, r, q.state, e, {}, "STARTED")
    BY <1>1, ShapesOfParts
  <2>2. ASSUME NEW s \in {"VIDEO", "AUDIO"}, q.dec[s] \in {"STARTED", "PAUSED"}, HasCodec(q, s)
        PROVE  Given(e, s) /\ Does(e, s) = IF q.state = "PAUSED" THEN "hold" ELSE "run"
    <3>1. Given(d, s)
      BY <1>1, <2>2 DEF Refreshed, Given, DevStop, Device, Player
    <3> HIDE DEF d
    <3>2. Given(DevStart(d, {}), s) /\ Does(DevStart(d, {}), s) = "run" /\ DevStart(d, {}) \in Device
      BY <1>1, <3>1, StartsDecoders, WholeDeviceTypes
    <3> QED
      BY <3>2, PausesDecoders
  <2> HIDE DEF r, e
  <2>3. Known(r)
    BY <2>1 DEF Followed, Known, Shaped, Stream
  <2>4. ASSUME NEW s \in {"VIDEO", "AUDIO"} PROVE Tracks(r, s, q.state)
    <3>1. r.prm[s] = q.prm[s] /\ r.dec[s] = q.dec[s] /\ r.dev = e /\ Tracks(q, s, q.state)
      BY <2>1 DEF Shaped, Stream, Followed
    <3> QED
      BY <1>5, <2>2, <3>1 DEF Tracks, HasCodec
  <2> QED
    BY <2>1, <2>3, <2>4 DEF Followed, Shaped
<1> HIDE DEF m, r
<1> QED
  BY <1>3, <1>4, <1>5

(* resetIfNeeded_l up to reset_l.                                          *)
LEMMA StopIfIdleFollowed ==
    ASSUME NEW q \in Player, Followed(q)
    PROVE  Followed(StopIfIdle(q))
<1> DEFINE u == SetState(q, "STOPPED")
<1>1. StopIfIdle(q) = IF \A s \in Stream : q.dec[s] = "STOPPED" THEN u ELSE q
  BY DEF StopIfIdle
<1>2. u.dec = q.dec /\ u.prm = q.prm
  BY DEF SetState, Player
<1> HIDE DEF u
<1>3. ASSUME \A s \in Stream : q.dec[s] = "STOPPED" PROVE Followed(u)
  <2>1. Known(u) /\ \A s \in {"VIDEO", "AUDIO"} : u.dec[s] = "STOPPED"
    BY <1>2, <1>3 DEF Followed, Known, Stream
  <2> QED
    BY <2>1, QuietFollowed
<1> QED
  BY <1>1, <1>3

(* A stream is stopped, the other is let be.                               *)
LEMMA OneStops ==
    ASSUME NEW q, Followed(q), NEW s \in {"VIDEO", "AUDIO"}, NEW u \in {"VIDEO", "AUDIO"},
           s # u, NEW r, NEW e, Shaped(q, r, q.state, e, {s}, "STOPPED"), Kept(q.dev, e, u)
    PROVE  Followed(r)
<1>1. Known(r)
  BY DEF Followed, Known, Shaped, Stream
<1>2. Tracks(r, u, q.state)
  <2>1. r.prm[u] = q.prm[u] /\ r.dec[u] = q.dec[u] /\ Kept(q.dev, r.dev, u)
    BY DEF Shaped, Stream
  <2> QED
    BY <2>1, UntouchedTracks DEF Followed
<1>3. Tracks(r, s, q.state)
  BY DEF Shaped, Stream, Tracks
<1>4. \A x \in {"VIDEO", "AUDIO"} : x = s \/ x = u
  OBVIOUS
<1> QED
  BY <1>1, <1>2, <1>3, <1>4 DEF Followed, Shaped

LEMMA StopsFollowed ==
    ASSUME NEW q, Good(q), Followed(q), q.player
    PROVE  /\ Followed(StopAll(q)) /\ Followed(StopVideo(q)) /\ Followed(StopAudio(q, {}))
           /\ Followed(StopSubtitle(q))
<1>0. q \in Player /\ q.dev \in Device
  BY DEF Good, Player
<1>1. Followed(StopAll(q))
  <2>1. Marks(q, StopAll(q), "STOPPED", Stream, "STOPPED")
    BY <1>0, StopAllShape
  <2>2. Known(StopAll(q)) /\ \A s \in {"VIDEO", "AUDIO"} : StopAll(q).dec[s] = "STOPPED"
    BY <2>1 DEF Marks, Followed, Known, Stream
  <2> QED
    BY <2>2, QuietFollowed
<1>2. ASSUME NEW e, NEW S, e \in Device PROVE
        LET m == Mark(IF Active(q) THEN OnDevice(q, e) ELSE q, S, "STOPPED")
        IN  /\ Shaped(q, m, q.state, IF Active(q) THEN e ELSE q.dev, S, "STOPPED")
            /\ m \in Player
  <2>1. CASE Active(q)
    <3>1. Good(OnDevice(q, e))
      BY <1>2, OnDeviceGood
    <3> QED
      BY <1>0, <2>1, <3>1, ShapesOfParts, MarkGood DEF Good, DecodingState
  <2>2. CASE ~Active(q)
    BY <1>0, <2>2, ShapesOfParts, MarkGood DEF Good, DecodingState
  <2> QED
    BY <2>1, <2>2
<1>3. Followed(StopVideo(q))
  <2> DEFINE e == DevStopVideo(q.dev)
             m == Mark(IF Active(q) THEN OnDevice(q, e) ELSE q, {"VIDEO"}, "STOPPED")
  <2>1. e \in Device /\ Kept(q.dev, IF Active(q) THEN e ELSE q.dev, "AUDIO")
    BY <1>0, DeviceTypes, StopsOneDecoder DEF Kept
  <2>2. StopVideo(q) = StopIfIdle(m)
    BY DEF StopVideo
  <2> HIDE DEF e
  <2>3. Shaped(q, m, q.state, IF Active(q) THEN e ELSE q.dev, {"VIDEO"}, "STOPPED") /\ m \in Player
    BY <1>2, <2>1
  <2> HIDE DEF m
  <2> QED
    BY <2>1, <2>2, <2>3, OneStops, StopIfIdleFollowed
<1>4. Followed(StopAudio(q, {}))
  <2> DEFINE e == DevSetAudioParams(DevStopAudio(q.dev), FALSE)
             m == Mark(IF Active(q) THEN OnDevice(q, e) ELSE q, {"AUDIO"}, "STOPPED")
             r == [m EXCEPT !.switching = FALSE]
  <2>1. e \in Device /\ Kept(q.dev, IF Active(q) THEN e ELSE q.dev, "VIDEO")
    BY <1>0, DeviceTypes, StopsOneDecoder DEF Kept
  <2>2. StopAudio(q, {}) = StopIfIdle(r)
    BY DEF StopAudio, Followed, Known
  <2> HIDE DEF e
  <2>3. Shaped(q, m, q.state, IF Active(q) THEN e ELSE q.dev, {"AUDIO"}, "STOPPED") /\ m \in Player
    BY <1>2, <2>1
  <2> HIDE DEF m
  <2>4. Shaped(q, r, q.state, IF Active(q) THEN e ELSE q.dev, {"AUDIO"}, "STOPPED") /\ r \in Player
    BY <2>3 DEF Player, Shaped
  <2> HIDE DEF r
  <2> QED
    BY <2>1, <2>2, <2>4, OneStops, StopIfIdleFollowed
<1>5. Followed(StopSubtitle(q))
  <2> DEFINE e == DevStopSubtitle(q.dev)
             m == Mark(IF Active(q) THEN OnDevice(q, e) ELSE q, {"SUBTITLE"}, "STOPPED")
  <2>1. e \in Device /\ \A s \in {"VIDEO", "AUDIO"} : Kept(q.dev, IF Active(q) THEN e ELSE q.dev, s)
    BY <1>0, DeviceTypes, SubtitleKeepsDecoders DEF Kept
  <2>2. StopSubtitle(q) = StopIfIdle(m)
    BY DEF StopSubtitle
  <2> HIDE DEF e
  <2>3. Shaped(q, m, q.state, IF Active(q) THEN e ELSE q.dev, {"SUBTITLE"}, "STOPPED") /\ m \in Player
    BY <1>2, <2>1
  <2> HIDE DEF m
  <2>4. Followed(m)
    BY <2>1, <2>3, SubtitleFollowed
  <2> QED
    BY <2>2, <2>3, <2>4, StopIfIdleFollowed
<1> QED
  BY <1>1, <1>3, <1>4, <1>5

LEMMA SwitchAudioTrackFollowed ==
    ASSUME OneClient, NEW q0, Good(q0), Followed(q0), NEW v \in {"none", "full"}
    PROVE  Followed(SwitchAudioTrack(q0, v, {}))
<1> DEFINE q == [q0 EXCEPT !.prm["AUDIO"] = v]
           e == DevStopAudio(q.dev)
           o == OnDevice(q, e)
           r == Mark(o, {"AUDIO"}, "STOPPED")
           w == [r EXCEPT !.switching = TRUE]
<1>1. SwitchAudioTrack(q0, v, {}) =
          IF ~Active(q) \/ ~q.player THEN q
          ELSE IF q.state = "RUNNING" THEN StartAudio(r, {}) ELSE w
  BY DEF SwitchAudioTrack
<1>2. /\ q \in Player /\ q.dev = q0.dev /\ q.state = q0.state /\ q.player = q0.player
      /\ q.parser = q0.parser /\ q.waiting = q0.waiting /\ q.dec = q0.dec
      /\ q.prm["AUDIO"] = v /\ \A s \in Stream : s # "AUDIO" => q.prm[s] = q0.prm[s]
  BY DEF Good, Player, Param, Stream
<1> HIDE DEF q
<1>3. Good(q) /\ Known(q)
  <2>1. Good(q)
    BY <1>2, SameControl
  <2> QED
    BY <1>2, <2>1 DEF Followed, Known, Stream
<1>4. CASE ~Active(q) \/ ~q.player
  <2>1. \A s \in {"VIDEO", "AUDIO"} : q.dec[s] \in {"STOPPED", "START_PENDING"}
    BY <1>2, <1>3, <1>4 DEF Followed, Tracks, Active, Good
  <2> QED
    BY <1>1, <1>3, <1>4, <2>1, QuietFollowed
<1>5. CASE Active(q) /\ q.player
  <2>1. e \in Device /\ Kept(q.dev, e, "VIDEO")
    BY <1>2, DeviceTypes, StopsOneDecoder DEF Player
  <2>2. Shaped(q, r, q.state, e, {"AUDIO"}, "STOPPED")
    BY <1>2, ShapesOfParts
  <2> HIDE DEF e
  <2>3. Good(r) /\ r \in Player
    <3>1. Good(o)
      BY <1>3, <2>1, OnDeviceGood
    <3> HIDE DEF o
    <3> QED
      BY <3>1, MarkGood DEF DecodingState, Good
  <2> HIDE DEF r
  <2>4. Known(r)
    BY <1>3, <2>2 DEF Known, Shaped, Stream
  <2>5. Tracks(r, "VIDEO", q.state)
    <3>1. /\ r.prm["VIDEO"] = q0.prm["VIDEO"] /\ r.dec["VIDEO"] = q0.dec["VIDEO"]
          /\ Kept(q0.dev, r.dev, "VIDEO")
      BY <1>2, <2>1, <2>2 DEF Shaped, Stream
    <3> QED
      BY <1>2, <3>1, UntouchedTracks DEF Followed
  <2>6. Tracks(r, "AUDIO", q.state)
    BY <2>2 DEF Shaped, Stream, Tracks
  <2>7. Followed(r)
    BY <2>2, <2>4, <2>5, <2>6 DEF Followed, Shaped
  <2>8. Followed(w)
    <3>1. w.state = r.state /\ w.prm = r.prm /\ w.dec = r.dec /\ w.dev = r.dev
      BY <2>3 DEF Player
    <3> HIDE DEF w
    <3> QED
      BY <2>7, <3>1 DEF Followed, Known, Tracks, HasCodec
  <2> HIDE DEF w
  <2> QED
    BY <1>1, <1>5, <2>3, <2>7, <2>8, StartAudioFollowed
<1> QED
  BY <1>4, <1>5

LEMMA SwitchSubtitleTrackFollowed ==
    ASSUME NEW q0, Good(q0), Followed(q0), NEW v \in {"none", "full"}
    PROVE  Followed(SwitchSubtitleTrack(q0, v, {}))
<1> DEFINE q == [q0 EXCEPT !.prm["SUBTITLE"] = v]
           e == DevSwitchSubtitle(q.dev, v = "full", {})
           S == IF v = "full" THEN {"SUBTITLE"} ELSE {}
           r == Mark(OnDevice(q, e), S, "STARTED")
<1>1. SwitchSubtitleTrack(q0, v, {}) = IF ~Active(q) \/ ~q.player THEN q ELSE r
  BY DEF SwitchSubtitleTrack
<1>2. /\ q \in Player /\ q.dev = q0.dev /\ q.state = q0.state /\ q.dec = q0.dec
      /\ q.prm["SUBTITLE"] = v /\ \A s \in Stream : s # "SUBTITLE" => q.prm[s] = q0.prm[s]
  BY DEF Good, Player, Param, Stream
<1> HIDE DEF q
<1>3. Followed(q)
  <2>1. Known(q)
    BY <1>2 DEF Followed, Known, Stream
  <2>2. \A s \in {"VIDEO", "AUDIO"} : Tracks(q, s, q.state)
    BY <1>2 DEF Followed, Tracks, HasCodec, Stream
  <2> QED
    BY <2>1, <2>2 DEF Followed
<1>4. \A s \in {"VIDEO", "AUDIO"} : Kept(q.dev, e, s)
  <2> SUFFICES ASSUME NEW s \in {"VIDEO", "AUDIO"} PROVE Kept(q.dev, e, s)
    OBVIOUS
  <2> DEFINE a == DevStopSubtitle(q.dev)
             b == DevSetSubtitleParams(a, v = "full")
  <2>1. a \in Device /\ Kept(q.dev, a, s)
    BY <1>2, DeviceTypes, SubtitleKeepsDecoders DEF Player
  <2>2. e = DevStartSubtitle(b, {})
    BY DEF DevSwitchSubtitle
  <2> HIDE DEF a, e
  <2>3. b \in Device /\ Kept(a, b, s)
    BY <2>1, DeviceTypes, SubtitleKeepsDecoders
  <2> HIDE DEF b
  <2> QED
    BY <2>1, <2>2, <2>3, SubtitleKeepsDecoders DEF Kept
<1>5. Shaped(q, r, q.state, e, S, "STARTED") /\ S \in SUBSET {"SUBTITLE"}
  BY <1>2, ShapesOfParts
<1> HIDE DEF r, e, S
<1> QED
  BY <1>1, <1>3, <1>4, <1>5, SubtitleFollowed

(* reset_l, and the start that switchDecodeMode_l adds.                    *)
LEMMA AfterCloseFollowed ==
    ASSUME OneClient, NEW q, Good(q), AllStopped(q), Known(q), NEW k
    PROVE  Followed(AfterClose(q, k, {}))
<1>1. ASSUME NEW b \in BOOLEAN PROVE Good(ResetDone(q, b)) /\ Followed(ResetDone(q, b))
  <2> DEFINE r == ResetDone(q, b)
  <2>1. Good(r)
    BY ResetDoneGood
  <2>2. r.dec = q.dec /\ r.prm = q.prm
    BY ResetDoneShape DEF Good
  <2> HIDE DEF r
  <2>3. Known(r) /\ \A s \in {"VIDEO", "AUDIO"} : r.dec[s] = "STOPPED"
    BY <2>2 DEF Known, AllStopped, Stream
  <2>4. Followed(r)
    BY <2>3, QuietFollowed
  <2> QED
    BY <2>1, <2>4 DEF r
<1>2. Followed(Restart(ResetDone(q, FALSE), {}))
  BY <1>1, StartFollowed, StartVideoFollowed DEF Restart
<1> QED
  BY <1>1, <1>2 DEF AfterClose

LEMMA BecomesAndResetsFollowed ==
    ASSUME OneClient, NEW t, NEW q, Good(q), Followed(q), NEW k,
           BecomesAndResets(t, q, k, {})
    PROVE  Followed(p')
<1>1. CASE q.state # "STOPPED"
  BY <1>1 DEF BecomesAndResets, Becomes
<1>2. CASE q.state = "STOPPED"
  <2>1. AllStopped(q) /\ Known(q)
    BY <1>2 DEF Good, Followed
  <2>2. Followed(CloseParser(q))
    <3>1. CloseParser(q).dec = q.dec /\ CloseParser(q).prm = q.prm
      BY DEF CloseParser, Good, Player
    <3>2. Known(CloseParser(q)) /\ \A s \in {"VIDEO", "AUDIO"} : CloseParser(q).dec[s] = "STOPPED"
      BY <2>1, <3>1 DEF Known, AllStopped, Stream
    <3> QED
      BY <3>2, QuietFollowed
  <2>3. Followed(AfterClose(q, k, {}))
    BY <2>1, AfterCloseFollowed
  <2> QED
    BY <1>2, <2>2, <2>3 DEF BecomesAndResets, Becomes, GivesUpLock
<1> QED
  BY <1>1, <1>2

LEMMA SwitchModeFollowed ==
    ASSUME OneClient, NEW t, NEW q, Good(q), Followed(q), NEW m \in DecodeMode,
           SwitchDecodeMode(t, q, m, {})
    PROVE  Followed(p')
<1> DEFINE r == [q EXCEPT !.mode = m]
<1>1. Good(r) /\ Followed(r) /\ r.state = q.state
  <2>1. /\ r \in Player /\ r.state = q.state /\ r.player = q.player /\ r.prm = q.prm
        /\ r.parser = q.parser /\ r.waiting = q.waiting /\ r.dec = q.dec /\ r.dev = q.dev
    BY DEF Good, Player
  <2> HIDE DEF r
  <2>2. Good(r)
    BY <2>1, SameControl
  <2> QED
    BY <2>1, <2>2 DEF Followed, Known, Tracks, HasCodec
<1>2. \/ p' = r
      \/ q.state = "RUNNING" /\ BecomesAndResets(t, StopAll(r), "mode", {})
  BY DEF SwitchDecodeMode, Becomes
<1> HIDE DEF r
<1>3. CASE p' = r
  BY <1>1, <1>3
<1>4. CASE q.state = "RUNNING" /\ BecomesAndResets(t, StopAll(r), "mode", {})
  <2>1. r.player
    BY <1>1, <1>4 DEF Good
  <2> QED
    BY <1>1, <1>4, <2>1, StopGood, StopsFollowed, BecomesAndResetsFollowed
<1> QED
  BY <1>2, <1>3, <1>4

(* The object between two starts of finishPreparingIfNeeded_l.             *)
Underway(q) == Good(q) /\ Followed(q) /\ q.state \in {"PREPARED", "RUNNING"}

LEMMA PendingUnderway ==
    ASSUME OneClient, NEW q, Underway(q)
    PROVE  /\ Underway(StartPending(q, "VIDEO", StartVideo(q, {})))
           /\ Underway(StartPending(q, "AUDIO", StartAudio(q, {})))
           /\ Underway(StartPending(q, "AD", StartAD(q, {})))
           /\ Underway(StartPending(q, "SUBTITLE", StartSubtitle(q, {})))
<1>1. q \in Player /\ Good(q) /\ Followed(q) /\ q.state \notin {"IDLE", "PREPARING"} /\ q.player
  BY DEF Underway, Good
<1>2. StartVideo(q, {}).state = "RUNNING" /\ StartAudio(q, {}).state \in {q.state, "RUNNING"}
  BY <1>1, StartShapes DEF Starts
<1>3. q.dec["SUBTITLE"] # "STARTED" => StartSubtitle(q, {}).state = "RUNNING"
  BY <1>1, StartSubtitleShape DEF Starts
<1>4. Good(StartVideo(q, {})) /\ Good(StartAudio(q, {})) /\ Good(StartSubtitle(q, {}))
  BY <1>1, StartVideoGood, StartAudioGood, StartSubtitleGood
<1>5. Followed(StartVideo(q, {})) /\ Followed(StartAudio(q, {})) /\ Followed(StartSubtitle(q, {}))
  BY <1>1, StartVideoFollowed, StartAudioFollowed, StartSubtitleFollowed
<1>6. StartAD(q, {}) = q
  BY <1>1, StartADFollowed
<1> QED
  BY <1>2, <1>3, <1>4, <1>5, <1>6 DEF StartPending, Underway

LEMMA FinishFollowed ==
    ASSUME OneClient, NEW q \in Player, Followed(q), q.state = "PREPARING" => q.player
    PROVE  Followed(FinishPreparing(q, {}))
<1> DEFINE u == SetState(q, "PREPARED")
           v == StartPending(u, "VIDEO", StartVideo(u, {}))
           a == StartPending(v, "AUDIO", StartAudio(v, {}))
           s == StartPending(a, "SUBTITLE", StartSubtitle(a, {}))
           d == StartPending(s, "AD", StartAD(s, {}))
<1>1. CASE q.state = "PREPARING" /\ q.waiting = {}
  <2>1. FinishPreparing(q, {}) = IF q.last = "PAUSED" THEN Pause(d, {}) ELSE d
    BY <1>1 DEF FinishPreparing
  <2>2. Underway(u)
    <3>1. Good(u) /\ u.state = "PREPARED" /\ u.dec = q.dec
      BY <1>1, SetStateType DEF Good, State
    <3>2. u.prm = q.prm
      BY PhaseFieldsParts DEF PhaseFields, Player
    <3> HIDE DEF u
    <3>3. Known(u) /\ \A x \in {"VIDEO", "AUDIO"} : u.dec[x] \in {"STOPPED", "START_PENDING"}
      BY <1>1, <3>1, <3>2 DEF Followed, Known, Tracks
    <3> QED
      BY <3>1, <3>3, QuietFollowed DEF Underway
  <2> HIDE DEF u
  <2>3. Underway(v)
    BY <2>2, PendingUnderway
  <2> HIDE DEF v
  <2>4. Underway(a)
    BY <2>3, PendingUnderway
  <2> HIDE DEF a
  <2>5. Underway(s)
    BY <2>4, PendingUnderway
  <2> HIDE DEF s
  <2>6. Underway(d)
    BY <2>5, PendingUnderway
  <2> HIDE DEF d
  <2> QED
    BY <2>1, <2>6, PauseFollowed DEF Underway
<1>2. CASE ~(q.state = "PREPARING" /\ q.waiting = {})
  BY <1>2 DEF FinishPreparing
<1> QED
  BY <1>1, <1>2

LEMMA FollowedClientStep ==
    ASSUME OneClient, NoFailure, NoDescription, CodecsKnown, IInv, Followed(p),
           NEW t \in Client, ClientStep(t)
    PROVE  Followed(p')
<1>1. p \in Player /\ Good(p)
  BY IInvParts DEF Good
<1>2. \A f \in Outcomes : f = {}
  BY DEF NoFailure
<1>3. \A s \in Stream : Offered[s] \subseteq {"none", "full"}
  BY ClientAssumption DEF CodecsKnown, Param
<1>4. ~DoStartAD(t) /\ ~DoStopAD(t)
  BY DEF DoStartAD, DoStopAD, Enter, NoDescription
<1>5. ASSUME NEW q, q \in Player, q.state = p.state, q.dec = p.dec, q.dev = p.dev, q.prm = p.prm
      PROVE  Followed(q)
  BY <1>5 DEF Followed, Known, Tracks, HasCodec
<1>6. CASE SetParams(t)
  <2>0. PICK s \in Stream : \E v \in Offered[s] :
            p.dec[s] = "STOPPED" /\ p' = [p EXCEPT !.prm[s] = v]
    BY <1>6 DEF SetParams, Becomes
  <2>1. PICK v \in Offered[s] : p.dec[s] = "STOPPED" /\ p' = [p EXCEPT !.prm[s] = v]
    BY <2>0
  <2>2. /\ p'.state = p.state /\ p'.dec = p.dec /\ p'.dev = p.dev /\ p'.prm[s] = v
        /\ \A u \in Stream : u # s => p'.prm[u] = p.prm[u]
    BY <1>1, <2>1 DEF Player
  <2>3. v \in {"none", "full"} /\ (s = "AD" => v = "none")
    BY <1>3, <2>1 DEF NoDescription
  <2>4. Known(p')
    BY <2>2, <2>3 DEF Followed, Known, Stream
  <2>5. ASSUME NEW u \in {"VIDEO", "AUDIO"} PROVE Tracks(p', u, p'.state)
    <3>1. p.dec[u] = "STOPPED" \/ p'.prm[u] = p.prm[u]
      BY <2>1, <2>2 DEF Stream
    <3> QED
      BY <2>2, <3>1 DEF Followed, Tracks, HasCodec
  <2> QED
    BY <2>4, <2>5 DEF Followed
<1>7. CASE SetIptvCASParams(t)
  <2>1. p' = [p EXCEPT !.casType = TRUE]
    BY <1>7 DEF SetIptvCASParams, Becomes
  <2> QED
    BY <1>1, <1>5, <2>1 DEF Player
<1>8. CASE SetCasSession(t)
  <2>1. p' = [p EXCEPT !.cas = TRUE, !.standalone = TRUE]
    BY <1>8 DEF SetCasSession, Becomes
  <2> QED
    BY <1>1, <1>5, <2>1 DEF Player
<1>9. CASE DoStart(t) \/ DoStartVideo(t) \/ DoStartAudio(t) \/ DoStartSubtitle(t)
  BY <1>1, <1>2, <1>9, StartFollowed, StartVideoFollowed, StartAudioFollowed,
     StartSubtitleFollowed
  DEF DoStart, DoStartVideo, DoStartAudio, DoStartSubtitle, Becomes
<1>10. CASE DoStop(t) \/ DoStopVideo(t) \/ DoStopAudio(t) \/ DoStopSubtitle(t)
  <2>1. p.player /\ \E q \in {StopAll(p), StopVideo(p), StopAudio(p, {}), StopSubtitle(p)} :
                        BecomesAndResets(t, q, "stop", {})
    BY <1>2, <1>10 DEF DoStop, DoStopVideo, DoStopAudio, DoStopSubtitle
  <2>2. PICK q : /\ q \in {StopAll(p), StopVideo(p), StopAudio(p, {}), StopSubtitle(p)}
                 /\ BecomesAndResets(t, q, "stop", {})
    BY <2>1
  <2>3. Good(q) /\ Followed(q)
    BY <1>1, <2>1, <2>2, StopGood, StopsFollowed
  <2> QED
    BY <2>2, <2>3, BecomesAndResetsFollowed
<1>11. CASE DoPause(t) \/ DoResume(t) \/ DoFlush(t)
  BY <1>1, <1>2, <1>11, PauseFollowed, ResumeFollowed, FlushFollowed
  DEF DoPause, DoResume, DoFlush, Becomes
<1>12. CASE DoSwitchAudioTrack(t) \/ DoSwitchSubtitleTrack(t)
  <2>1. "AUDIO" \in Stream /\ "SUBTITLE" \in Stream
    BY DEF Stream
  <2> QED
    BY <1>1, <1>2, <1>3, <1>12, <2>1, SwitchAudioTrackFollowed, SwitchSubtitleTrackFollowed
    DEF DoSwitchAudioTrack, DoSwitchSubtitleTrack, Becomes
<1>13. CASE SetDecodeMode(t)
  BY <1>1, <1>2, <1>13, SwitchModeFollowed DEF SetDecodeMode
<1>14. CASE SetPlaybackRate(t)
  <2>1. PICK r \in {"zero", "normal", "fast"} :
            \/ p' = Pause(p, {})
            \/ SwitchDecodeMode(t, Resume(p, {}), ModeOfRate(r), {})
    BY <1>2, <1>14 DEF SetPlaybackRate, Becomes
  <2>2. ModeOfRate(r) \in DecodeMode
    BY DEF ModeOfRate, DecodeMode
  <2>3. Good(Resume(p, {})) /\ Followed(Resume(p, {})) /\ Followed(Pause(p, {}))
    BY <1>1, ResumeGood, ResumeFollowed, PauseFollowed
  <2> QED
    BY <2>1, <2>2, <2>3, SwitchModeFollowed
<1>15. CASE FinishReset(t)
  <2>1. AllStopped(p) /\ Known(p)
    BY <1>15 DEF FinishReset, LeavesReset, IInv, WindowIsQuiet, AllStopped, Followed
  <2>2. p' = AfterClose(p, pc[t], {})
    BY <1>2, <1>15 DEF FinishReset
  <2> QED
    BY <1>1, <2>1, <2>2, AfterCloseFollowed
<1> QED
  BY <1>4, <1>6, <1>7, <1>8, <1>9, <1>10, <1>11, <1>12, <1>13, <1>14, <1>15 DEF ClientStep

LEMMA FollowedParserStep ==
    ASSUME OneClient, NoFailure, IInv, Followed(p), ParserStep
    PROVE  Followed(p')
<1>1. p \in Player /\ Good(p)
  BY IInvParts DEF Good
<1>2. \A f \in Outcomes : f = {}
  BY DEF NoFailure
<1>3. ASSUME NEW q, q \in Player, q.player = p.player, q.state = p.state, q.dec = p.dec,
             q.dev = p.dev, q.prm = p.prm
      PROVE  Followed(FinishPreparing(q, {}))
  <2>1. Followed(q)
    BY <1>3 DEF Followed, Known, Tracks, HasCodec
  <2> QED
    BY <1>1, <1>3, <2>1, FinishFollowed DEF Good
<1>4. ASSUME OnProgramParsed PROVE Followed(p')
  <2>1. PICK found \in SUBSET {"VIDEO", "AUDIO"} : p' = ProgramParsed(p, found, {})
    BY <1>2, <1>4 DEF OnProgramParsed
  <2> DEFINE learnt(s) == s \in found /\ p.prm[s] = "nocodec"
             r == [p EXCEPT !.prm = [s \in Stream |->
                                         IF learnt(s) THEN "full" ELSE p.prm[s]],
                            !.waiting = p.waiting \ {"codec"}]
  <2>2. [s \in Stream |-> IF learnt(s) THEN "full" ELSE p.prm[s]] = p.prm
    BY <1>1 DEF Followed, Known, Player
  <2>3. p' = FinishPreparing(r, {})
    BY <1>1, <2>1 DEF ProgramParsed, Player
  <2>4. /\ r \in Player /\ r.player = p.player /\ r.state = p.state /\ r.dec = p.dec
        /\ r.dev = p.dev /\ r.prm = p.prm
    BY <1>1, <2>2 DEF Player
  <2> HIDE DEF r
  <2> QED
    BY <1>3, <2>3, <2>4
<1>5. ASSUME OnEcmDataParsed PROVE Followed(p')
  <2> DEFINE r == [p EXCEPT !.waiting = p.waiting \ {"ecm"}]
  <2>1. /\ r \in Player /\ r.player = p.player /\ r.state = p.state /\ r.dec = p.dec
        /\ r.dev = p.dev /\ r.prm = p.prm
    BY <1>1 DEF Player
  <2>2. p' = FinishPreparing(r, {})
    BY <1>1, <1>2, <1>5 DEF OnEcmDataParsed, EcmDataParsed, Player
  <2> HIDE DEF r
  <2> QED
    BY <1>3, <2>1, <2>2
<1>6. ASSUME NEW w, Finds(w) PROVE Followed(p')
  BY <1>6 DEF Finds
<1> QED
  BY <1>4, <1>5, <1>6 DEF ParserStep

(* A client that calls from one thread, plays no audio description and     *)
(* knows its codecs finds, as long as no call into the codec layer fails,  *)
(* that a STARTED video or audio is decoded and a PAUSED one of a PAUSED   *)
(* player is held: through starts, stops, pauses, flushes, track and mode  *)
(* switches in any order, what mStreamState says is what AmlTsPlayer does. *)
THEOREM DecodersDoAsTold ==
    ASSUME OneClient, NoFailure, NoDescription, CodecsKnown
    PROVE  Spec => []DecodersFollow
<1> DEFINE Inv == Followed(p)
<1>1. Init => Inv
  <2> SUFFICES ASSUME Init PROVE Followed(p)
    OBVIOUS
  <2>1. Known(p) /\ \A s \in {"VIDEO", "AUDIO"} : p.dec[s] = "STOPPED"
    BY DEF Init, NewPlayer, Known, Stream
  <2> QED
    BY <2>1, QuietFollowed
<1>2. ASSUME IInv, Inv, [Next]_vars PROVE Inv'
  <2>1. CASE Next
    BY <1>2, <2>1, FollowedClientStep, FollowedParserStep DEF Next, Followed
  <2>2. CASE UNCHANGED vars
    BY <1>2, <2>2 DEF vars, Followed
  <2> QED
    BY <1>2, <2>1, <2>2
<1>3. Inv => DecodersFollow
  BY DEF Followed, Tracks, DecodersFollow, StartedIsDecoded, PausedIsHeld, Runs, Does
<1> HIDE DEF Inv
<1> QED
  BY <1>1, <1>2, <1>3, InductiveInvariant, PTL DEF Spec
=============================================================================
