------------------------------ MODULE TsPlayer ------------------------------
(***************************************************************************)
(* The codec layer under AmlMpPlayerImpl: player/AmlTsPlayer.cpp, with the *)
(* subtitle half it inherits from player/AmlPlayerBase.cpp.                *)
(*                                                                         *)
(* A value of Device is what one AmlTsPlayer object and the AmTsPlayer     *)
(* handle behind it remember: which parameters were accepted and what each *)
(* decoder does.  Every operator is one method of the class, as a function *)
(* from a device and the set f of library calls that fail to the device    *)
(* afterwards; a predicate ...Fails says whether the method returns < 0.   *)
(* The main audio and the audio description (AD) share one decoder of the  *)
(* library: startADDecoding and startAudioDecoding both end in             *)
(* AmTsPlayer_startAudioDecoding, and either stop ends both.               *)
(***************************************************************************)

Decoder == {"off", "run", "hold"}

(* The library calls whose failure the callers react to. *)
Fallible == {"create", "initCheck", "startVideo", "startAudio", "startAD",
             "startSubtitle", "pauseVideo", "pauseAudio", "resumeVideo",
             "resumeAudio"}

(* mVideoParaSeted, mAudioParaSeted, the codec of mSubtitleParams, the AD  *)
(* mixing switch, and the decoders of the library.                         *)
Device == [videoSet : BOOLEAN, audioSet : BOOLEAN, subtitleSet : BOOLEAN,
           mix : BOOLEAN, video : Decoder, audio : Decoder,
           subtitle : Decoder]

(* A device just created: nothing configured, nothing decoding. *)
NewDevice == [videoSet |-> FALSE, audioSet |-> FALSE, subtitleSet |-> FALSE,
              mix |-> FALSE, video |-> "off", audio |-> "off",
              subtitle |-> "off"]

DevSetVideoParams(d, known) == [d EXCEPT !.videoSet = known]
DevSetAudioParams(d, known) == [d EXCEPT !.audioSet = known]
DevSetSubtitleParams(d, known) == [d EXCEPT !.subtitleSet = known]
DevSetADParams(d, enableMix) == [d EXCEPT !.mix = enableMix]

(* A decoder without parameters decodes nothing, whatever it is told. *)
DevStartVideo(d, f) ==
    IF d.videoSet /\ "startVideo" \notin f THEN [d EXCEPT !.video = "run"] ELSE d

DevStopVideo(d) == [d EXCEPT !.video = "off"]

DevStartAudio(d, f) ==
    IF (d.audioSet \/ d.mix) /\ "startAudio" \notin f
    THEN [d EXCEPT !.audio = "run"] ELSE d

DevStopAudio(d) == [d EXCEPT !.audio = "off"]

DevStartAD(d, f) ==
    IF (d.audioSet \/ d.mix) /\ "startAD" \notin f
    THEN [d EXCEPT !.audio = "run"] ELSE d

DevStopAD(d) == DevStopAudio(d)

DevStartSubtitle(d, f) ==
    IF d.subtitleSet /\ "startSubtitle" \notin f
    THEN [d EXCEPT !.subtitle = "run"] ELSE d

DevStopSubtitle(d) == [d EXCEPT !.subtitle = "off"]

(* Pausing holds a decoder that runs and resuming releases one that is     *)
(* held; neither starts a decoder that is off.                             *)
DevPauseVideo(d, f) ==
    IF d.video = "run" /\ "pauseVideo" \notin f
    THEN [d EXCEPT !.video = "hold"] ELSE d

DevPauseAudio(d, f) ==
    IF d.audio = "run" /\ "pauseAudio" \notin f
    THEN [d EXCEPT !.audio = "hold"] ELSE d

DevResumeVideo(d, f) ==
    IF d.video = "hold" /\ "resumeVideo" \notin f
    THEN [d EXCEPT !.video = "run"] ELSE d

DevResumeAudio(d, f) ==
    IF d.audio = "hold" /\ "resumeAudio" \notin f
    THEN [d EXCEPT !.audio = "run"] ELSE d

(* AmlTsPlayer::start: the configured decoders, then the subtitle, whose   *)
(* result AmlPlayerBase::start ignores.                                    *)
DevStart(d, f) ==
    LET v == DevStartVideo(d, f)
        a == IF d.audioSet THEN DevStartAudio(v, f) ELSE v
    IN  DevStartSubtitle(a, f)

DevStartFails(d, f) ==
    (d.videoSet /\ "startVideo" \in f) \/ (d.audioSet /\ "startAudio" \in f)

(* AmlTsPlayer::stop: only the decoders whose parameters are set. *)
DevStop(d) ==
    [d EXCEPT !.subtitle = "off",
              !.video = IF d.videoSet THEN "off" ELSE d.video,
              !.audio = IF d.audioSet THEN "off" ELSE d.audio]

(* AmlTsPlayer::pause: both calls are made, the results are added up. *)
DevPause(d, f) ==
    LET v == IF d.videoSet THEN DevPauseVideo(d, f) ELSE d
    IN  IF d.audioSet THEN DevPauseAudio(v, f) ELSE v

DevPauseFails(d, f) ==
    (d.videoSet /\ "pauseVideo" \in f) \/ (d.audioSet /\ "pauseAudio" \in f)

(* AmlPlayerBase::switchSubtitleTrack: stop, new parameters, start. *)
DevSwitchSubtitle(d, known, f) ==
    DevStartSubtitle(DevSetSubtitleParams(DevStopSubtitle(d), known), f)
=============================================================================
