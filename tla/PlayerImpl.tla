----------------------------- MODULE PlayerImpl -----------------------------
(***************************************************************************)
(* AmlMpPlayerImpl as a concurrent object: the client threads that call    *)
(* its methods and the parser's thread that calls programEventCallback,    *)
(* all under mLock (player/Aml_MP_PlayerImpl.cpp).                         *)
(*                                                                         *)
(* A method that holds mLock from beginning to end is one step.  reset_l   *)
(* is the exception: if a parser exists it gives up mLock while it closes  *)
(* the parser, so that a callback waiting for mLock can return.  Between   *)
(* the two steps of such a call its thread is at pc "stop" or "mode", and  *)
(* every other thread may enter the object.  Parser::close waits for the   *)
(* parser's thread, except in a caller that finds the demux taken away by  *)
(* another caller.                                                         *)
(***************************************************************************)
EXTENDS PlayerHandlers

CONSTANTS Client,    \* the client's threads
          Calls,     \* the methods the client uses
          Outcomes,  \* the sets of codec-layer calls that may fail together
          Offered    \* what the client may configure for each stream

Method == {"setParams", "setIptvCASParams", "setCasSession", "start",
           "startVideoDecoding", "startAudioDecoding", "startADDecoding",
           "startSubtitleDecoding", "stop", "stopVideoDecoding",
           "stopAudioDecoding", "stopADDecoding", "stopSubtitleDecoding",
           "pause", "resume", "flush", "switchAudioTrack",
           "switchSubtitleTrack", "setDecodeMode", "setPlaybackRate"}

ASSUME ClientAssumption ==
    /\ Calls \subseteq Method
    /\ Outcomes \subseteq SUBSET Fallible
    /\ Offered \in [Stream -> SUBSET Param]

VARIABLES p,       \* the object
          pc,      \* for each client thread, "out" of the object or in reset_l
          joining, \* the threads in reset_l that wait for the parser's thread
          report   \* what the parser's thread has found and not yet delivered

vars == <<p, pc, joining, report>>

Location == {"out", "stop", "mode"}
Report == Waiting \cup {"nothing"}

TypeOK ==
    /\ p \in Player
    /\ pc \in [Client -> Location]
    /\ joining \in SUBSET Client
    /\ report \in Report

Init ==
    /\ p = NewPlayer
    /\ pc = [t \in Client |-> "out"]
    /\ joining = {}
    /\ report = "nothing"

-----------------------------------------------------------------------------
(* Thread t calls method m. *)
Enter(t, m) == pc[t] = "out" /\ m \in Calls

(* The call keeps mLock and turns the object into q. *)
Becomes(q) == p' = q /\ UNCHANGED <<pc, joining, report>>

(* Mutant: the mode switch drops the client's CAS session. *)
AfterCloseClearsSession(q, k, f) ==
    IF k = "stop" THEN ResetDone(q, TRUE) ELSE Restart(ResetDone(q, TRUE), f)

(* What is left of the call from reset_l on.  switchDecodeMode_l keeps the *)
(* CAS session and starts again.                                           *)
AfterClose(q, k, f) ==
    IF k = "stop" THEN ResetDone(q, TRUE) ELSE Restart(ResetDone(q, FALSE), f)

(* The call gives up mLock to close the parser of q. *)
GivesUpLock(t, q, k) ==
    /\ p' = CloseParser(q)
    /\ pc' = [pc EXCEPT ![t] = k]
    /\ joining' = IF q.parser = "open" THEN joining \cup {t} ELSE joining
    /\ UNCHANGED report

(* The call ends in resetIfNeeded_l with the object q: done if a stream is *)
(* left, reset under mLock if there is no parser, and otherwise mLock is   *)
(* given up to close it.                                                   *)
BecomesAndResets(t, q, k, f) ==
    \/ q.state # "STOPPED" /\ Becomes(q)
    \/ q.state = "STOPPED" /\ q.parser = "none" /\ Becomes(AfterClose(q, k, f))
    \/ q.state = "STOPPED" /\ q.parser # "none" /\ GivesUpLock(t, q, k)

(* Thread t is back from Parser::close and holds mLock again. *)
LeavesReset(t) ==
    /\ pc[t] # "out"
    /\ t \in joining => report = "nothing"
    /\ pc' = [pc EXCEPT ![t] = "out"]

FinishReset(t) ==
    /\ LeavesReset(t)
    /\ \E f \in Outcomes : p' = AfterClose(p, pc[t], f)
    /\ joining' = joining \ {t}
    /\ UNCHANGED report

-----------------------------------------------------------------------------
(* setVideoParams, setAudioParams, setADParams, setSubtitleParams: refused *)
(* unless the stream is stopped.                                           *)
SetParams(t) ==
    /\ Enter(t, "setParams")
    /\ \E s \in Stream : \E v \in Offered[s] :
           p.dec[s] = "STOPPED" /\ Becomes([p EXCEPT !.prm[s] = v])

(* setIptvCASParams with a valid service type *)
SetIptvCASParams(t) ==
    Enter(t, "setIptvCASParams") /\ Becomes([p EXCEPT !.casType = TRUE])

(* setCasSession *)
SetCasSession(t) ==
    /\ Enter(t, "setCasSession")
    /\ Becomes([p EXCEPT !.cas = TRUE, !.standalone = TRUE])

DoStart(t) ==
    Enter(t, "start") /\ \E f \in Outcomes : Becomes(Start(p, f))
DoStartVideo(t) ==
    Enter(t, "startVideoDecoding") /\ \E f \in Outcomes : Becomes(StartVideo(p, f))
DoStartAudio(t) ==
    Enter(t, "startAudioDecoding") /\ \E f \in Outcomes : Becomes(StartAudio(p, f))
DoStartAD(t) ==
    Enter(t, "startADDecoding") /\ \E f \in Outcomes : Becomes(StartAD(p, f))
DoStartSubtitle(t) ==
    /\ Enter(t, "startSubtitleDecoding")
    /\ \E f \in Outcomes : Becomes(StartSubtitle(p, f))

(* stop and stop...Decoding return -1 without a codec layer. *)
DoStop(t) ==
    /\ Enter(t, "stop") /\ p.player
    /\ BecomesAndResets(t, StopAll(p), "stop", {})
DoStopVideo(t) ==
    /\ Enter(t, "stopVideoDecoding") /\ p.player
    /\ BecomesAndResets(t, StopVideo(p), "stop", {})
DoStopAudio(t) ==
    /\ Enter(t, "stopAudioDecoding") /\ p.player
    /\ \E f \in Outcomes : BecomesAndResets(t, StopAudio(p, f), "stop", f)
DoStopAD(t) ==
    /\ Enter(t, "stopADDecoding") /\ p.player
    /\ \E f \in Outcomes : BecomesAndResets(t, StopAD(p, f), "stop", f)
DoStopSubtitle(t) ==
    /\ Enter(t, "stopSubtitleDecoding") /\ p.player
    /\ p.dec["SUBTITLE"] # "STOPPED"
    /\ BecomesAndResets(t, StopSubtitle(p), "stop", {})

DoPause(t) ==
    Enter(t, "pause") /\ \E f \in Outcomes : Becomes(Pause(p, f))
DoResume(t) ==
    Enter(t, "resume") /\ \E f \in Outcomes : Becomes(Resume(p, f))
DoFlush(t) ==
    Enter(t, "flush") /\ \E f \in Outcomes : Becomes(Flush(p, f))

DoSwitchAudioTrack(t) ==
    /\ Enter(t, "switchAudioTrack")
    /\ \E f \in Outcomes, v \in Offered["AUDIO"] :
           Becomes(SwitchAudioTrack(p, v, f))
DoSwitchSubtitleTrack(t) ==
    /\ Enter(t, "switchSubtitleTrack")
    /\ \E f \in Outcomes, v \in Offered["SUBTITLE"] :
           Becomes(SwitchSubtitleTrack(p, v, f))

(* switchDecodeMode_l on the object q: the new mode is noted, and a        *)
(* running player is stopped and started again.                            *)
SwitchDecodeMode(t, q, m, f) ==
    LET r == [q EXCEPT !.mode = m]
        restart == m # q.mode /\ q.state = "RUNNING"
    IN  \/ ~restart /\ Becomes(r)
        \/ restart /\ BecomesAndResets(t, StopAll(r), "mode", f)

(* setParameter(AML_MP_PLAYER_PARAMETER_VIDEO_DECODE_MODE) *)
SetDecodeMode(t) ==
    /\ Enter(t, "setDecodeMode")
    /\ \E f \in Outcomes, m \in DecodeMode : SwitchDecodeMode(t, p, m, f)

(* setPlaybackRate: rate 0 pauses; any other rate resumes a paused player  *)
(* and chooses the decode mode, a trick mode above twice the speed or      *)
(* backwards.  The rate itself goes to the codec layer last: that call     *)
(* starts and stops no decoder, and nothing is read back from it.          *)
ModeOfRate(r) ==
    IF r # "fast" THEN "NONE"
    ELSE IF SourceType = "ES_MEMORY" THEN "IONLY" ELSE "PAUSE_NEXT"

SetPlaybackRate(t) ==
    /\ Enter(t, "setPlaybackRate") /\ Active(p) /\ p.player
    /\ \E f \in Outcomes, r \in {"zero", "normal", "fast"} :
           \/ r = "zero" /\ Becomes(Pause(p, f))
           \/ r # "zero" /\ SwitchDecodeMode(t, Resume(p, f), ModeOfRate(r), f)

-----------------------------------------------------------------------------
(* The parser's thread.  It finds what the parser was asked for as long as *)
(* the parser is open, again with every new table, and then waits for      *)
(* mLock to deliver it to programEventCallback.                            *)
Finds(w) ==
    /\ report = "nothing" /\ p.parser = "open" /\ w \in p.asked
    /\ report' = w
    /\ UNCHANGED <<p, pc, joining>>

Delivers(w) == report = w /\ report' = "nothing"

OnProgramParsed ==
    /\ Delivers("codec")
    /\ \E f \in Outcomes, found \in SUBSET {"VIDEO", "AUDIO"} :
           p' = ProgramParsed(p, found, f)
    /\ UNCHANGED <<pc, joining>>

OnEcmDataParsed ==
    /\ Delivers("ecm")
    /\ \E f \in Outcomes : p' = EcmDataParsed(p, f)
    /\ UNCHANGED <<pc, joining>>

ParserStep ==
    (\E w \in Waiting : Finds(w)) \/ OnProgramParsed \/ OnEcmDataParsed

-----------------------------------------------------------------------------
ClientStep(t) ==
    \/ SetParams(t) \/ SetIptvCASParams(t) \/ SetCasSession(t)
    \/ DoStart(t) \/ DoStartVideo(t) \/ DoStartAudio(t) \/ DoStartAD(t)
    \/ DoStartSubtitle(t)
    \/ DoStop(t) \/ DoStopVideo(t) \/ DoStopAudio(t) \/ DoStopAD(t)
    \/ DoStopSubtitle(t)
    \/ DoPause(t) \/ DoResume(t) \/ DoFlush(t)
    \/ DoSwitchAudioTrack(t) \/ DoSwitchSubtitleTrack(t)
    \/ SetDecodeMode(t) \/ SetPlaybackRate(t)
    \/ FinishReset(t)

Next == (\E t \in Client : ClientStep(t)) \/ ParserStep

Spec == Init /\ [][Next]_vars

(* Fairness of the steps the system owes: a thread that waits for mLock    *)
(* gets it, and a table that is waited for comes by however often the      *)
(* parser's thread is busy with another.  No client has to call anything.  *)
(* LeavesReset and Delivers are the parts of FinishReset, OnProgramParsed  *)
(* and OnEcmDataParsed that say when these are possible.                   *)
Fairness ==
    /\ \A t \in Client : WF_pc(LeavesReset(t))
    /\ \A w \in Waiting : /\ WF_report(Delivers(w))
                         /\ SF_report(Finds(w) /\ w \in p.waiting)

FairSpec == Spec /\ Fairness

-----------------------------------------------------------------------------
(* Safety, whatever the client's threads do and whichever call fails.      *)

(* Outside IDLE the codec layer exists, so the handlers that use mPlayer   *)
(* without a test of their own (start_l, the start...Decoding_l methods,   *)
(* finishPreparingIfNeeded_l) never go through a null pointer.             *)
CodecLayerInUse == p.state # "IDLE" => p.player

(* A parser never outlives the playback it was opened for: an IDLE object  *)
(* has none, and while one thread closes it the state is not IDLE either.  *)
ParserInUse == p.parser # "none" => p.state # "IDLE"

(* A PREPARING object waits for something and has a parser: the last       *)
(* report it waits for ends the preparation and is never missed.           *)
PreparingWaits ==
    p.state = "PREPARING" => p.waiting # {} /\ p.parser # "none"

Sound == CodecLayerInUse /\ ParserInUse /\ PreparingWaits

-----------------------------------------------------------------------------
(* Safety for one client thread.                                           *)

(* An IDLE object has no stream left in any other state than STOPPED:      *)
(* reset_l never runs while a stream is up, and a failed or refused start  *)
(* leaves nothing behind ("ensure stream stopped", stop_l).                *)
IdleMeansStopped ==
    p.state = "IDLE" => \A s \in Stream : p.dec[s] = "STOPPED"

(* While the thread is out to close the parser, no callback of the parser  *)
(* brings the object back to life.                                         *)
WindowIsQuiet ==
    \A t \in Client : pc[t] # "out" =>
        p.state = "STOPPED" /\ \A s \in Stream : p.dec[s] = "STOPPED"

(* What the decoding state tells the client is what the decoder does, if   *)
(* no library call fails: a STARTED stream is being decoded, and while the *)
(* object is PAUSED a PAUSED one is held.                                  *)
Runs(s) == IF s = "VIDEO" THEN p.dev.video ELSE p.dev.audio

StartedIsDecoded ==
    \A s \in {"VIDEO", "AUDIO"} :
        p.dec[s] = "STARTED" /\ HasCodec(p, s) => Runs(s) = "run"

PausedIsHeld ==
    \A s \in {"VIDEO", "AUDIO"} :
        p.state = "PAUSED" /\ p.dec[s] = "PAUSED" /\ HasCodec(p, s)
            => Runs(s) = "hold"

(* Both, through every order of starts, stops, pauses, flushes, track      *)
(* switches and mode switches.                                             *)
DecodersFollow == StartedIsDecoded /\ PausedIsHeld

(* switchDecodeMode_l keeps the client's CAS session, although the object  *)
(* goes through reset_l ("Not clear cas session while switch decode mode").*)
SessionSurvivesModeSwitch ==
    [][\A t \in Client :
           (pc[t] = "mode" \/ p'.mode # p.mode) /\ p.standalone
               => p'.standalone /\ p'.cas]_vars

(* A client that only uses the whole-player calls sees one phase: while    *)
(* PAUSED no stream runs, while RUNNING none is left PAUSED.               *)
PausedMeansPaused ==
    p.state = "PAUSED" => \A s \in Stream : p.dec[s] # "STARTED"

RunningMeansResumed ==
    p.state = "RUNNING" => \A s \in Stream : p.dec[s] # "PAUSED"

(* Both: the phase of the whole player and the states of its streams, which*)
(* different handlers set, never part.                                     *)
PhaseTellsStreams == PausedMeansPaused /\ RunningMeansResumed

(* flush of a paused player that has to wait for a new ECM comes back      *)
(* paused: it does not start to play by itself when the ECM arrives.       *)
FlushKeepsPause ==
    [][p.state = "PREPARING" /\ p.last = "PAUSED" => p'.state # "RUNNING"]_vars

-----------------------------------------------------------------------------
(* Liveness under FairSpec.                                                *)

(* A preparation that only waits for what its parser looks for ends.       *)
PreparationEnds ==
    p.state = "PREPARING" /\ p.waiting \subseteq p.asked
        ~> p.state # "PREPARING"

=============================================================================
