---------------------------- MODULE MediaPlayer ----------------------------
(***************************************************************************)
(* AmlMpMediaPlayerImpl (mediaplayer/Aml_MP_MediaPlayerImpl.cpp): an       *)
(* Android-style state machine in front of a plug-in player.  A method     *)
(* holds mLock, checks mState, calls the plug-in and sets mState.  The     *)
(* plug-in's own thread reports the end of the stream through              *)
(* notifyListener, which sets mState too, but under mEventLock: it can run *)
(* between any two steps of a method.                                      *)
(*                                                                         *)
(* The plug-in is external.  Every call of it may fail, it plays only what *)
(* it was given, and it completes when it likes.  Nothing says whether its *)
(* stop, reset and release wait for its event thread: both are modelled,   *)
(* and late remembers what the end of a playback that is over has done.    *)
(***************************************************************************)
EXTENDS Naturals, Sequences

CONSTANTS Client,      \* the threads that use the object
          Calls,       \* the methods they call
          Faults       \* the calls of the plug-in that may fail

State == {"IDLE", "INITED", "PREPARING", "PREPARED", "RUNNING", "PAUSED",
          "STOPPED", "COMPLETED"}
Phase == {"idle", "inited", "preparing", "prepared", "playing", "paused",
          "completed", "stopped"}
Setting == {"window", "volume"}

(* What a method does after its check: it calls the plug-in or sets mState.*)
Ask(f) == [does |-> "ask", what |-> f]
Set(s) == [does |-> "set", what |-> s]


(* Mutant: the window is left for the plug-in to find out.                 *)
StartNoWindow == <<Ask("start"), Set("RUNNING")>>

StartScript == <<Ask("window"), Ask("start"), Set("RUNNING")>>

(* Mutant: mState is set once, when everything has worked.                 *)
ResetAtOnce == <<Ask("reset"), Ask("release"), Set("IDLE")>>

ResetScript == <<Ask("reset"), Set("STOPPED"), Ask("release"), Set("IDLE")>>

Script ==
    [setDataSource |-> <<Ask("setDataSource"), Set("INITED")>>,
     prepare       |-> <<Set("PREPARING"), Ask("prepare"), Set("PREPARED")>>,
     prepareAsync  |-> <<Set("PREPARING"), Ask("prepareAsync"), Set("PREPARED")>>,
     start         |-> StartScript,
     pause         |-> <<Ask("pause"), Set("PAUSED")>>,
     resume        |-> <<Ask("resume"), Set("RUNNING")>>,
     stop          |-> <<Ask("stop"), Set("STOPPED")>>,
     reset         |-> ResetScript,
     invoke        |-> <<Ask("invoke")>>,
     setVideoWindow |-> <<Ask("window")>>,
     setVolume     |-> <<Ask("volume")>>]

(* Mutants: start does without a new prepare; or not after the end.        *)
StartsStopped == {"PREPARED", "RUNNING", "COMPLETED", "STOPPED"}
StartsNotEnded == {"PREPARED", "RUNNING"}

StartAccepts == {"PREPARED", "RUNNING", "COMPLETED"}

(* The states in which a method goes on.                                   *)
Accepts ==
    [setDataSource |-> {"IDLE"},
     prepare       |-> {"INITED", "STOPPED"},
     prepareAsync  |-> {"INITED", "STOPPED"},
     start         |-> StartAccepts,
     pause         |-> {"RUNNING"},
     resume        |-> {"PAUSED"},
     stop          |-> State \ {"STOPPED", "IDLE", "INITED", "PAUSED"},
     reset         |-> State \ {"IDLE"},
     invoke        |-> {"PREPARED", "RUNNING", "PAUSED"}]

(* setVideoWindow and setVolume reach the plug-in in these states only.    *)
Live == {"RUNNING", "PAUSED"}

Method == DOMAIN Script
Asked == {"setDataSource", "prepare", "prepareAsync", "start", "pause", "resume",
          "stop", "reset", "release", "invoke", "window", "volume"}

ASSUME CallAssumption ==
    /\ Calls \subseteq Method /\ Faults \subseteq Asked

VARIABLES state,    \* mState
          cb,       \* mEventCb is set
          stored,   \* mVideoWindow, mVolume: what the client asked for last
          applied,  \* what the plug-in was told
          call,     \* what each client is doing; the one inside a method has mLock
          phase,    \* the plug-in's own state
          event,    \* the plug-in's event thread
          waits,    \* the plug-in waits for it in stop, reset and release
          late      \* which of event and mState is of a playback that is over

vars == <<state, cb, stored, applied, call, phase, event, waits, late>>

None == [op |-> "none", at |-> 0]

TypeOK ==
    /\ state \in State /\ cb \in BOOLEAN /\ phase \in Phase
    /\ stored \in [Setting -> 0 .. 1] /\ applied \in [Setting -> 0 .. 1]
    /\ call \in [Client -> [op : Method \cup {"none", "registerEventCallBack"},
                            at : 0 .. 5]]
    /\ \A c \in Client : call[c].op \in Method => call[c].at \in 1 .. Len(Script[call[c].op])
    /\ event \in {"none", "found", "listening", "telling"}
    /\ waits \in BOOLEAN /\ late \subseteq {"event", "state"}

Init ==
    /\ state = "IDLE" /\ cb = FALSE /\ phase = "idle" /\ event = "none"
    /\ stored = [s \in Setting |-> 0] /\ applied = [s \in Setting |-> 0]
    /\ call = [c \in Client |-> None]
    /\ waits \in BOOLEAN /\ late = {}

LockIsFree == \A c \in Client : call[c].op \notin Method

-----------------------------------------------------------------------------
(* A client enters a method: it takes mLock and passes the check of mState.*)
(* A method that refuses returns at once and changes nothing.              *)
Enter(c, op) ==
    /\ call[c] = None /\ LockIsFree
    /\ op \in DOMAIN Accepts /\ state \in Accepts[op]
    /\ call' = [call EXCEPT ![c] = [op |-> op, at |-> 1]]
    /\ UNCHANGED <<state, cb, stored, applied, phase, event, waits, late>>

(* setVideoWindow, setVolume: the value is kept, and passed on when live.  *)
Configure(c, op, s, v) ==
    /\ call[c] = None /\ LockIsFree
    /\ stored' = [stored EXCEPT ![s] = v]
    /\ call' = [call EXCEPT ![c] = IF state \in Live THEN [op |-> op, at |-> 1] ELSE None]
    /\ UNCHANGED <<state, cb, applied, phase, event, waits, late>>

(* What a call that succeeds makes of the plug-in.                         *)
After(f) ==
    CASE f = "setDataSource" -> "inited"
      [] f = "prepare" -> "prepared"
      [] f = "prepareAsync" -> "preparing"
      [] f \in {"start", "resume"} -> "playing"
      [] f = "pause" -> "paused"
      [] f = "stop" -> IF phase = "idle" THEN "idle" ELSE "stopped"
      [] f \in {"reset", "release"} -> "idle"
      [] OTHER -> phase

(* The plug-in does not succeed in preparing or playing without a source.  *)
CanSucceed(f) == f \in {"prepare", "prepareAsync", "start"} => phase # "idle"

MayFail(f) == f \in Faults \/ ~CanSucceed(f)

(* The calls that end a playback; with some plug-ins they wait for the     *)
(* event thread to be done.                                                *)
Ends(f) == f \in {"stop", "reset", "release"}
Waits(f) == waits /\ Ends(f)

Step(c) == Script[call[c].op][call[c].at]

(* The client's method goes on to its next step, or returns.               *)
Advance(c) ==
    call' = [call EXCEPT ![c] = IF @.at = Len(Script[@.op]) THEN None
                                ELSE [op |-> @.op, at |-> @.at + 1]]
Return(c) == call' = [call EXCEPT ![c] = None]

Apply(f) ==
    applied' = IF f \in Setting THEN [applied EXCEPT ![f] = stored[f]] ELSE applied

(* An event on its way when its playback ends is late from then on.        *)
Outlives(f) ==
    late' = IF Ends(f) /\ event # "none" THEN late \cup {"event"} ELSE late

PluginObeys(c) ==
    /\ call[c].op \in Method /\ Step(c).does = "ask"
    /\ LET f == Step(c).what IN
        /\ Waits(f) => event = "none"
        /\ CanSucceed(f)
        /\ phase' = After(f)
        /\ Apply(f) /\ Outlives(f)
    /\ Advance(c)
    /\ UNCHANGED <<state, cb, stored, event, waits>>

(* A negative result ends the method, except that of setVideoWindow, which *)
(* start_l does not look at.  The plug-in has been told all the same.      *)
PluginRefuses(c) ==
    /\ call[c].op \in Method /\ Step(c).does = "ask"
    /\ LET f == Step(c).what IN
        /\ Waits(f) => event = "none"
        /\ MayFail(f) /\ Apply(f)
        /\ IF f = "window" THEN Advance(c) ELSE Return(c)
    /\ UNCHANGED <<state, cb, stored, phase, event, waits, late>>

SetState(c) ==
    /\ call[c].op \in Method /\ Step(c).does = "set"
    /\ state' = Step(c).what /\ late' = late \ {"state"}
    /\ Advance(c)
    /\ UNCHANGED <<cb, stored, applied, phase, event, waits>>

(* registerEventCallBack checks mState under mLock and writes the callback *)
(* under mEventLock.                                                       *)
BeginRegister(c) ==
    /\ call[c] = None /\ LockIsFree
    /\ state \in {"IDLE", "INITED", "PREPARING"}
    /\ call' = [call EXCEPT ![c] = [op |-> "registerEventCallBack", at |-> 0]]
    /\ UNCHANGED <<state, cb, stored, applied, phase, event, waits, late>>

EndRegister(c) ==
    /\ call[c].op = "registerEventCallBack"
    /\ event \in {"none", "found"}
    /\ cb' = TRUE
    /\ Return(c)
    /\ UNCHANGED <<state, stored, applied, phase, event, waits, late>>

-----------------------------------------------------------------------------
(* The plug-in's threads.                                                  *)
PluginPrepared ==
    /\ phase = "preparing" /\ phase' = "prepared"
    /\ UNCHANGED <<state, cb, stored, applied, call, event, waits, late>>

(* The stream ends (PLAYBACK_COMPLETE) or is wound back (PLAYBACK_SOF).    *)
PluginCompletes ==
    /\ phase = "playing" /\ event = "none"
    /\ phase' = "completed" /\ event' = "found"
    /\ UNCHANGED <<state, cb, stored, applied, call, waits, late>>

(* Mutant: notifyListener takes mLock to set mState.                       *)
ListenLocked ==
    /\ event = "found" /\ LockIsFree
    /\ event' = IF cb THEN "listening" ELSE "none"
    /\ late' = IF cb THEN late ELSE late \ {"event"}
    /\ UNCHANGED <<state, cb, stored, applied, call, phase, waits>>

(* notifyListener takes mEventLock; without a callback it does nothing.    *)
Listen ==
    /\ event = "found"
    /\ event' = IF cb THEN "listening" ELSE "none"
    /\ late' = IF cb THEN late ELSE late \ {"event"}
    /\ UNCHANGED <<state, cb, stored, applied, call, phase, waits>>

Complete ==
    /\ event = "listening"
    /\ state' = "COMPLETED" /\ event' = "telling"
    /\ late' = IF "event" \in late THEN late \cup {"state"} ELSE late \ {"state"}
    /\ UNCHANGED <<cb, stored, applied, call, phase, waits>>

CallbackReturns ==
    /\ event = "telling" /\ event' = "none" /\ late' = late \ {"event"}
    /\ UNCHANGED <<state, cb, stored, applied, call, phase, waits>>

-----------------------------------------------------------------------------
ClientCalls(c) ==
    \/ \E op \in Calls \cap DOMAIN Accepts : Enter(c, op)
    \/ /\ "setVideoWindow" \in Calls
       /\ \E v \in 0 .. 1 : Configure(c, "setVideoWindow", "window", v)
    \/ /\ "setVolume" \in Calls
       /\ \E v \in 0 .. 1 : Configure(c, "setVolume", "volume", v)
    \/ BeginRegister(c)

Proceeds(c) == PluginObeys(c) \/ PluginRefuses(c) \/ SetState(c) \/ EndRegister(c)

EventThread == Listen \/ Complete \/ CallbackReturns

Next ==
    \/ \E c \in Client : ClientCalls(c) \/ Proceeds(c)
    \/ PluginPrepared \/ PluginCompletes \/ EventThread

Spec == Init /\ [][Next]_vars

(* Threads run: a method that has begun goes on, the event thread too, and *)
(* a thread that waits for mEventLock is not passed over for ever.         *)
FairSpec ==
    /\ Spec /\ WF_vars(EventThread)
    /\ \A c \in Client : WF_vars(Proceeds(c)) /\ SF_vars(EndRegister(c))

-----------------------------------------------------------------------------
Quiet == LockIsFree /\ event = "none"

(* The end of a playback that was over said COMPLETED of the next one.     *)
Misled == ~waits /\ "state" \in late /\ state = "COMPLETED"

PhasesOf(s) ==
    CASE s = "IDLE" -> {"idle"}
      [] s = "INITED" -> {"inited"}
      [] s = "PREPARING" -> {"inited", "stopped", "idle"}
      [] s = "PREPARED" -> {"preparing", "prepared"}
      [] s = "RUNNING" -> {"playing", "completed"}
      [] s = "PAUSED" -> {"paused"}
      [] s = "STOPPED" -> {"stopped", "idle"}
      [] s = "COMPLETED" -> {"playing", "paused", "completed"}

(* Between two methods, and with no event on its way, mState is right about*)
(* the plug-in, whatever calls of it have failed: setState_l after each    *)
(* call, the PREPARING left by a prepare that failed, the STOPPED left by  *)
(* a reset whose release failed.  One thing alone misleads it, and only    *)
(* with a plug-in that does not wait: an end that arrived too late.        *)
StateMatchesPlugin == Quiet => phase \in PhasesOf(state) \/ Misled

(* A stream that has ended can be started again, whichever of the event    *)
(* and a start, pause or resume was last to set mState (start_l).          *)
EndedCanRestart == Quiet /\ phase = "completed" => state \in Accepts["start"]

(* The video window set at any time is the plug-in's once it runs.         *)
WindowTakesEffect ==
    Quiet /\ state = "RUNNING" => applied["window"] = stored["window"]

(* Object and plug-in never drift apart, whatever the two clients, the     *)
(* failures and the event thread do in between.                            *)
ObjectAndPluginAgree ==
    TypeOK /\ StateMatchesPlugin /\ EndedCanRestart /\ WindowTakesEffect

Asks(c, f) ==
    call[c].op \in Method /\ Step(c) = Ask(f) /\ call'[c] # call[c]
Prepared == phase \in {"preparing", "prepared", "playing", "paused", "completed"}

(* The plug-in is started and invoked only between a prepare and the next  *)
(* stop or reset, by whichever of the clients and after whatever failures, *)
(* unless a late end of the playback before has set mState since.          *)
PreparedUnlessLate ==
    [][\A c \in Client :
          Asks(c, "start") \/ Asks(c, "invoke") => Prepared \/ "state" \in late]_vars

(* start_l's own comment: a stopped player must be prepared before it is   *)
(* started.                                                                *)
PreparedWhenStarted == [][\A c \in Client : Asks(c, "start") => Prepared]_vars

(* Every method returns, also when the plug-in waits for an event that is  *)
(* being delivered: notifyListener does not need mLock.                    *)
MethodsReturn == \A c \in Client : call[c].op # "none" ~> call[c].op = "none"
=============================================================================
