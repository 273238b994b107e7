------------------------------ MODULE DvrPlayer ------------------------------
(***************************************************************************)
(* dvr/AmlDVRPlayer.cpp behind the Aml_MP_DVRPlayer_ functions of          *)
(* dvr/Aml_MP_DVR.cpp: one object that plays a recording.  It owns a       *)
(* player of Aml_MP_Player.h, whose codec layer it lends to a playback     *)
(* session of libDVR.  No method takes a lock: start and stopInternal are  *)
(* taken a library call at a time, and the threads of Client share the     *)
(* object.  libDVR and the player beneath are external; a call named in    *)
(* DvrFaults may fail.                                                     *)
(***************************************************************************)
EXTENDS Integers, FiniteSets, Sequences

CONSTANTS
  Client,        \* threads that call the object
  DvrFaults,     \* library calls that may fail
  DvrStreams,    \* what setStreams is called with: [video, audio, ad : pids]
  MaxStarts      \* bound: calls of start

(* Pids are integers, and so is the number of starts. *)
ASSUME DvrAssumption ==
    /\ MaxStarts \in Nat
    /\ DvrStreams \subseteq [video : Int, audio : Int, ad : Int]

NoPid == 0 - 1
NoHandle == 0
Handle == 1 .. MaxStarts + 1        \* one per creation, never reused

VARIABLES
  dObject,       \* "none" | "live": the AmlDVRPlayer
  dHandle,       \* mDVRPlayerHandle
  dMp,           \* mMpPlayerHandle
  dPids,         \* mPlayPids
  dOffset,       \* mStartOffset
  dWindow,       \* mNativeWindow
  dCb,           \* mEventCb is set
  sess,          \* the playback sessions of libDVR, by handle
  mps,           \* the players of Aml_MP_Player.h, by handle
  dpc,           \* thread -> where it is
  dh,            \* thread -> the handle it read
  told,          \* what the client was told: "created" | "started" | "stopped"
  asked,         \* the offset last asked for since the last stop
  misuse,        \* a call was made on a handle that was gone
  heard          \* the last event the client heard

dvars == <<dObject, dHandle, dMp, dPids, dOffset, dWindow, dCb, sess, mps,
           dpc, dh, told, asked, misuse, heard>>

Outcome(call) == IF call \in DvrFaults THEN BOOLEAN ELSE {TRUE}

NoStreams == [video |-> 0, audio |-> 0, ad |-> 0]
NoSession == [state |-> "none", mp |-> NoHandle, pids |-> NoStreams,
              offset |-> NoPid, deaf |-> FALSE, missed |-> FALSE]
NoMp == [state |-> "none", running |-> FALSE, pids |-> NoStreams,
         window |-> 0, volume |-> FALSE]
ClosedSession == [NoSession EXCEPT !.state = "closed"]
GoneMp == [NoMp EXCEPT !.state = "gone"]
Opened == {s \in Handle : sess[s].state # "none" /\ sess[s].state # "closed"}
NextHandle(table, unused) ==
    CHOOSE h \in Handle : table[h] = unused
                          /\ \A k \in Handle : k < h => table[k] # unused

DvrInit ==
    /\ dObject = "none" /\ dHandle = NoHandle /\ dMp = NoHandle
    /\ dPids = NoStreams /\ dOffset = NoPid /\ dWindow = 0 /\ dCb = FALSE
    /\ sess = [s \in Handle |-> NoSession]
    /\ mps = [h \in Handle |-> NoMp]
    /\ dpc = [c \in Client |-> "idle"] /\ dh = [c \in Client |-> NoHandle]
    /\ told = "stopped" /\ asked = NoPid /\ misuse = FALSE /\ heard = "none"

(***************************************************************************)
(* The table of the events: what libDVR says and what the client hears.    *)
(***************************************************************************)
Same == {"ERROR", "TRANSITION_OK", "TRANSITION_FAILED", "KEY_FAILURE",
         "NO_KEY", "REACHED_BEGIN", "REACHED_END", "NOTIFY_PLAYTIME",
         "TIMESHIFT_FR_REACHED_BEGIN", "TIMESHIFT_FF_REACHED_END"}

eventHandlerLibDVR(event) ==
    CASE event \in Same        -> "DVRPLAYER_" \o event
      [] event = "FIRST_FRAME" -> "PLAYER_FIRST_FRAME"
      [] OTHER                 -> "none"

(* A state the table does not know reads START. *)
convertToMpDVRPlayerState(state) ==
    IF state \in {"START", "STOP", "PAUSE", "FF", "FB"} THEN state ELSE "START"

-----------------------------------------------------------------------------
(* createMpPlayerIfNeeded: the new player knows nothing of the streams and *)
(* settings its predecessor was given.                                     *)
NewMp == [NoMp EXCEPT !.state = "alive"]

createMpPlayerIfNeeded(ok) ==
    IF dMp # NoHandle \/ ~ok
    THEN UNCHANGED <<dMp, mps>>
    ELSE LET h == NextHandle(mps, NoMp)
         IN /\ dMp' = h
            /\ mps' = [mps EXCEPT ![h] = NewMp]

DvrCreate(c) ==
    /\ dObject = "none" /\ dpc[c] = "idle" /\ \E h \in Handle : mps[h] = NoMp
    /\ dObject' = "live" /\ told' = "created"
    /\ \E ok \in Outcome("create") : createMpPlayerIfNeeded(ok)
    /\ UNCHANGED <<dHandle, dPids, dOffset, dWindow, dCb, sess, dpc, dh, asked,
                   misuse, heard>>

(* The destructor frees the object and nothing it holds; a client stops    *)
(* the object first.                                                       *)
DvrDestroy(c) ==
    /\ dObject = "live" /\ told = "stopped"
    /\ \A d \in Client : dpc[d] = "idle"
    /\ dObject' = "none"
    /\ dPids' = NoStreams /\ dOffset' = NoPid /\ dWindow' = 0 /\ dCb' = FALSE
    /\ dHandle' = NoHandle /\ dMp' = NoHandle /\ asked' = NoPid
    /\ heard' = "none"
    /\ UNCHANGED <<sess, mps, dpc, dh, told, misuse>>

DvrRegister(c) ==
    /\ dObject = "live" /\ dpc[c] = "idle" /\ ~dCb
    /\ dCb' = TRUE
    /\ UNCHANGED <<dObject, dHandle, dMp, dPids, dOffset, dWindow, sess, mps,
                   dpc, dh, told, asked, misuse, heard>>

-----------------------------------------------------------------------------
(* An audio description with the pid of the main audio is none. *)
PlayPids(s) == IF s.ad = s.audio THEN [s EXCEPT !.ad = NoPid] ELSE s

(* The player is told of a description only when there is one. *)
MpStreams(old, p) == IF p.ad # NoPid THEN p ELSE [p EXCEPT !.ad = old.ad]

setStreamsCommon(s) ==
    /\ dPids' = PlayPids(s)
    /\ mps' = IF dMp = NoHandle THEN mps
              ELSE [mps EXCEPT ![dMp].pids = MpStreams(@, PlayPids(s))]

(* A running session is told at once; dvr_wrapper_update_playback may fail. *)
DvrSetStreams(c) ==
    /\ dObject = "live" /\ dpc[c] = "idle"
    /\ \E s \in DvrStreams, ok \in Outcome("update") :
         /\ setStreamsCommon(s)
         /\ sess' = IF dHandle = NoHandle THEN sess
                    ELSE IF ok THEN [sess EXCEPT ![dHandle].pids = PlayPids(s),
                                                 ![dHandle].deaf = FALSE]
                    ELSE [sess EXCEPT ![dHandle].deaf = TRUE]
    /\ UNCHANGED <<dObject, dHandle, dMp, dOffset, dWindow, dCb, dpc, dh, told,
                   asked, misuse, heard>>

(* onlySetStreams tells libDVR without a restart of the decoders. *)
DvrOnlySetStreams(c) == DvrSetStreams(c)

DvrSeek(c) ==
    /\ dObject = "live" /\ dpc[c] = "idle"
    /\ \E t \in {0, 1} :
         IF dHandle # NoHandle
         THEN \E ok \in Outcome("seek") :
                /\ sess' = IF ok THEN [sess EXCEPT ![dHandle].offset = t,
                                                  ![dHandle].missed = FALSE] ELSE sess
                /\ asked' = IF ok THEN t ELSE asked
                /\ UNCHANGED dOffset
         ELSE dOffset' = t /\ asked' = t /\ UNCHANGED sess
    /\ UNCHANGED <<dObject, dHandle, dMp, dPids, dWindow, dCb, mps, dpc, dh,
                   told, misuse, heard>>

(* The result of the player hides that of libDVR. *)
DvrPause(c) ==
    /\ dObject = "live" /\ dpc[c] = "idle" /\ dHandle # NoHandle
    /\ sess[dHandle].state = "START"
    /\ \E ok \in Outcome("pause") :
         sess' = IF ok THEN [sess EXCEPT ![dHandle].state = "PAUSE"] ELSE sess
    /\ mps' = IF dMp = NoHandle THEN mps ELSE [mps EXCEPT ![dMp].running = FALSE]
    /\ UNCHANGED <<dObject, dHandle, dMp, dPids, dOffset, dWindow, dCb, dpc, dh,
                   told, asked, misuse, heard>>

DvrResume(c) ==
    /\ dObject = "live" /\ dpc[c] = "idle" /\ dHandle # NoHandle
    /\ sess[dHandle].state = "PAUSE"
    /\ sess' = [sess EXCEPT ![dHandle].state = "START"]
    /\ mps' = IF dMp = NoHandle THEN mps ELSE [mps EXCEPT ![dMp].running = TRUE]
    /\ UNCHANGED <<dObject, dHandle, dMp, dPids, dOffset, dWindow, dCb, dpc, dh,
                   told, asked, misuse, heard>>

(* A rate goes to libDVR, which calls it fast forward or backward. *)
DvrSetPlaybackRate(c) ==
    /\ dObject = "live" /\ dpc[c] = "idle" /\ dHandle # NoHandle
    /\ sess[dHandle].state \in {"START", "FF", "FB"}
    /\ \E state \in {"START", "FF", "FB"} :
         sess' = [sess EXCEPT ![dHandle].state = state]
    /\ UNCHANGED <<dObject, dHandle, dMp, dPids, dOffset, dWindow, dCb, mps, dpc,
                   dh, told, asked, misuse, heard>>

(* The object keeps the window ... *)
DvrSetANativeWindow(c) ==
    /\ dObject = "live" /\ dpc[c] = "idle" /\ dWindow = 0
    /\ dWindow' = 1
    /\ mps' = IF dMp = NoHandle THEN mps ELSE [mps EXCEPT ![dMp].window = 1]
    /\ UNCHANGED <<dObject, dHandle, dMp, dPids, dOffset, dCb, sess, dpc, dh, told,
                   asked, misuse, heard>>

(* ... but volume, video window, visibility and parameters only pass to   *)
(* the player there is: volume stands for all of them.                     *)
DvrSetting(c) ==
    /\ dObject = "live" /\ dpc[c] = "idle" /\ dMp # NoHandle
    /\ mps' = [mps EXCEPT ![dMp].volume = TRUE]
    /\ UNCHANGED <<dObject, dHandle, dMp, dPids, dOffset, dWindow, dCb, sess, dpc,
                   dh, told, asked, misuse, heard>>

-----------------------------------------------------------------------------
(* start, a library call at a time. *)
Goto(c, where) == dpc' = [dpc EXCEPT ![c] = where]

StartCreates(c) ==
    /\ dObject = "live" /\ dpc[c] = "idle" /\ told # "started"
    /\ \E h \in Handle : mps[h] = NoMp
    /\ \E ok \in Outcome("create") :
         /\ createMpPlayerIfNeeded(ok)
         /\ Goto(c, IF dMp' = NoHandle THEN "idle" ELSE "startMp")
    /\ UNCHANGED <<dObject, dHandle, dPids, dOffset, dWindow, dCb, sess, dh, told,
                   asked, misuse, heard>>

(* The window and the callback are passed on, and the player starts; its   *)
(* codec layer may not exist: then there is no handle to lend.             *)
StartsPlayer(c) ==
    /\ dpc[c] = "startMp"
    /\ mps' = [mps EXCEPT ![dMp].window = dWindow, ![dMp].running = TRUE]
    /\ \E ok \in Outcome("device") : Goto(c, IF ok THEN "open" ELSE "stop")
    /\ UNCHANGED <<dObject, dHandle, dMp, dPids, dOffset, dWindow, dCb, sess, dh,
                   told, asked, misuse, heard>>

StartOpens(c) ==
    /\ dpc[c] = "open"
    /\ \E ok \in Outcome("open") :
         IF ok
         THEN LET s == NextHandle(sess, NoSession)
              IN /\ dHandle' = s
                 /\ sess' = [sess EXCEPT ![s].state = "opened", ![s].mp = dMp]
                 /\ Goto(c, "begin")
         ELSE Goto(c, "stop") /\ UNCHANGED <<dHandle, sess>>
    /\ UNCHANGED <<dObject, dMp, dPids, dOffset, dWindow, dCb, mps, dh, told,
                   asked, misuse, heard>>

\* Mutant: a failed start leaves what it opened to the next stop.
StartBeginsOnly(c) ==
    /\ dpc[c] = "begin"
    /\ \E ok \in Outcome("begin"), paused \in BOOLEAN :
         IF ok
         THEN /\ sess' = [sess EXCEPT
                            ![dHandle].state = IF paused THEN "PAUSE" ELSE "START",
                            ![dHandle].pids = dPids]
              /\ Goto(c, "seek") /\ UNCHANGED told
         ELSE Goto(c, "idle") /\ UNCHANGED <<sess, told>>
    /\ UNCHANGED <<dObject, dHandle, dMp, dPids, dOffset, dWindow, dCb, mps, dh,
                   asked, misuse, heard>>

(* dvr_wrapper_start_playback, then the offset stored before the start. *)
StartBegins(c) ==
    /\ dpc[c] = "begin"
    /\ \E ok \in Outcome("begin"), paused \in BOOLEAN :
         IF ok
         THEN /\ sess' = [sess EXCEPT
                            ![dHandle].state = IF paused THEN "PAUSE" ELSE "START",
                            ![dHandle].pids = dPids]
              /\ Goto(c, "seek") /\ UNCHANGED told
         ELSE Goto(c, "stop") /\ UNCHANGED <<sess, told>>
    /\ UNCHANGED <<dObject, dHandle, dMp, dPids, dOffset, dWindow, dCb, mps, dh,
                   asked, misuse, heard>>

StartSeeks(c) ==
    /\ dpc[c] = "seek"
    /\ \E ok \in Outcome("seek") :
         sess' = IF dOffset = NoPid THEN sess
                 ELSE IF ok THEN [sess EXCEPT ![dHandle].offset = dOffset]
                 ELSE [sess EXCEPT ![dHandle].missed = TRUE]
    /\ dOffset' = NoPid
    /\ told' = "started"
    /\ Goto(c, "idle")
    /\ UNCHANGED <<dObject, dHandle, dMp, dPids, dWindow, dCb, mps, dh, asked,
                   misuse, heard>>

-----------------------------------------------------------------------------
(* stopInternal, where a member is read and where the call is made. *)
DvrStop(c) ==
    /\ dObject = "live" /\ dpc[c] = "idle"
    /\ told = "stopped" => Cardinality(Client) > 1
    /\ Goto(c, "stop")
    /\ UNCHANGED <<dObject, dHandle, dMp, dPids, dOffset, dWindow, dCb, sess, mps,
                   dh, told, asked, misuse, heard>>

Usable(table, h) == h # NoHandle /\ table[h].state \notin {"none", "closed"}

StopReadsSession(c) ==
    /\ dpc[c] = "stop"
    /\ dh' = [dh EXCEPT ![c] = dHandle]
    /\ Goto(c, IF dHandle # NoHandle THEN "stopDvr" ELSE "readMp")
    /\ UNCHANGED <<dObject, dHandle, dMp, dPids, dOffset, dWindow, dCb, sess, mps,
                   told, asked, misuse, heard>>

StopsSession(c) ==
    /\ dpc[c] = "stopDvr"
    /\ misuse' = (misuse \/ ~Usable(sess, dh[c]))
    /\ sess' = IF Usable(sess, dh[c]) THEN [sess EXCEPT ![dh[c]].state = "STOP"] ELSE sess
    /\ dh' = [dh EXCEPT ![c] = dHandle]            \* tmp
    /\ Goto(c, "closeDvr")
    /\ UNCHANGED <<dObject, dHandle, dMp, dPids, dOffset, dWindow, dCb, mps, told,
                   asked, heard>>

ClosesSession(c) ==
    /\ dpc[c] = "closeDvr"
    /\ dHandle' = NoHandle
    /\ misuse' = (misuse \/ ~Usable(sess, dh[c]))
    /\ sess' = IF Usable(sess, dh[c]) THEN [sess EXCEPT ![dh[c]] = ClosedSession] ELSE sess
    /\ Goto(c, "readMp")
    /\ UNCHANGED <<dObject, dMp, dPids, dOffset, dWindow, dCb, mps, dh, told,
                   asked, heard>>

StopReadsPlayer(c) ==
    /\ dpc[c] = "readMp"
    /\ dh' = [dh EXCEPT ![c] = dMp]
    /\ Goto(c, IF dMp # NoHandle THEN "stopMp" ELSE "stopped")
    /\ UNCHANGED <<dObject, dHandle, dMp, dPids, dOffset, dWindow, dCb, sess, mps,
                   told, asked, misuse, heard>>

StopsPlayer(c) ==
    /\ dpc[c] = "stopMp"
    /\ misuse' = (misuse \/ mps[dh[c]].state # "alive")
    /\ mps' = IF dh[c] = NoHandle THEN mps ELSE [mps EXCEPT ![dh[c]].running = FALSE]
    /\ dh' = [dh EXCEPT ![c] = dMp]                \* tmpHandle
    /\ Goto(c, "destroyMp")
    /\ UNCHANGED <<dObject, dHandle, dMp, dPids, dOffset, dWindow, dCb, sess, told,
                   asked, heard>>

(* A null handle is refused; another is taken at its word. *)
DestroysPlayer(c) ==
    /\ dpc[c] = "destroyMp"
    /\ dMp' = NoHandle
    /\ misuse' = (misuse \/ (dh[c] # NoHandle /\ mps[dh[c]].state # "alive"))
    /\ mps' = IF dh[c] = NoHandle THEN mps ELSE [mps EXCEPT ![dh[c]] = GoneMp]
    /\ Goto(c, "stopped")
    /\ UNCHANGED <<dObject, dHandle, dPids, dOffset, dWindow, dCb, sess, dh, told,
                   asked, heard>>

\* Mutant: the stored offset outlives a stop.
StopEndsKeepingOffset(c) ==
    /\ dpc[c] = "stopped"
    /\ asked' = NoPid /\ told' = "stopped"
    /\ dh' = [dh EXCEPT ![c] = NoHandle]
    /\ Goto(c, "idle")
    /\ UNCHANGED <<dObject, dHandle, dMp, dPids, dOffset, dWindow, dCb, sess, mps,
                   misuse, heard>>

StopEnds(c) ==
    /\ dpc[c] = "stopped"
    /\ dOffset' = NoPid /\ asked' = NoPid /\ told' = "stopped"
    /\ dh' = [dh EXCEPT ![c] = NoHandle]
    /\ Goto(c, "idle")
    /\ UNCHANGED <<dObject, dHandle, dMp, dPids, dWindow, dCb, sess, mps, misuse,
                   heard>>

-----------------------------------------------------------------------------
(* libDVR's thread reports on a session that is open. *)
LibDvrEvent ==
    /\ dCb
    /\ \E s \in Opened, event \in {"FIRST_FRAME", "unknown"} :
         /\ eventHandlerLibDVR(event) # "none"
         /\ heard' = eventHandlerLibDVR(event)
    /\ UNCHANGED <<dObject, dHandle, dMp, dPids, dOffset, dWindow, dCb, sess, mps,
                   dpc, dh, told, asked, misuse>>

start(c) == StartCreates(c) \/ StartsPlayer(c) \/ StartOpens(c)
            \/ StartBegins(c) \/ StartSeeks(c)

stopInternal(c) == StopReadsSession(c) \/ StopsSession(c) \/ ClosesSession(c)
                   \/ StopReadsPlayer(c) \/ StopsPlayer(c) \/ DestroysPlayer(c)
                   \/ StopEnds(c)

(* One function of the C interface each. *)
Aml_MP_DVRPlayer(c) ==
    \/ DvrCreate(c) \/ DvrDestroy(c) \/ DvrRegister(c)
    \/ DvrSetStreams(c) \/ DvrOnlySetStreams(c)
    \/ DvrStop(c) \/ DvrPause(c) \/ DvrResume(c) \/ DvrSeek(c)
    \/ DvrSetPlaybackRate(c)
Aml_MP_DVRPlayer_Settings(c) == DvrSetANativeWindow(c) \/ DvrSetting(c)

DvrNext ==
    \/ \E c \in Client : \/ Aml_MP_DVRPlayer(c) \/ Aml_MP_DVRPlayer_Settings(c)
                         \/ start(c) \/ stopInternal(c)
    \/ LibDvrEvent

DvrSpec == DvrInit /\ [][DvrNext]_dvars
-----------------------------------------------------------------------------
(***************************************************************************)
(* Properties                                                              *)
(***************************************************************************)
Quiet == \A c \in Client : dpc[c] = "idle"

(* A client that was told nothing plays has no session left open, and one  *)
(* told that it plays has exactly the one the object holds; a session      *)
(* decodes through the codec layer of the player it was lent, so that      *)
(* player lives as long as the session does, through every failed start    *)
(* and every stop; and no call was ever made on a handle that was gone.    *)
SessionHasItsPlayer == \A s \in Opened : mps[sess[s].mp].state = "alive"
SessionsAreTheClients ==
    /\ Quiet => Opened = (IF told = "started" THEN {dHandle} ELSE {})
    /\ SessionHasItsPlayer
    /\ ~misuse

(* What a running session plays is what was last asked for, whatever was   *)
(* stopped, restarted or refused in between: the streams of the last       *)
(* setStreams and the last offset asked for since the last stop, unless    *)
(* libDVR refused them, and the window last set.                           *)
SessionPlaysWhatWasAsked ==
    (Quiet /\ told = "started") =>
        /\ sess[dHandle].deaf \/ sess[dHandle].pids = dPids
        /\ sess[dHandle].missed \/ sess[dHandle].offset = asked
        /\ mps[dMp].window = dWindow

(* Both: the client has the session it was told of, and it plays what the  *)
(* client asked for.                                                       *)
SessionServesItsClient == SessionsAreTheClients /\ SessionPlaysWhatWasAsked
=============================================================================
