----------------------------- MODULE PlayerBase -----------------------------
(***************************************************************************)
(* player/AmlPlayerBase.cpp: which codec layer a player gets, and the      *)
(* subtitle half all the layers inherit.  The callbacks of the subtitle    *)
(* library are static functions: they find their player through one weak   *)
(* pointer, sSubtitleCbHandle, which the last starter sets.  The library   *)
(* (SubtitleNativeAPI.h) is external and calls from a thread of its own,   *)
(* CallbackThread here, between any two calls of the clients.              *)
(***************************************************************************)
EXTENDS Naturals, FiniteSets

CONSTANTS
  BasePlayer,     \* the objects
  NoPlayer,       \* a model value: a null sSubtitleCbHandle
  HasTunerHal,    \* built with HAVE_TUNER_HAL
  MultiHwDemux,   \* isSupportMultiHwDemux()
  NonTunnel,      \* AmlMpConfig::mTsPlayerNonTunnel
  EsMemory,       \* the players read elementary streams
  CreateOptions,  \* the options create is called with
  SubtitleCodec,  \* the codecs a client asks for
  SubtitleFaults  \* what may fail: "create" "source" "open" "mediasync"

VARIABLES
  kind,              \* player -> the layer create made, or "none"
  owned,             \* player -> the player object above holds it
  mAmTsPlayerId,     \* AmlMpPlayerRoster: NoPlayer stands for -1
  mSubtitleCodec,    \* player -> the codec of mSubtitleParams
  mSubWindow,        \* player -> mSubWindowX ..
  sub,               \* player -> its subtitle handles and the screen
  sSubtitleCbHandle,
  cbThread           \* the library's thread: [pc, event, to]

bvars == <<kind, owned, mAmTsPlayerId, mSubtitleCodec, mSubWindow, sub,
           sSubtitleCbHandle, cbThread>>

DefaultWindow == "whole"
\* session: mSubtitleHandle, which is created closed; an open that failed
\* leaves it asked.  io: where it reads.  source: mSubSourceHandle is set.
NoSub == [session |-> "none", io |-> "none", source |-> FALSE,
          shown |-> FALSE, window |-> DefaultWindow, pip |-> "none"]
NoCall == [pc |-> "idle", event |-> "none", to |-> NoPlayer]

BaseInit ==
    /\ kind = [p \in BasePlayer |-> "none"]
    /\ owned = [p \in BasePlayer |-> FALSE]
    /\ mAmTsPlayerId = NoPlayer
    /\ mSubtitleCodec = [p \in BasePlayer |-> "UNKNOWN"]
    /\ mSubWindow = [p \in BasePlayer |-> DefaultWindow]
    /\ sub = [p \in BasePlayer |-> NoSub]
    /\ sSubtitleCbHandle = NoPlayer
    /\ cbThread = NoCall

-----------------------------------------------------------------------------
(***************************************************************************)
(* Creation and destruction.                                               *)
(***************************************************************************)
isAmTsPlayerExist == mAmTsPlayerId # NoPlayer

KindOf(options, main) ==
    CASE options = "PREFER_TUNER_HAL" /\ HasTunerHal -> "Tv"
      [] options = "PREFER_CTC" -> "CTC"
      [] options = "DVR_PLAYBACK" -> "Dummy"
      [] OTHER -> IF main \/ ~isAmTsPlayerExist \/ MultiHwDemux \/ NonTunnel
                  THEN "Ts" ELSE "CTC"

(* A dummy is an AmlTsPlayer too: both constructors end in its. *)
IsAmTs(k) == k \in {"Ts", "Dummy"}

(* A new object is none the weak pointer knows. *)
create(p, options, main) ==
    /\ kind[p] = "none"
    /\ kind' = [kind EXCEPT ![p] = KindOf(options, main)]
    /\ owned' = [owned EXCEPT ![p] = TRUE]
    /\ mAmTsPlayerId' = IF IsAmTs(KindOf(options, main)) THEN p
                        ELSE mAmTsPlayerId
    /\ mSubtitleCodec' = [mSubtitleCodec EXCEPT ![p] = "UNKNOWN"]
    /\ mSubWindow' = [mSubWindow EXCEPT ![p] = DefaultWindow]
    /\ sSubtitleCbHandle' = IF sSubtitleCbHandle = p THEN NoPlayer
                            ELSE sSubtitleCbHandle
    /\ UNCHANGED <<sub, cbThread>>

(* The destructor, wherever the last reference is dropped. *)
BaseDestroy(p) ==
    /\ kind' = [kind EXCEPT ![p] = "none"]
    /\ mAmTsPlayerId' = IF IsAmTs(kind[p]) THEN NoPlayer ELSE mAmTsPlayerId
    /\ sub' = [sub EXCEPT ![p] = NoSub]

(* The owner lets go; a callback that has promoted keeps the object. *)
BaseRelease(p) ==
    /\ owned[p]
    /\ owned' = [owned EXCEPT ![p] = FALSE]
    /\ IF cbThread.to = p THEN UNCHANGED <<kind, mAmTsPlayerId, sub>>
       ELSE BaseDestroy(p)
    /\ UNCHANGED <<mSubtitleCodec, mSubWindow, sSubtitleCbHandle, cbThread>>

-----------------------------------------------------------------------------
(***************************************************************************)
(* Subtitles: what a call makes of s, the handles and the screen of one    *)
(* player, when the library calls of f fail.                               *)
(***************************************************************************)
constructAmlSubtitleParam(codec) ==
    CASE codec = "CC"             -> "CLOSED_CAPTION"
      [] codec = "SCTE27"         -> "SCTE27"
      [] codec = "DVB"            -> "DVB"
      [] codec = "TELETEXT"       -> "DVB_TELETEXT"
      [] codec = "TTML"           -> "TTML"
      [] codec \in {"ASS", "SUBRIP"} -> "SSA"
      [] OTHER                    -> "unknown"

showSubtitle(s) == [s EXCEPT !.shown = @ \/ s.session # "none"]

hideSubtitle(s) == [s EXCEPT !.shown = FALSE]

(* The start gets as far as registering the callbacks. *)
Starts(s, codec, f) ==
    /\ constructAmlSubtitleParam(codec) # "unknown"
    /\ s.session = "none" => "create" \notin f
    /\ EsMemory /\ ~s.source => "source" \notin f

(* Where the screen is told the picture is. *)
PipOf(s, codec, f) ==
    CASE NonTunnel /\ "mediasync" \notin f -> "mediasync"
      [] codec = "CC" -> "player"
      [] OTHER -> s.pip

startSubtitleDecoding(s, window, codec, f) ==
    CASE Starts(s, codec, f) ->
           [session |-> IF "open" \in f THEN "asked" ELSE "open",
            io |-> IF EsMemory /\ ~s.source THEN "SOCK" ELSE "DEMUX",
            source |-> EsMemory, shown |-> TRUE, window |-> window,
            pip |-> PipOf(s, codec, f)]
      [] OTHER ->
           IF constructAmlSubtitleParam(codec) = "unknown"
              \/ s.session # "none" \/ "create" \in f
           THEN s ELSE [s EXCEPT !.session = "closed"]

stopSubtitleDecoding(s) ==
    IF s.session = "none" THEN s
    ELSE [hideSubtitle(s) EXCEPT !.session = "closed", !.io = "none",
                                 !.source = FALSE]

(* Mutant: the pointer is left behind. *)
BuggyStopped(p) == sSubtitleCbHandle

(* What a stop makes of the static pointer. *)
CbStopped(p) ==
    IF sSubtitleCbHandle = p /\ sub[p].session # "none" THEN NoPlayer
    ELSE sSubtitleCbHandle

-----------------------------------------------------------------------------
(***************************************************************************)
(* The calls of the object above, one player at a time.                    *)
(***************************************************************************)
AboveUnchanged == UNCHANGED <<kind, owned, mAmTsPlayerId, cbThread>>

BaseStart(p, f) ==
    /\ owned[p]
    /\ sub' = [sub EXCEPT ![p] = startSubtitleDecoding(@, mSubWindow[p],
                                                       mSubtitleCodec[p], f)]
    /\ sSubtitleCbHandle' = IF Starts(sub[p], mSubtitleCodec[p], f) THEN p
                            ELSE sSubtitleCbHandle
    /\ UNCHANGED <<mSubtitleCodec, mSubWindow>> /\ AboveUnchanged

BaseStop(p) ==
    /\ owned[p]
    /\ sub' = [sub EXCEPT ![p] = stopSubtitleDecoding(@)]
    /\ sSubtitleCbHandle' = CbStopped(p)
    /\ UNCHANGED <<mSubtitleCodec, mSubWindow>> /\ AboveUnchanged

setSubtitleParams(p, codec) ==
    /\ owned[p]
    /\ mSubtitleCodec' = [mSubtitleCodec EXCEPT ![p] = codec]
    /\ UNCHANGED <<sub, sSubtitleCbHandle, mSubWindow>> /\ AboveUnchanged

(* Stop, the new parameters, start: one call. *)
switchSubtitleTrack(p, codec, f) ==
    LET stopped == stopSubtitleDecoding(sub[p])
    IN  /\ owned[p]
        /\ mSubtitleCodec' = [mSubtitleCodec EXCEPT ![p] = codec]
        /\ sub' = [sub EXCEPT ![p] =
                     startSubtitleDecoding(stopped, mSubWindow[p], codec, f)]
        /\ sSubtitleCbHandle' = IF Starts(stopped, codec, f) THEN p
                                ELSE CbStopped(p)
        /\ UNCHANGED mSubWindow /\ AboveUnchanged

BaseShow(p, shown) ==
    /\ owned[p]
    /\ sub' = [sub EXCEPT ![p] = IF shown THEN showSubtitle(@)
                                 ELSE hideSubtitle(@)]
    /\ UNCHANGED <<sSubtitleCbHandle, mSubtitleCodec, mSubWindow>>
    /\ AboveUnchanged

(* A window set early is kept; a session that exists is told at once. *)
setSubtitleWindow(p, w) ==
    /\ owned[p]
    /\ mSubWindow' = [mSubWindow EXCEPT ![p] = w]
    /\ sub' = IF sub[p].session = "none" THEN sub
              ELSE [sub EXCEPT ![p].window = w]
    /\ UNCHANGED <<sSubtitleCbHandle, mSubtitleCodec>> /\ AboveUnchanged

(* flush and the teletext control reach the library and change nothing     *)
(* here; both fail without a session.                                      *)
BaseFlush(p) == owned[p] /\ UNCHANGED bvars

BaseSetParameter(p, key) ==
    owned[p] /\ key = "TELETEXT_CONTROL" /\ UNCHANGED bvars

(* The first picture of a non-tunnel player places its subtitles anew      *)
(* before the client hears of it.                                          *)
notifyListener(p, event) ==
    /\ owned[p]
    /\ sub' = IF /\ event = "VIDEO_DECODE_FIRST_FRAME"
                 /\ sub[p].session # "none" /\ NonTunnel
              THEN [sub EXCEPT ![p].pip = "mediasync"] ELSE sub
    /\ UNCHANGED <<kind, owned, mAmTsPlayerId, mSubtitleCodec, mSubWindow,
                   sSubtitleCbHandle, cbThread>>

-----------------------------------------------------------------------------
(***************************************************************************)
(* The callbacks.  Each reads the weak pointer, promotes it, and tells the *)
(* listener of the player it found.                                        *)
(***************************************************************************)
AmlMPSubtitleAvailCb(avail) ==
    CASE avail = "NORMAL"      -> "SUBTITLE_AVAIL"
      [] avail = "TIMEOUT"     -> "SUBTITLE_TIMEOUT"
      [] avail = "LOSEDATA"    -> "SUBTITLE_LOSEDATA"
      [] avail = "INVALIDDATA" -> "SUBTITLE_INVALID_DATA"
      [] avail = "TIMEERROR"   -> "SUBTITLE_INVALID_TIMESTAMP"
      [] OTHER                 -> "none"

SubtitleUnchanged ==
    UNCHANGED <<owned, mSubtitleCodec, mSubWindow, sSubtitleCbHandle>>

(* The library calls while some session is open. *)
CbEnters(event) ==
    /\ cbThread.pc = "idle" /\ sSubtitleCbHandle # NoPlayer
    /\ \E p \in BasePlayer : sub[p].session = "open"
    /\ cbThread' = [NoCall EXCEPT !.pc = "promote", !.event = event]
    /\ UNCHANGED <<kind, mAmTsPlayerId, sub>> /\ SubtitleUnchanged

(* promote fails when the pointer was cleared or its object is gone. *)
Promoted(p) == p # NoPlayer /\ kind[p] # "none"

CbPromotes ==
    /\ cbThread.pc = "promote"
    /\ cbThread' = IF Promoted(sSubtitleCbHandle)
                   THEN [cbThread EXCEPT !.pc = "notify", !.to = sSubtitleCbHandle]
                   ELSE NoCall
    /\ UNCHANGED <<kind, mAmTsPlayerId, sub>> /\ SubtitleUnchanged

(* The listener is told, and the reference the callback took goes: if it   *)
(* was the last one, the object dies on the library's thread.              *)
CbNotifies ==
    /\ cbThread.pc = "notify"
    /\ cbThread' = NoCall
    /\ IF owned[cbThread.to] THEN UNCHANGED <<kind, mAmTsPlayerId, sub>>
       ELSE BaseDestroy(cbThread.to)
    /\ SubtitleUnchanged

AmlMPSubtitleCb ==
    \/ \E event \in {"SUBTITLE_DATA", AmlMPSubtitleAvailCb("TIMEOUT"),
                     AmlMPSubtitleAvailCb("other")} : CbEnters(event)
    \/ CbPromotes \/ CbNotifies

BaseNext ==
    \/ \E p \in BasePlayer :
         \/ \E options \in CreateOptions, main \in BOOLEAN : create(p, options, main)
         \/ BaseRelease(p) \/ BaseStop(p)
         \/ \E f \in SUBSET SubtitleFaults :
              \/ BaseStart(p, f)
              \/ \E codec \in SubtitleCodec : switchSubtitleTrack(p, codec, f)
         \/ \E codec \in SubtitleCodec : setSubtitleParams(p, codec)
         \/ \E shown \in BOOLEAN : BaseShow(p, shown)
         \/ setSubtitleWindow(p, "small")
         \/ BaseFlush(p) \/ BaseSetParameter(p, "TELETEXT_CONTROL")
         \/ notifyListener(p, "VIDEO_DECODE_FIRST_FRAME")
    \/ AmlMPSubtitleCb

-----------------------------------------------------------------------------
(* A subtitle event is only ever given to a player that exists, and the    *)
(* static pointer of the callbacks names a player whose subtitles are      *)
(* running: when one session is open, its events can reach no other        *)
(* player.                                                                 *)
SubtitlesFindTheirPlayer ==
    /\ cbThread.pc = "notify" => kind[cbThread.to] # "none"
    /\ sSubtitleCbHandle # NoPlayer /\ kind[sSubtitleCbHandle] # "none"
       => sub[sSubtitleCbHandle].session \in {"asked", "open"}
=============================================================================
