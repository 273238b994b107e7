---------------------------- MODULE CodecProofs -----------------------------
(***************************************************************************)
(* What is proved of the codec layers, each for every value of its         *)
(* constants: the subtitle half of AmlPlayerBase, AmlCTCPlayer over its    *)
(* library, AmlTvPlayer over the tuner HAL, AmlTsPlayer with the thread    *)
(* that feeds it, and its packetizer.  Each has its own inductive          *)
(* invariant; a step of the composition is a step of one layer.            *)
(***************************************************************************)
EXTENDS CodecMC, FiniteSetTheorems, WellFoundedInduction, TLAPS

-----------------------------------------------------------------------------
(* AmlPlayerBase: the static pointer of the subtitle callbacks.            *)
BaseInv ==
    /\ DOMAIN kind = BasePlayer /\ DOMAIN sub = BasePlayer
    /\ \A p \in BasePlayer :
          {"session", "io", "source", "shown", "window", "pip"} \subseteq DOMAIN sub[p]
    /\ sSubtitleCbHandle \in BasePlayer \cup {NoPlayer}
    /\ {"pc", "event", "to"} \subseteq DOMAIN cbThread
    /\ cbThread.pc = "notify" => cbThread.to \in BasePlayer
    /\ SubtitlesFindTheirPlayer

LEMMA BaseInitial == BaseInit => BaseInv
BY DEF BaseInit, BaseInv, NoSub, NoCall, SubtitlesFindTheirPlayer

(* What the six fields of sub are is kept by every method.                 *)
SubFields(s) == {"session", "io", "source", "shown", "window", "pip"} \subseteq DOMAIN s

LEMMA SubtitleMethods ==
    ASSUME NEW s, SubFields(s), NEW w, NEW c, NEW f
    PROVE  /\ SubFields(startSubtitleDecoding(s, w, c, f))
           /\ Starts(s, c, f) =>
                 startSubtitleDecoding(s, w, c, f).session \in {"asked", "open"}
           /\ SubFields(stopSubtitleDecoding(s))
           /\ s.session = "none" => stopSubtitleDecoding(s) = s
           /\ s.session # "none" => stopSubtitleDecoding(s).session = "closed"
           /\ \A b \in BOOLEAN :
                 LET t == IF b THEN showSubtitle(s) ELSE hideSubtitle(s)
                 IN  SubFields(t) /\ t.session = s.session
<1>1. /\ SubFields(startSubtitleDecoding(s, w, c, f))
      /\ Starts(s, c, f) =>
            startSubtitleDecoding(s, w, c, f).session \in {"asked", "open"}
  <2>1. CASE Starts(s, c, f)
    BY <2>1 DEF SubFields, startSubtitleDecoding
  <2>2. CASE ~Starts(s, c, f)
    BY <2>2 DEF SubFields, startSubtitleDecoding
  <2> QED
    BY <2>1, <2>2
<1>2. /\ SubFields(stopSubtitleDecoding(s))
      /\ s.session = "none" => stopSubtitleDecoding(s) = s
      /\ s.session # "none" => stopSubtitleDecoding(s).session = "closed"
  BY DEF SubFields, stopSubtitleDecoding, hideSubtitle
<1>3. ASSUME NEW b \in BOOLEAN
      PROVE  LET t == IF b THEN showSubtitle(s) ELSE hideSubtitle(s)
             IN  SubFields(t) /\ t.session = s.session
  BY DEF SubFields, showSubtitle, hideSubtitle
<1> QED
  BY <1>1, <1>2, <1>3

(* A call of one player that leaves kind and the library's thread alone:   *)
(* the pointer stays, or names this player with a session that was asked   *)
(* for, or is cleared.                                                     *)
LEMMA SubtitleCall ==
    ASSUME BaseInv, NEW p \in BasePlayer, NEW s, SubFields(s),
           sub' = [sub EXCEPT ![p] = s], UNCHANGED <<kind, cbThread>>,
           \/ sSubtitleCbHandle' = p /\ s.session \in {"asked", "open"}
           \/ sSubtitleCbHandle' = NoPlayer
           \/ /\ sSubtitleCbHandle' = sSubtitleCbHandle
              /\ \/ sSubtitleCbHandle # p \/ kind[p] = "none"
                 \/ s.session \in {"asked", "open"} \/ s.session = sub[p].session
    PROVE  BaseInv'
BY DEF BaseInv, SubFields, SubtitlesFindTheirPlayer

LEMMA BaseDestroyed ==
    ASSUME BaseInv, NEW p \in BasePlayer, BaseDestroy(p),
           UNCHANGED sSubtitleCbHandle,
           (cbThread' = cbThread /\ cbThread.to # p) \/ cbThread' = NoCall
    PROVE  BaseInv'
BY DEF BaseInv, BaseDestroy, SubtitlesFindTheirPlayer, NoSub, NoCall

LEMMA BaseStepKeepsInv == BaseInv /\ [BaseNext]_bvars => BaseInv'
<1> SUFFICES ASSUME BaseInv, [BaseNext]_bvars PROVE BaseInv'
  OBVIOUS
<1>1. \A p \in BasePlayer : SubFields(sub[p])
  BY DEF BaseInv, SubFields
<1>2. ASSUME NEW p \in BasePlayer, NEW o, NEW m, create(p, o, m) PROVE BaseInv'
  BY <1>2 DEF BaseInv, create, SubtitlesFindTheirPlayer
<1>3. ASSUME NEW p \in BasePlayer, BaseRelease(p) PROVE BaseInv'
  <2>1. CASE cbThread.to = p
    BY <1>3, <2>1 DEF BaseRelease, BaseInv, SubtitlesFindTheirPlayer
  <2>2. CASE cbThread.to # p
    BY <1>3, <2>2, BaseDestroyed DEF BaseRelease
  <2> QED
    BY <2>1, <2>2
<1>4. ASSUME NEW p \in BasePlayer, BaseStop(p) PROVE BaseInv'
  <2>1. sub' = [sub EXCEPT ![p] = stopSubtitleDecoding(sub[p])] /\ UNCHANGED <<kind, cbThread>>
    BY <1>4 DEF BaseStop, AboveUnchanged
  <2>2. sSubtitleCbHandle' = CbStopped(p)
    BY <1>4 DEF BaseStop
  <2>3. SubFields(stopSubtitleDecoding(sub[p]))
    BY <1>1, SubtitleMethods
  <2>4. \/ sSubtitleCbHandle' = NoPlayer
        \/ /\ sSubtitleCbHandle' = sSubtitleCbHandle
           /\ \/ sSubtitleCbHandle # p
              \/ stopSubtitleDecoding(sub[p]).session = sub[p].session
    BY <1>1, <2>2, SubtitleMethods DEF CbStopped
  <2> QED
    BY <2>1, <2>3, <2>4, SubtitleCall
<1>5. ASSUME NEW p \in BasePlayer, NEW f, BaseStart(p, f) PROVE BaseInv'
  <2> DEFINE s == startSubtitleDecoding(sub[p], mSubWindow[p], mSubtitleCodec[p], f)
  <2>1. sub' = [sub EXCEPT ![p] = s] /\ UNCHANGED <<kind, cbThread>>
    BY <1>5 DEF BaseStart, AboveUnchanged
  <2>2. sSubtitleCbHandle' = IF Starts(sub[p], mSubtitleCodec[p], f) THEN p
                             ELSE sSubtitleCbHandle
    BY <1>5 DEF BaseStart
  <2>3. SubFields(s)
    BY <1>1, SubtitleMethods
  <2>4. Starts(sub[p], mSubtitleCodec[p], f) => s.session \in {"asked", "open"}
    BY <1>1, SubtitleMethods
  <2>5. sub[p].session # "none" /\ ~Starts(sub[p], mSubtitleCodec[p], f) => s = sub[p]
    BY DEF startSubtitleDecoding
  <2> HIDE DEF s
  <2>6. \/ sSubtitleCbHandle # p \/ kind[p] = "none" \/ sub[p].session # "none" \/ p = NoPlayer
    BY DEF BaseInv, SubtitlesFindTheirPlayer
  <2> QED
    BY <2>1, <2>2, <2>3, <2>4, <2>5, <2>6, SubtitleCall
<1>6. ASSUME NEW p \in BasePlayer, NEW c, NEW f, switchSubtitleTrack(p, c, f) PROVE BaseInv'
  <2> DEFINE r == stopSubtitleDecoding(sub[p])
             s == startSubtitleDecoding(r, mSubWindow[p], c, f)
  <2>1. sub' = [sub EXCEPT ![p] = s] /\ UNCHANGED <<kind, cbThread>>
    BY <1>6 DEF switchSubtitleTrack, AboveUnchanged
  <2>2. sSubtitleCbHandle' = IF Starts(r, c, f) THEN p ELSE CbStopped(p)
    BY <1>6 DEF switchSubtitleTrack
  <2>3. SubFields(r)
    BY <1>1, SubtitleMethods
  <2> HIDE DEF r
  <2>4. SubFields(s) /\ (Starts(r, c, f) => s.session \in {"asked", "open"})
    BY <2>3, SubtitleMethods
  <2> HIDE DEF s
  <2>5. \/ sSubtitleCbHandle # p \/ kind[p] = "none" \/ sub[p].session # "none" \/ p = NoPlayer
    BY DEF BaseInv, SubtitlesFindTheirPlayer
  <2> QED
    BY <2>1, <2>2, <2>4, <2>5, SubtitleCall DEF CbStopped
<1>7. ASSUME NEW p \in BasePlayer, NEW c, setSubtitleParams(p, c) PROVE BaseInv'
  BY <1>7 DEF setSubtitleParams, AboveUnchanged, BaseInv, SubtitlesFindTheirPlayer
<1>8. ASSUME NEW p \in BasePlayer, NEW b \in BOOLEAN, BaseShow(p, b) PROVE BaseInv'
  <2> DEFINE s == IF b THEN showSubtitle(sub[p]) ELSE hideSubtitle(sub[p])
  <2>1. /\ sub' = [sub EXCEPT ![p] = s] /\ UNCHANGED <<kind, cbThread>>
        /\ sSubtitleCbHandle' = sSubtitleCbHandle
    BY <1>8 DEF BaseShow, AboveUnchanged
  <2>2. SubFields(s) /\ s.session = sub[p].session
    BY <1>1, SubtitleMethods
  <2> HIDE DEF s
  <2> QED
    BY <2>1, <2>2, SubtitleCall
<1>9. ASSUME NEW p \in BasePlayer, NEW w, setSubtitleWindow(p, w) PROVE BaseInv'
  <2> DEFINE s == [sub[p] EXCEPT !.window = w]
  <2>1. SubFields(s) /\ s.session = sub[p].session
    BY <1>1 DEF SubFields
  <2>2. /\ UNCHANGED <<kind, cbThread>> /\ sSubtitleCbHandle' = sSubtitleCbHandle
        /\ sub' = sub \/ sub' = [sub EXCEPT ![p] = s]
    BY <1>9 DEF setSubtitleWindow, AboveUnchanged
  <2> HIDE DEF s
  <2>3. CASE sub' = sub
    BY <2>2, <2>3 DEF BaseInv, SubtitlesFindTheirPlayer
  <2> QED
    BY <2>1, <2>2, <2>3, SubtitleCall
<1>10. ASSUME NEW p \in BasePlayer, NEW e, notifyListener(p, e) PROVE BaseInv'
  <2> DEFINE s == [sub[p] EXCEPT !.pip = "mediasync"]
  <2>1. SubFields(s) /\ s.session = sub[p].session
    BY <1>1 DEF SubFields
  <2>2. /\ UNCHANGED <<kind, cbThread>> /\ sSubtitleCbHandle' = sSubtitleCbHandle
        /\ sub' = sub \/ sub' = [sub EXCEPT ![p] = s]
    BY <1>10 DEF notifyListener
  <2> HIDE DEF s
  <2>3. CASE sub' = sub
    BY <2>2, <2>3 DEF BaseInv, SubtitlesFindTheirPlayer
  <2> QED
    BY <2>1, <2>2, <2>3, SubtitleCall
<1>11. CASE AmlMPSubtitleCb
  <2>1. ASSUME NEW e, CbEnters(e) PROVE BaseInv'
    BY <2>1 DEF CbEnters, NoCall, SubtitleUnchanged, BaseInv, SubtitlesFindTheirPlayer
  <2>2. CASE CbPromotes
    BY <2>2 DEF CbPromotes, Promoted, NoCall, SubtitleUnchanged, BaseInv,
                SubtitlesFindTheirPlayer
  <2>3. CASE CbNotifies
    <3>1. cbThread' = NoCall /\ cbThread.to \in BasePlayer /\ UNCHANGED sSubtitleCbHandle
      BY <2>3 DEF CbNotifies, SubtitleUnchanged, BaseInv
    <3>2. CASE owned[cbThread.to]
      BY <2>3, <3>1, <3>2 DEF CbNotifies, NoCall, BaseInv, SubtitlesFindTheirPlayer
    <3>3. CASE ~owned[cbThread.to]
      BY <2>3, <3>1, <3>3, BaseDestroyed DEF CbNotifies
    <3> QED
      BY <3>2, <3>3
  <2> QED
    BY <1>11, <2>1, <2>2, <2>3 DEF AmlMPSubtitleCb
<1>12. CASE UNCHANGED bvars
  BY <1>12 DEF bvars, BaseInv, SubtitlesFindTheirPlayer
<1> QED
  BY <1>2, <1>3, <1>4, <1>5, <1>6, <1>7, <1>8, <1>9, <1>10, <1>11, <1>12
  DEF BaseNext, BaseFlush, BaseSetParameter

(* The subtitle library's callbacks reach a player that exists, and the     *)
(* pointer they go through names none whose subtitles have been stopped:    *)
(* stopSubtitleDecoding and switchSubtitleTrack of AmlPlayerBase clear it.  *)
THEOREM SubtitleCallbacks == Spec => []SubtitlesFindTheirPlayer
<1>1. Init => BaseInv
  BY BaseInitial DEF Init
<1>2. BaseInv /\ [Next]_<<layer, layers>> => BaseInv'
  BY BaseStepKeepsInv DEF Next, layers
<1>3. BaseInv => SubtitlesFindTheirPlayer
  BY DEF BaseInv
<1> QED
  BY <1>1, <1>2, <1>3, PTL DEF Spec

-----------------------------------------------------------------------------
(* AmlCTCPlayer: the handles it has and those the library has given out.   *)
CtcInv ==
    /\ {"made", "player", "demux", "sync"} \subseteq DOMAIN ctc
    /\ {"players", "demuxes", "made", "opened", "now"} \subseteq DOMAIN lib
    /\ lib.made \in Nat /\ lib.opened \in Nat
    /\ ctc.player \in Nat /\ ctc.demux \in Nat
    /\ ~ctc.made => ctc.player = NoLib /\ ctc.demux = NoLib
    /\ CtcHoldsWhatIsOpen

LEMMA CtcInitial == CtcInit => CtcInv
BY DEF CtcInit, CtcInv, NoCtc, NewCtc, EmptyLib, NoLib, CtcHoldsWhatIsOpen

(* m holds the players and demuxes of l.                                   *)
LibFields(l) == {"players", "demuxes", "made", "opened", "now"} \subseteq DOMAIN l
HoldsThoseOf(l, m) ==
    /\ LibFields(m)
    /\ m.players = l.players /\ m.demuxes = l.demuxes
    /\ m.made = l.made /\ m.opened = l.opened

(* Most calls of the library change what it plays and not what it holds.   *)
LEMMA PlayingHolds ==
    ASSUME NEW l, LibFields(l), NEW q
    PROVE  /\ \A y, fd, v : HoldsThoseOf(l, AVPLAY(l, q, y, fd, v))
           /\ \A y, fd, v : HoldsThoseOf(l, PLAYER_Chn(l, q, y, fd, v))
           /\ \A c : HoldsThoseOf(l, PLAYER_Start(l, q, c))
           /\ \A c : HoldsThoseOf(l, PLAYER_Stop(l, q, c))
           /\ \A y, v : HoldsThoseOf(l, DMX_Feed(l, q, y, v))
BY DEF LibFields, HoldsThoseOf, AVPLAY, PLAYER_Chn, PLAYER_Start, PLAYER_Stop, DMX_Feed

LEMMA HoldsTransitive ==
    ASSUME NEW l, NEW m, NEW n, HoldsThoseOf(l, m), HoldsThoseOf(m, n)
    PROVE  HoldsThoseOf(l, n) /\ LibFields(n)
BY DEF HoldsThoseOf

(* The calls start makes once it has a player and a demux.                 *)
LEMMA StartHolds ==
    ASSUME NEW l, LibFields(l), NEW q, NEW e
    PROVE  HoldsThoseOf(l, StartPlays(StartChannels(StartSettings(l, q), q), q, e))
<1>1. ASSUME NEW m, LibFields(m) PROVE HoldsThoseOf(m, StartSettings(m, q))
  <2> DEFINE a == AVPLAY(m, q, "SetAttr", "sync", [ref |-> ctc.sync, pcr |-> ctc.pcr])
             b == AVPLAY(a, q, "SetAudioOutputType", "output", ctc.output)
             c == IF ctc.tunnel
                  THEN AVPLAY(b, q, "SetVideoTunnelId", "picture", "tunnel")
                  ELSE AVPLAY(b, q, "SetSurface", "picture",
                              IF ctc.surface THEN "surface" ELSE "none")
             d == AVPLAY(c, q, "RegisterEvent64", "listens", TRUE)
             e0 == AVPLAY(d, q, "SetVolume", "volume", ctc.volume)
  <2>1. StartSettings(m, q) = e0
    BY DEF StartSettings
  <2>2. HoldsThoseOf(m, a) /\ LibFields(a)
    BY <1>1, PlayingHolds DEF HoldsThoseOf
  <2> HIDE DEF a
  <2>3. HoldsThoseOf(m, b) /\ LibFields(b)
    BY <2>2, PlayingHolds, HoldsTransitive
  <2> HIDE DEF b
  <2>4. HoldsThoseOf(m, c) /\ LibFields(c)
    BY <2>2, <2>3, PlayingHolds, HoldsTransitive
  <2> HIDE DEF c
  <2>5. HoldsThoseOf(m, d) /\ LibFields(d)
    BY <2>4 DEF AVPLAY, HoldsThoseOf, LibFields
  <2> HIDE DEF d
  <2> QED
    BY <2>1, <2>5, PlayingHolds, HoldsTransitive
<1>2. ASSUME NEW m, LibFields(m) PROVE HoldsThoseOf(m, StartChannels(m, q))
  <2> DEFINE v == IF ctc.videoSet THEN PLAYER_Chn(m, q, "ChnOpen", "vid", "open") ELSE m
  <2>1. HoldsThoseOf(m, v) /\ LibFields(v)
    BY <1>2, PlayingHolds DEF HoldsThoseOf
  <2>2. StartChannels(m, q) = IF ctc.audioSet THEN PLAYER_Chn(v, q, "ChnOpen", "aud", "open")
                              ELSE v
    BY DEF StartChannels
  <2> HIDE DEF v
  <2> QED
    BY <2>1, <2>2, PlayingHolds, HoldsTransitive
<1>3. ASSUME NEW m, LibFields(m) PROVE HoldsThoseOf(m, StartPlays(m, q, e))
  <2> DEFINE d == DMX_Feed(m, e, "StartDemux", "started")
             v == PLAYER_Start(d, q, "vid")
             a == PLAYER_Start(v, q, "aud")
  <2>1. StartPlays(m, q, e) = AVPLAY(a, q, "Start", "play", "playing")
    BY DEF StartPlays
  <2>2. HoldsThoseOf(m, d) /\ LibFields(d)
    BY <1>3, PlayingHolds DEF HoldsThoseOf
  <2> HIDE DEF d
  <2>3. HoldsThoseOf(m, v) /\ LibFields(v)
    BY <2>2, PlayingHolds, HoldsTransitive
  <2> HIDE DEF v
  <2>4. HoldsThoseOf(m, a) /\ LibFields(a)
    BY <2>3, PlayingHolds, HoldsTransitive
  <2> HIDE DEF a
  <2> QED
    BY <2>1, <2>4, PlayingHolds, HoldsTransitive
<1> DEFINE m == StartSettings(l, q)
           n == StartChannels(m, q)
<1>4. HoldsThoseOf(l, m) /\ LibFields(m)
  BY <1>1 DEF HoldsThoseOf
<1> HIDE DEF m
<1>5. HoldsThoseOf(l, n) /\ LibFields(n)
  BY <1>2, <1>4, HoldsTransitive
<1> HIDE DEF n
<1>6. HoldsThoseOf(l, StartPlays(n, q, e))
  BY <1>3, <1>5, HoldsTransitive
<1> QED
  BY <1>6 DEF m, n

(* A step that changes nothing the library holds and no handle.            *)
LEMMA HoldingCall ==
    ASSUME CtcInv, UNCHANGED missing, HoldsThoseOf(lib, lib'),
           {"made", "player", "demux", "sync"} \subseteq DOMAIN ctc',
           ctc'.made = ctc.made, ctc'.player = ctc.player, ctc'.demux = ctc.demux
    PROVE  CtcInv'
BY DEF CtcInv, CtcHoldsWhatIsOpen, HoldsThoseOf, LibFields

LEMMA StartKeepsCtcInv == CtcInv /\ start => CtcInv'
<1> SUFFICES ASSUME CtcInv, start PROVE CtcInv'
  OBVIOUS
<1> DEFINE o == StartDemuxHandle(lib)
           demux == IF o.opened > lib.opened THEN o.opened ELSE ctc.demux
           c == StartPlayer(o)
           player == IF ctc.player # NoLib THEN ctc.player
                     ELSE IF c.made > lib.made THEN c.made ELSE NoLib
<1>1. /\ ctc.made /\ ctc' = [ctc EXCEPT !.player = player, !.demux = demux]
      /\ lib' = StartPlays(StartChannels(StartSettings(c, player), player), player, demux)
      /\ UNCHANGED missing
  BY DEF start
<1>2. /\ LibFields(o) /\ o.made = lib.made /\ o.players = lib.players /\ o.opened \in Nat
      /\ \/ o.opened = lib.opened /\ o.demuxes = lib.demuxes
         \/ /\ o.opened = lib.opened + 1 /\ ctc.demux = NoLib
            /\ o.demuxes = lib.demuxes \cup {lib.opened + 1}
  BY DEF StartDemuxHandle, DMX_OpenDemux, CtcInv, LibFields
<1> HIDE DEF o
<1>3. /\ demux \in Nat
      /\ \/ o.demuxes = lib.demuxes /\ demux = ctc.demux
         \/ /\ ctc.demux = NoLib /\ demux # NoLib
            /\ o.demuxes = lib.demuxes \cup {demux}
  BY <1>2 DEF CtcInv, NoLib
<1> HIDE DEF demux
<1>4. /\ LibFields(c) /\ c.opened = o.opened /\ c.demuxes = o.demuxes /\ c.made \in Nat
      /\ \/ c.made = o.made /\ c.players = o.players
         \/ /\ c.made = o.made + 1 /\ ctc.player = NoLib
            /\ c.players = o.players \cup {o.made + 1}
  BY <1>2 DEF StartPlayer, AVPLAY_Create, CtcInv, LibFields
<1> HIDE DEF c
<1>5. /\ player \in Nat
      /\ \/ c.players = lib.players /\ player = ctc.player
         \/ /\ ctc.player = NoLib /\ player # NoLib
            /\ c.players = lib.players \cup {player}
  BY <1>2, <1>4 DEF CtcInv, NoLib
<1> HIDE DEF player
<1>6. HoldsThoseOf(c, lib')
  BY <1>1, <1>4, StartHolds
<1>7. /\ {"made", "player", "demux", "sync"} \subseteq DOMAIN ctc'
      /\ ctc'.made /\ ctc'.player = player /\ ctc'.demux = demux
  BY <1>1 DEF CtcInv
<1>8. /\ LibFields(lib') /\ lib'.made \in Nat /\ lib'.opened \in Nat
      /\ lib'.players = c.players /\ lib'.demuxes = o.demuxes
  BY <1>2, <1>4, <1>6 DEF HoldsThoseOf
<1>9. CtcHoldsWhatIsOpen'
  BY <1>1, <1>3, <1>5, <1>7, <1>8 DEF CtcInv, CtcHoldsWhatIsOpen
<1> QED
  BY <1>3, <1>5, <1>7, <1>8, <1>9 DEF CtcInv, LibFields

(* stop, and the destructor after it: both handles go and what they named. *)
LEMMA StoppedHolds ==
    ASSUME CtcInv
    PROVE  /\ LibFields(Stopped(lib)) /\ Stopped(lib).made \in Nat
           /\ Stopped(lib).opened \in Nat
           /\ missing \cap {"Destroy", "CloseDemux"} = {} =>
                 Stopped(lib).players = {} /\ Stopped(lib).demuxes = {}
<1> DEFINE v == PLAYER_Chn(lib, ctc.player, "ChnClose", "vid", "closed")
           a == PLAYER_Chn(v, ctc.player, "ChnClose", "aud", "closed")
           d == DMX_Feed(a, ctc.demux, "StopDemux", "stopped")
           q == AVPLAY(d, ctc.player, "Stop", "play", "stopped")
           e == IF ctc.demux = NoLib THEN q ELSE DMX_CloseDemux(q, ctc.demux)
<1>1. Stopped(lib) = IF ctc.player = NoLib THEN e ELSE AVPLAY_Destroy(e, ctc.player)
  BY DEF Stopped
<1>2. LibFields(lib)
  BY DEF CtcInv, LibFields
<1>3. HoldsThoseOf(lib, v) /\ LibFields(v)
  BY <1>2, PlayingHolds DEF HoldsThoseOf
<1> HIDE DEF v
<1>4. HoldsThoseOf(lib, a) /\ LibFields(a)
  BY <1>3, PlayingHolds, HoldsTransitive
<1> HIDE DEF a
<1>5. HoldsThoseOf(lib, d) /\ LibFields(d)
  BY <1>4, PlayingHolds, HoldsTransitive
<1> HIDE DEF d
<1>6. HoldsThoseOf(lib, q) /\ LibFields(q)
  BY <1>5, PlayingHolds, HoldsTransitive
<1> HIDE DEF q
<1>7. /\ LibFields(e) /\ e.made = lib.made /\ e.opened = lib.opened
      /\ e.players = lib.players
      /\ missing \cap {"Destroy", "CloseDemux"} = {} => e.demuxes = {}
  BY <1>6 DEF CtcInv, CtcHoldsWhatIsOpen, HoldsThoseOf, LibFields, DMX_CloseDemux, Loaded
<1> HIDE DEF e
<1> QED
  BY <1>1, <1>7 DEF CtcInv, CtcHoldsWhatIsOpen, LibFields, AVPLAY_Destroy, Loaded

LEMMA CtcStepKeepsInv == CtcInv /\ [CtcNext]_ctcvars => CtcInv'
<1> SUFFICES ASSUME CtcInv, [CtcNext]_ctcvars PROVE CtcInv'
  OBVIOUS
<1>1. LibFields(lib)
  BY DEF CtcInv, LibFields
<1>2. HoldsThoseOf(lib, lib)
  BY <1>1 DEF HoldsThoseOf
<1>3. ASSUME NEW fd, NEW v, CtcKeeps(fd, v), fd \notin {"made", "player", "demux"}
      PROVE  CtcInv'
  <2>1. /\ {"made", "player", "demux", "sync"} \subseteq DOMAIN ctc'
        /\ ctc'.made = ctc.made /\ ctc'.player = ctc.player /\ ctc'.demux = ctc.demux
        /\ UNCHANGED <<lib, missing>>
    BY <1>3 DEF CtcKeeps, CtcInv
  <2> QED
    BY <1>2, <2>1, HoldingCall
<1>4. ASSUME NEW y, NEW fd, NEW v, CtcPasses(y, fd, v) PROVE CtcInv'
  <2>1. UNCHANGED <<ctc, missing>> /\ HoldsThoseOf(lib, lib')
    BY <1>1, <1>4, PlayingHolds DEF CtcPasses
  <2> QED
    BY <2>1, HoldingCall DEF CtcInv
<1>5. ASSUME NEW c, NEW b, CtcChannel(c, b) PROVE CtcInv'
  <2>1. UNCHANGED <<ctc, missing>> /\ HoldsThoseOf(lib, lib')
    BY <1>1, <1>5, PlayingHolds DEF CtcChannel
  <2> QED
    BY <2>1, HoldingCall DEF CtcInv
<1>6. ASSUME NEW v, setVolume(v) PROVE CtcInv'
  <2>1. /\ {"made", "player", "demux", "sync"} \subseteq DOMAIN ctc'
        /\ ctc'.made = ctc.made /\ ctc'.player = ctc.player /\ ctc'.demux = ctc.demux
        /\ UNCHANGED missing
    BY <1>6 DEF setVolume, CtcInv
  <2>2. HoldsThoseOf(lib, lib')
    BY <1>1, <1>6, PlayingHolds DEF setVolume
  <2> QED
    BY <2>1, <2>2, HoldingCall
<1>7. ASSUME NEW v, setParameter("AUDIO_OUTPUT_DEVICE", v) PROVE CtcInv'
  <2>1. /\ {"made", "player", "demux", "sync"} \subseteq DOMAIN ctc'
        /\ ctc'.made = ctc.made /\ ctc'.player = ctc.player /\ ctc'.demux = ctc.demux
        /\ UNCHANGED missing
    BY <1>7 DEF setParameter, CtcInv
  <2>2. HoldsThoseOf(lib, lib')
    BY <1>1, <1>7, PlayingHolds DEF setParameter
  <2> QED
    BY <2>1, <2>2, HoldingCall
<1>8. CASE UNCHANGED ctcvars
  BY <1>8 DEF ctcvars, CtcInv, CtcHoldsWhatIsOpen
<1>9. CASE CtcCreate
  BY <1>9 DEF CtcCreate, NewCtc, CtcInv, CtcHoldsWhatIsOpen
<1>10. CASE stop \/ CtcDestroy
  <2>1. /\ {"made", "player", "demux", "sync"} \subseteq DOMAIN ctc'
        /\ ctc'.player = NoLib /\ ctc'.demux = NoLib
        /\ lib' = Stopped(lib) /\ UNCHANGED missing
    BY <1>10 DEF stop, CtcDestroy, CtcInv, NoCtc, NewCtc
  <2> QED
    BY <2>1, StoppedHolds DEF CtcInv, CtcHoldsWhatIsOpen, LibFields, NoLib
<1>11. ASSUME NEW e, CtcEvent(e) PROVE CtcInv'
  BY <1>11 DEF CtcEvent, CtcInv, CtcHoldsWhatIsOpen
<1>12. ASSUME NEW k \in {"VIDEO_TUNNEL_ID", "VIDEO_DECODE_MODE"}, NEW v,
              setParameter(k, v)
       PROVE  CtcInv'
  BY <1>3, <1>8, <1>12 DEF setParameter
<1>13. ASSUME NEW b, setVideoParams(b) \/ setAudioParams(b) PROVE CtcInv'
  BY <1>3, <1>8, <1>13 DEF setVideoParams, setAudioParams
<1>14. ASSUME NEW x, setAVSyncSource(x) \/ setANativeWindow(x) \/ setPcrPid(x) PROVE CtcInv'
  BY <1>3, <1>8, <1>14 DEF setAVSyncSource, setANativeWindow, setPcrPid
<1>15. CASE pause \/ resume \/ CtcFlush \/ getPlaybackRate \/ CtcWriteData \/ CtcWriteEsData
            \/ getCurrentPts \/ getBufferStat \/ setVideoWindow
            \/ \E r \in CtcRate : setPlaybackRate(r)
  BY <1>4, <1>15 DEF pause, resume, CtcFlush, getPlaybackRate, CtcWriteData, CtcWriteEsData,
     getCurrentPts, getBufferStat, setVideoWindow, setPlaybackRate, CtcAsks
<1>16. CASE startVideoDecoding \/ stopVideoDecoding \/ startAudioDecoding \/ stopAudioDecoding
  BY <1>5, <1>16 DEF startVideoDecoding, stopVideoDecoding, startAudioDecoding,
     stopAudioDecoding
<1> QED
  BY <1>6, <1>7, <1>8, <1>9, <1>10, <1>11, <1>12, <1>13, <1>14, <1>15, <1>16,
     StartKeepsCtcInv
  DEF CtcNext

-----------------------------------------------------------------------------
(* AmlTvPlayer: no two members hold the same handle, and the HAL gives out *)
(* only new ones.                                                          *)
TvInv ==
    /\ {"made", "video", "audio", "handle", "inited", "playing"} \subseteq DOMAIN tv
    /\ handed \in Nat
    /\ tv.handle \in [TvMember -> 0 .. handed]
    /\ \A x, y \in TvMember : x # y /\ tv.handle[x] = tv.handle[y] => tv.handle[x] = NoTuner
    /\ ~tv.made => tv.handle = [x \in TvMember |-> NoTuner]
    /\ TvHoldsWhatIsOpen

(* The type of the handles, and the member's part of the invariant.         *)
LEMMA TvInitial == TvInit => TvInv
BY DEF TvInit, TvInv, NoTv, NewTv, NoTuner, TvHoldsWhatIsOpen, Has

LEMMA TvMembers == Cardinality(TvMember) = 6
<1>1. Cardinality({"demux"}) = 1 /\ IsFiniteSet({"demux"})
  BY FS_Singleton
<1>2. Cardinality({"demux"} \cup {"dvr"}) = 2 /\ IsFiniteSet({"demux"} \cup {"dvr"})
  BY <1>1, FS_AddElement
<1> DEFINE a == {"demux"} \cup {"dvr"}
           b == a \cup {"videoFilter"}
           c == b \cup {"audioFilter"}
           d == c \cup {"codec"}
           e == d \cup {"track"}
<1>3. IsFiniteSet(b) /\ Cardinality(b) = 3
  BY <1>2, FS_AddElement
<1>4. IsFiniteSet(c) /\ Cardinality(c) = 4
  <2>1. "audioFilter" \notin b
    OBVIOUS
  <2> HIDE DEF b
  <2> QED
    BY <1>3, <2>1, FS_AddElement
<1>5. IsFiniteSet(d) /\ Cardinality(d) = 5
  <2>1. "codec" \notin c
    OBVIOUS
  <2> HIDE DEF c
  <2> QED
    BY <1>4, <2>1, FS_AddElement
<1>6. Cardinality(e) = 6
  <2>1. "track" \notin d
    OBVIOUS
  <2> HIDE DEF d
  <2> QED
    BY <1>5, <2>1, FS_AddElement
<1>7. e = TvMember
  BY DEF TvMember
<1> QED
  BY <1>6, <1>7

(* Opening anew closes what the members held, gives each a handle of its   *)
(* own, and leaves nothing open that is in no member.                      *)
LEMMA OpensKeepTvInv ==
    ASSUME TvInv, ~crashed, NEW t, NEW xs \in SUBSET TvMember, TvOpens(t, xs),
           {"made", "video", "audio", "handle", "inited", "playing"} \subseteq DOMAIN t,
           t.made, t.playing => t.inited /\ (Has("track") \/ "track" \in xs)
    PROVE  TvInv'
<1> DEFINE h == TvHandles(xs)
           n == Cardinality(TvMember)
<1>1. n = 6
  BY TvMembers
<1>2. /\ handed' = handed + 6 /\ tv' = [t EXCEPT !.handle = h] /\ UNCHANGED crashed
      /\ opened' = (opened \ {tv.handle[x] : x \in xs}) \cup {h[x] : x \in xs}
  BY <1>1 DEF TvOpens
<1> HIDE DEF n
<1>3. \A x \in TvMember : TvRank(x) \in 1 .. 6
  BY DEF TvRank
<1>4. \A x, y \in TvMember : TvRank(x) = TvRank(y) => x = y
  BY DEF TvRank, TvMember
<1>5. h = [x \in TvMember |-> IF x \in xs THEN handed + TvRank(x) ELSE tv.handle[x]]
  BY DEF TvHandles
<1> HIDE DEF h
<1>6. /\ handed \in Nat /\ \A x \in TvMember : tv.handle[x] \in 0 .. handed
      /\ \A x, y \in TvMember : x # y /\ tv.handle[x] = tv.handle[y] => tv.handle[x] = NoTuner
      /\ opened = {tv.handle[x] : x \in TvMember} \ {NoTuner}
  BY DEF TvInv, TvHoldsWhatIsOpen
<1>7. \A x \in xs : h[x] \in handed + 1 .. handed + 6 /\ h[x] = handed + TvRank(x)
  BY <1>3, <1>5, <1>6
<1>8. \A x \in TvMember \ xs : h[x] = tv.handle[x]
  BY <1>5
<1>9. h \in [TvMember -> 0 .. handed + 6]
  <2>1. \A x \in TvMember : h[x] \in 0 .. handed + 6
    BY <1>6, <1>7, <1>8
  <2> QED
    BY <1>5, <2>1
<1>10. ASSUME NEW x \in TvMember, NEW y \in TvMember, x # y, h[x] = h[y]
       PROVE  h[x] = NoTuner
  <2>1. ~(x \in xs /\ y \in xs)
    BY <1>3, <1>4, <1>6, <1>7, <1>10
  <2>2. \A u, w \in TvMember : u \in xs /\ w \notin xs => h[w] < h[u]
    BY <1>6, <1>7, <1>8
  <2>3. x \notin xs /\ y \notin xs
    BY <1>9, <1>6, <1>10, <2>1, <2>2
  <2> QED
    BY <1>6, <1>8, <1>10, <2>3
<1>11. opened' = {h[x] : x \in TvMember} \ {NoTuner}
  <2>1. ASSUME NEW e \in opened' PROVE e \in {h[x] : x \in TvMember} \ {NoTuner}
    <3>1. CASE e \in {h[x] : x \in xs}
      BY <1>6, <1>7, <3>1 DEF NoTuner
    <3>2. CASE e \in opened /\ e \notin {tv.handle[x] : x \in xs}
      BY <1>6, <1>8, <3>2
    <3> QED
      BY <1>2, <2>1, <3>1, <3>2
  <2>2. ASSUME NEW x \in TvMember, h[x] # NoTuner PROVE h[x] \in opened'
    <3>1. CASE x \in xs
      BY <1>2, <3>1
    <3>2. CASE x \notin xs
      BY <1>2, <1>6, <1>8, <2>2, <3>2
    <3> QED
      BY <3>1, <3>2
  <2> QED
    BY <2>1, <2>2
<1>12. /\ {"made", "video", "audio", "handle", "inited", "playing"} \subseteq DOMAIN tv'
       /\ tv'.handle = h /\ tv'.playing = t.playing /\ tv'.inited = t.inited
       /\ tv'.made
  BY <1>2
<1>13. t.playing => h["track"] # NoTuner
  BY <1>6, <1>7, <1>8 DEF Has, TvMember, NoTuner
<1>14. handed' \in Nat /\ tv'.handle \in [TvMember -> 0 .. handed']
  BY <1>2, <1>6, <1>9, <1>12
<1>15. TvHoldsWhatIsOpen'
  BY <1>11, <1>12, <1>13 DEF TvHoldsWhatIsOpen, Has
<1> QED
  BY <1>10, <1>12, <1>14, <1>15 DEF TvInv

LEMMA TvStepKeepsInv == TvInv /\ [TvNext]_tvvars => TvInv'
<1> SUFFICES ASSUME TvInv, [TvNext]_tvvars PROVE TvInv'
  OBVIOUS
<1> DEFINE Fields(t) == {"made", "video", "audio", "handle", "inited", "playing"} \subseteq DOMAIN t
           Like(t) == Fields(t) /\ t.handle = tv.handle /\ t.made = tv.made
<1>1. Like(tv)
  BY DEF TvInv
<1>2. ASSUME NEW t, Like(t), tv' = t, t.playing => Has("track") /\ t.inited,
             UNCHANGED <<opened, handed, crashed>>
      PROVE  TvInv'
  BY <1>2 DEF TvInv, TvHoldsWhatIsOpen, Has
<1>3. ASSUME TvDies PROVE TvInv'
  BY <1>3 DEF TvDies, TvInv, TvHoldsWhatIsOpen
<1>4. ASSUME UNCHANGED tvvars PROVE TvInv'
  BY <1>4 DEF tvvars, TvInv, TvHoldsWhatIsOpen, Has
<1>5. ~crashed => (tv.playing => Has("track") /\ tv.inited)
  BY DEF TvInv, TvHoldsWhatIsOpen
<1>6. CASE TunerRestarts
  BY <1>6 DEF TunerRestarts, TvInv, TvHoldsWhatIsOpen, Has
<1>7. CASE TvCreate
  <2>1. opened = {} /\ handed \in Nat
    BY <1>7 DEF TvCreate, TvInv, TvHoldsWhatIsOpen
  <2> QED
    BY <1>7, <2>1 DEF TvCreate, NewTv, NoTuner, TvInv, TvHoldsWhatIsOpen
<1>8. CASE TvDestroy
  <2>1. CASE tv.playing
    BY <1>3, <1>8, <2>1 DEF TvDestroy
  <2>2. CASE ~tv.playing
    BY <1>8, <2>2 DEF TvDestroy, TvLive, TunerClose, TvInv, TvHoldsWhatIsOpen, NoTv, NewTv,
       NoTuner, Has
  <2> QED
    BY <2>1, <2>2
<1>9. ASSUME NEW c, TvSetVideoParams(c) \/ TvSetAudioParams(c) PROVE TvInv'
  <2>1. /\ Like(tv') /\ tv'.playing = tv.playing /\ tv'.inited = tv.inited
        /\ ~crashed /\ UNCHANGED <<opened, handed, crashed>>
    BY <1>1, <1>9 DEF TvSetVideoParams, TvSetAudioParams, TvLive
  <2> QED
    BY <1>2, <1>5, <2>1
<1>10. ASSUME NEW f, TvStart(f) PROVE TvInv'
  <2> DEFINE xs == StartOpensTv
             t == IF "track" \in xs THEN NewTrack(tv) ELSE tv
  <2>1. TvDies \/ (~crashed /\ TvOpens(t, xs))
    BY <1>10 DEF TvStart, TvLive
  <2>2. xs \in SUBSET TvMember
    BY DEF StartOpensTv, TvMember
  <2> HIDE DEF xs
  <2>3. /\ Fields(t) /\ t.made
        /\ ~crashed => (t.playing => t.inited /\ (Has("track") \/ "track" \in xs))
    BY <1>1, <1>5, <1>10 DEF NewTrack, TrackStart, TvStart, TvLive
  <2> HIDE DEF t
  <2> QED
    BY <1>3, <2>1, <2>2, <2>3, OpensKeepTvInv
<1>11. CASE TvStop
  <2>1. CASE TvDies
    BY <1>3, <2>1
  <2>2. CASE ~TvDies
    <3> DEFINE t == TrackStop(tv)
    <3>1. /\ ~crashed /\ TunerClose(TvMember) /\ tv' = [t EXCEPT !.handle = NewTv.handle]
          /\ UNCHANGED <<handed, stale, crashed>>
      BY <1>11, <2>2 DEF TvStop, TvLive
    <3>2. Fields(t) /\ ~t.playing
      BY <1>1 DEF TrackStop
    <3> HIDE DEF t
    <3>3. /\ Fields(tv') /\ ~tv'.playing
          /\ tv'.handle = [x \in TvMember |-> NoTuner]
      BY <3>1, <3>2 DEF NewTv
    <3>4. opened' = {}
      BY <3>1 DEF TunerClose, TvInv, TvHoldsWhatIsOpen
    <3> QED
      BY <3>1, <3>3, <3>4 DEF TvInv, TvHoldsWhatIsOpen, NoTuner
  <2> QED
    BY <2>1, <2>2
<1>12. CASE TvPauseResume \/ TvOther \/ \E n : TvWrite(n)
  BY <1>3, <1>4, <1>12 DEF TvPauseResume, TvOther, TvWrite
<1>13. CASE TvResumeAudioDecoding
  <2>1. CASE TvDies
    BY <1>3, <2>1
  <2>2. CASE ~TvDies
    <3>1. /\ Has("track") /\ tv' = TrackStart(tv) /\ UNCHANGED <<opened, handed, crashed>>
      BY <1>13, <2>2 DEF TvResumeAudioDecoding
    <3>2. Like(TrackStart(tv)) /\ (TrackStart(tv).playing => TrackStart(tv).inited)
      BY <1>1 DEF TrackStart
    <3> QED
      BY <1>2, <3>1, <3>2
  <2> QED
    BY <2>1, <2>2
<1>14. ASSUME NEW c, NEW f, TvSwitchAudioTrack(c, f) PROVE TvInv'
  <2> DEFINE xs == {"audioFilter", "track"}
             r == [TrackStop(tv) EXCEPT !.audio = c]
             t == NewTrack(r)
  <2>1. TvDies \/ (~crashed /\ TvOpens(t, xs))
    BY <1>14 DEF TvSwitchAudioTrack, TvLive
  <2>2. Fields(r) /\ r.made
    BY <1>1, <1>14 DEF TrackStop, TvSwitchAudioTrack, TvLive
  <2> HIDE DEF r
  <2>3. Fields(t) /\ t.made /\ (t.playing => t.inited)
    BY <2>2 DEF NewTrack, TrackStart
  <2> HIDE DEF t
  <2>4. xs \in SUBSET TvMember /\ "track" \in xs
    BY DEF TvMember
  <2> HIDE DEF xs
  <2> QED
    BY <1>3, <2>1, <2>3, <2>4, OpensKeepTvInv
<1> QED
  BY <1>4, <1>6, <1>7, <1>8, <1>9, <1>10, <1>11, <1>12, <1>13, <1>14 DEF TvNext

(* No layer leaves anything open behind it: the library of AmlCTCPlayer     *)
(* holds the player and the demux the object has, provided it has the calls *)
(* that destroy them, and the tuner HAL what AmlTvPlayer's members name.    *)
THEOREM NothingStaysOpen == Spec => []LayersHoldWhatIsOpen
<1>1. Init => CtcInv /\ TvInv
  BY CtcInitial, TvInitial DEF Init
<1>2. CtcInv /\ TvInv /\ [Next]_<<layer, layers>> => CtcInv' /\ TvInv'
  BY CtcStepKeepsInv, TvStepKeepsInv DEF Next, layers
<1>3. CtcInv /\ TvInv => LayersHoldWhatIsOpen
  BY DEF CtcInv, TvInv, LayersHoldWhatIsOpen
<1> QED
  BY <1>1, <1>2, <1>3, PTL DEF Spec

-----------------------------------------------------------------------------
(* AmlTsPlayer and its feed.                                               *)
Rising(s) == \A i, j \in DOMAIN s : i < j => s[i] < s[j]

(* Every buffer of s comes before n.                                       *)
Before(s, n) == \A x \in Elements(s) : x < n

TsTypes ==
    /\ {"made", "owned", "dummy", "dev"} \subseteq DOMAIN ts
    /\ {"made", "paused", "queue", "pc", "held", "exit"} \subseteq DOMAIN feed
    /\ {"given", "put", "late", "reported"} \subseteq DOMAIN es
    /\ {"pc", "buffer"} \subseteq DOMAIN writer
    /\ feed.queue \in Seq(Nat) /\ decoded \in Seq(Nat)
    /\ feed.held \in Nat /\ es.given \in Nat /\ writer.buffer \in Nat

(* A feed that is not there is empty, and a stop is at work only while     *)
(* there is one.                                                           *)
FeedIsThere ==
    /\ ~feed.made => feed = NoFeed
    /\ control \in {"flush", "join"} => feed.made

(* Buffers are numbered as they are given, and the one in the writer's     *)
(* hands is the last: nothing in the layer comes after it.                 *)
Newest == IF writer.pc = "idle" THEN es.given + 1 ELSE writer.buffer
WriterIsLast ==
    /\ writer.pc # "idle" => writer.buffer = es.given
    /\ Before(decoded, Newest) /\ Before(feed.queue, Newest)
    /\ feed.pc \in {"write", "pop"} => feed.held < Newest
    /\ writer.pc = "direct" => feed.queue = <<>> /\ feed.pc \notin {"write", "pop"}

(* The feed still holds the buffer it has seen at the front: that one is   *)
(* at the front, or a stop has flushed it and all that came after is late. *)
Holding ==
    feed.pc \in {"write", "pop"} =>
        \/ feed.queue # <<>> /\ Head(feed.queue) = feed.held
        \/ control = "join" /\ \A x \in Elements(feed.queue) : feed.held < x

(* What was decoded comes before what will be.                             *)
DecodedFirst ==
    /\ Rising(decoded) /\ Rising(feed.queue)
    /\ feed.pc = "write" => Before(decoded, feed.held)
    /\ feed.pc = "pop" => Before(decoded, feed.held + 1)
    /\ feed.pc \notin {"write", "pop"} =>
          \A x \in Elements(feed.queue) : Before(decoded, x)

(* No buffer the queue took is lost.                                       *)
Accounted ==
    /\ control = "join" => Elements(feed.queue) \subseteq es.late
    /\ es.put \subseteq Elements(feed.queue) \cup es.reported \cup es.late

TsInv ==
    /\ TsTypes /\ FeedIsThere
    /\ ~undefined => WriterIsLast /\ Holding /\ DecodedFirst /\ Accounted

(* Sequences of buffers.                                                   *)
LEMMA EmptyQueue == <<>> \in Seq(Nat) /\ Elements(<<>>) = {} /\ Rising(<<>>)
BY DEF Elements, Rising

LEMMA Appended ==
    ASSUME NEW s \in Seq(Nat), NEW n \in Nat
    PROVE  /\ Append(s, n) \in Seq(Nat) /\ Append(s, n) # <<>>
           /\ Elements(Append(s, n)) = Elements(s) \cup {n}
           /\ Rising(s) /\ Before(s, n) => Rising(Append(s, n))
           /\ s # <<>> => Head(Append(s, n)) = Head(s)
           /\ s = <<>> => Head(Append(s, n)) = n
<1>1. /\ Append(s, n) \in Seq(Nat) /\ Append(s, n) # <<>>
      /\ Len(s) \in Nat /\ DOMAIN s = 1 .. Len(s)
      /\ DOMAIN Append(s, n) = 1 .. Len(s) + 1
      /\ \A i \in 1 .. Len(s) : Append(s, n)[i] = s[i] /\ s[i] \in Nat
      /\ Append(s, n)[Len(s) + 1] = n
  OBVIOUS
<1>2. Elements(Append(s, n)) = Elements(s) \cup {n}
  BY <1>1 DEF Elements
<1>3. ASSUME Rising(s), Before(s, n) PROVE Rising(Append(s, n))
  <2>1. \A i \in 1 .. Len(s) : s[i] < n
    BY <1>1, <1>3 DEF Before, Elements
  <2> QED
    BY <1>1, <1>3, <2>1 DEF Rising
<1>4. (s # <<>> => Head(Append(s, n)) = Head(s)) /\ (s = <<>> => Head(Append(s, n)) = n)
  OBVIOUS
<1> QED
  BY <1>1, <1>2, <1>3, <1>4

LEMMA Popped ==
    ASSUME NEW s \in Seq(Nat), s # <<>>
    PROVE  /\ Tail(s) \in Seq(Nat) /\ Head(s) \in Nat
           /\ Elements(s) = {Head(s)} \cup Elements(Tail(s))
           /\ Rising(s) =>
                 /\ Rising(Tail(s))
                 /\ \A x \in Elements(Tail(s)) : Head(s) < x
<1>1. /\ Tail(s) \in Seq(Nat) /\ Head(s) = s[1] /\ Head(s) \in Nat
      /\ Len(s) \in Nat /\ Len(s) >= 1 /\ DOMAIN s = 1 .. Len(s)
      /\ DOMAIN Tail(s) = 1 .. Len(s) - 1
      /\ \A i \in 1 .. Len(s) - 1 : Tail(s)[i] = s[i + 1]
  OBVIOUS
<1>2. Elements(s) = {Head(s)} \cup Elements(Tail(s))
  <2>1. \A i \in 1 .. Len(s) : i = 1 \/ i - 1 \in 1 .. Len(s) - 1
    BY <1>1
  <2>2. \A i \in 2 .. Len(s) : s[i] = Tail(s)[i - 1]
    BY <1>1
  <2>3. ASSUME NEW x \in Elements(s) PROVE x \in {Head(s)} \cup Elements(Tail(s))
    <3>1. PICK i \in 1 .. Len(s) : x = s[i]
      BY <1>1 DEF Elements
    <3>2. CASE i = 1
      BY <1>1, <3>1, <3>2
    <3>3. CASE i # 1
      <4>1. i - 1 \in 1 .. Len(s) - 1 /\ i \in 2 .. Len(s)
        BY <1>1, <2>1, <3>3
      <4>2. x = Tail(s)[i - 1]
        BY <2>2, <3>1, <4>1
      <4> QED
        BY <1>1, <4>1, <4>2 DEF Elements
    <3> QED
      BY <3>2, <3>3
  <2>4. ASSUME NEW x \in Elements(Tail(s)) PROVE x \in Elements(s)
    <3>1. PICK i \in 1 .. Len(s) - 1 : x = Tail(s)[i]
      BY <1>1 DEF Elements
    <3>2. i + 1 \in 1 .. Len(s) /\ x = s[i + 1]
      BY <1>1, <3>1
    <3> QED
      BY <1>1, <3>2 DEF Elements
  <2>5. Head(s) \in Elements(s)
    BY <1>1 DEF Elements
  <2> QED
    BY <2>3, <2>4, <2>5
<1>3. ASSUME Rising(s) PROVE Rising(Tail(s)) /\ \A x \in Elements(Tail(s)) : Head(s) < x
  <2>1. Rising(Tail(s))
    BY <1>1, <1>3 DEF Rising
  <2>2. \A i \in 1 .. Len(s) - 1 : s[1] < s[i + 1]
    BY <1>1, <1>3 DEF Rising
  <2> QED
    BY <1>1, <2>1, <2>2 DEF Elements
<1> QED
  BY <1>1, <1>2, <1>3

LEMMA ElementsType ==
    ASSUME NEW s \in Seq(Nat)
    PROVE  \A x \in Elements(s) : x \in Nat
BY DEF Elements

LEMMA TsInitial == TsInit => TsInv
<1> SUFFICES ASSUME TsInit PROVE TsInv
  OBVIOUS
<1>1. /\ feed = NoFeed /\ control = "idle" /\ decoded = <<>>
      /\ writer = [pc |-> "idle", buffer |-> 0]
      /\ es = [given |-> 0, put |-> {}, late |-> {}, reported |-> {}]
      /\ {"made", "owned", "dummy", "dev"} \subseteq DOMAIN ts
  BY DEF TsInit, NoTs, NewTs
<1>2. feed.queue = <<>> /\ feed.pc = "gone" /\ feed.held = 0 /\ TsTypes
  BY <1>1, EmptyQueue DEF NoFeed, TsTypes
<1> QED
  BY <1>1, <1>2, EmptyQueue
  DEF TsInv, FeedIsThere, WriterIsLast, Newest, Holding, DecodedFirst, Accounted, Before

(* A call that reaches no buffer: what it makes of the device is of no     *)
(* account, and of the feed it changes neither the queue nor what the      *)
(* thread is at.                                                           *)
LEMMA NoBufferMoves ==
    ASSUME TsInv, es' = es, writer' = writer, decoded' = decoded, undefined' => undefined,
           undefined => undefined',
           {"made", "owned", "dummy", "dev"} \subseteq DOMAIN ts',
           {"made", "paused", "queue", "pc", "held", "exit"} \subseteq DOMAIN feed',
           feed'.queue = feed.queue, feed'.held = feed.held, FeedIsThere',
           \/ feed'.pc = feed.pc
           \/ feed'.pc \notin {"write", "pop"} /\ feed.pc \notin {"write", "pop"},
           (control' = "join") <=> (control = "join")
    PROVE  TsInv'
<1>1. TsTypes'
  BY DEF TsInv, TsTypes
<1>2. ASSUME ~undefined PROVE WriterIsLast' /\ Holding' /\ DecodedFirst' /\ Accounted'
  <2>1. WriterIsLast /\ Holding /\ DecodedFirst /\ Accounted
    BY <1>2 DEF TsInv
  <2>2. WriterIsLast'
    BY <2>1 DEF WriterIsLast, Newest, Before
  <2>3. Holding'
    BY <2>1 DEF Holding
  <2>4. DecodedFirst'
    BY <2>1 DEF DecodedFirst, Before, Rising
  <2>5. Accounted'
    BY <2>1 DEF Accounted
  <2> QED
    BY <2>2, <2>3, <2>4, <2>5
<1> QED
  BY <1>1, <1>2 DEF TsInv

(* The device alone changes.                                               *)
LEMMA DeviceCall ==
    ASSUME TsInv, UNCHANGED <<feed, control, es, writer, decoded, undefined>>,
           {"made", "owned", "dummy", "dev"} \subseteq DOMAIN ts'
    PROVE  TsInv'
<1>1. {"made", "paused", "queue", "pc", "held", "exit"} \subseteq DOMAIN feed'
  BY DEF TsInv, TsTypes
<1>2. FeedIsThere'
  BY DEF TsInv, FeedIsThere
<1>3. /\ es' = es /\ writer' = writer /\ decoded' = decoded
      /\ (undefined' => undefined) /\ (undefined => undefined')
      /\ feed'.queue = feed.queue /\ feed'.held = feed.held /\ feed'.pc = feed.pc
      /\ ((control' = "join") <=> (control = "join"))
  OBVIOUS
<1> QED
  BY <1>1, <1>2, <1>3, NoBufferMoves

(* A feed is made where there is none, or paused.                          *)
LEMMA FeedCall ==
    ASSUME TsInv, UNCHANGED <<control, es, writer, decoded, undefined>>, control = "idle",
           {"made", "owned", "dummy", "dev"} \subseteq DOMAIN ts',
           FeedStarts \/ \E b : FeedPauses(b)
    PROVE  TsInv'
<1>0. /\ es' = es /\ writer' = writer /\ decoded' = decoded
      /\ (undefined' => undefined) /\ (undefined => undefined')
      /\ ((control' = "join") <=> (control = "join"))
  OBVIOUS
<1>1. CASE feed' = feed
  BY <1>1, DeviceCall
<1>2. CASE ~feed.made /\ feed' = NewFeed
  <2>1. feed = NoFeed
    BY <1>2 DEF TsInv, FeedIsThere
  <2>2. /\ {"made", "paused", "queue", "pc", "held", "exit"} \subseteq DOMAIN feed'
        /\ feed'.queue = feed.queue /\ feed'.held = feed.held /\ feed'.made
        /\ feed'.pc \notin {"write", "pop"} /\ feed.pc \notin {"write", "pop"}
    BY <1>2, <2>1 DEF NewFeed, NoFeed
  <2>3. FeedIsThere'
    BY <2>2 DEF FeedIsThere
  <2> QED
    BY <1>0, <2>2, <2>3, NoBufferMoves
<1>3. CASE feed.made /\ \E b : feed' = [feed EXCEPT !.paused = b]
  <2>1. PICK b : feed' = [feed EXCEPT !.paused = b]
    BY <1>3
  <2>2. /\ {"made", "paused", "queue", "pc", "held", "exit"} \subseteq DOMAIN feed'
        /\ feed'.queue = feed.queue /\ feed'.held = feed.held /\ feed'.pc = feed.pc
        /\ feed'.made
    BY <1>3, <2>1 DEF TsInv, TsTypes
  <2>3. FeedIsThere'
    BY <2>2 DEF FeedIsThere
  <2> QED
    BY <1>0, <2>2, <2>3, NoBufferMoves
<1> QED
  BY <1>1, <1>2, <1>3 DEF FeedStarts, FeedPauses

(* A stop of the audio goes to its flush while there is a feed.             *)
LEMMA StopCall ==
    ASSUME TsInv, UNCHANGED <<feed, es, writer, decoded, undefined>>, control = "idle",
           NEW d, StopAudioOf(d)
    PROVE  TsInv'
<1>1. /\ control' \in {"idle", "flush"} /\ (control' = "flush" => feed.made)
      /\ {"made", "owned", "dummy", "dev"} \subseteq DOMAIN ts'
  BY DEF StopAudioOf, TsInv, TsTypes
<1>2. FeedIsThere'
  BY <1>1 DEF TsInv, FeedIsThere
<1>3. {"made", "paused", "queue", "pc", "held", "exit"} \subseteq DOMAIN feed'
  BY DEF TsInv, TsTypes
<1>4. /\ es' = es /\ writer' = writer /\ decoded' = decoded
      /\ (undefined' => undefined) /\ (undefined => undefined')
      /\ feed'.queue = feed.queue /\ feed'.held = feed.held /\ feed'.pc = feed.pc
      /\ ((control' = "join") <=> (control = "join"))
  BY <1>1
<1> QED
  BY <1>1, <1>2, <1>3, <1>4, NoBufferMoves

(* The loop looks at the front: it keeps what it sees there.               *)
LEMMA LookKeepsTsInv ==
    ASSUME TsInv, ~undefined, FeedLooks PROVE TsInv'
<1>1. /\ es' = es /\ writer' = writer /\ decoded' = decoded /\ ts' = ts /\ control' = control
      /\ (undefined' <=> undefined) /\ (undefined' => undefined) /\ (undefined => undefined')
      /\ ((control' = "join") <=> (control = "join")) /\ feed.pc = "look"
  BY DEF FeedLooks, FeedOthers
<1>2. feed.made
  BY <1>1 DEF TsInv, FeedIsThere, NoFeed
<1>3. {"made", "owned", "dummy", "dev"} \subseteq DOMAIN ts'
  BY <1>1 DEF TsInv, TsTypes
<1>4. CASE feed' = [feed EXCEPT !.pc = "gone"]
  <2>1. /\ {"made", "paused", "queue", "pc", "held", "exit"} \subseteq DOMAIN feed'
        /\ feed'.queue = feed.queue /\ feed'.held = feed.held /\ feed'.made
        /\ feed'.pc \notin {"write", "pop"} /\ feed.pc \notin {"write", "pop"}
    BY <1>1, <1>2, <1>4 DEF TsInv, TsTypes
  <2>2. FeedIsThere'
    BY <2>1 DEF FeedIsThere
  <2> QED
    BY <1>1, <1>3, <2>1, <2>2, NoBufferMoves
<1>5. CASE feed.queue # <<>> /\ feed' = [feed EXCEPT !.pc = "write", !.held = Head(feed.queue)]
  <2>1. /\ {"made", "paused", "queue", "pc", "held", "exit"} \subseteq DOMAIN feed'
        /\ feed'.queue = feed.queue /\ feed'.held = Head(feed.queue) /\ feed'.made
        /\ feed'.pc = "write"
    BY <1>2, <1>5 DEF TsInv, TsTypes
  <2>2. feed.queue \in Seq(Nat) /\ Head(feed.queue) \in Nat
        /\ Head(feed.queue) \in Elements(feed.queue)
    BY <1>5, Popped DEF TsInv, TsTypes
  <2>3. TsTypes' /\ FeedIsThere'
    BY <1>1, <1>3, <2>1, <2>2 DEF TsInv, TsTypes, FeedIsThere
  <2>4. WriterIsLast /\ DecodedFirst /\ Accounted
    BY DEF TsInv
  <2>5. WriterIsLast'
    BY <1>1, <1>5, <2>1, <2>2, <2>4 DEF WriterIsLast, Newest, Before
  <2>6. Holding'
    BY <1>5, <2>1 DEF Holding
  <2>7. DecodedFirst'
    BY <1>1, <2>1, <2>2, <2>4 DEF DecodedFirst, Before, Rising
  <2>8. Accounted'
    BY <1>1, <2>1, <2>4 DEF Accounted
  <2> QED
    BY <2>3, <2>5, <2>6, <2>7, <2>8 DEF TsInv
<1>6. CASE feed' = feed
  <2>1. UNCHANGED <<feed, control, es, writer, decoded, undefined>>
    BY <1>6 DEF FeedLooks, FeedOthers
  <2> QED
    BY <1>3, <2>1, DeviceCall
<1> QED
  BY <1>4, <1>5, <1>6 DEF FeedLooks

(* The library takes the buffer held, or the loop looks again.             *)
LEMMA WriteKeepsTsInv ==
    ASSUME TsInv, ~undefined, NEW ok, FeedWrites(ok) PROVE TsInv'
<1>1. /\ es' = es /\ writer' = writer /\ ts' = ts /\ control' = control
      /\ feed.pc = "write" /\ feed' = [feed EXCEPT !.pc = IF ok THEN "pop" ELSE "look"]
      /\ decoded' = IF ok THEN Append(decoded, feed.held) ELSE decoded
  BY DEF FeedWrites, FeedOthers
<1>2. /\ {"made", "paused", "queue", "pc", "held", "exit"} \subseteq DOMAIN feed'
      /\ feed'.queue = feed.queue /\ feed'.held = feed.held /\ feed'.made = feed.made
      /\ feed'.pc = IF ok THEN "pop" ELSE "look"
  BY <1>1 DEF TsInv, TsTypes
<1>3. feed.made
  BY <1>1 DEF TsInv, FeedIsThere, NoFeed
<1>4. WriterIsLast /\ Holding /\ DecodedFirst /\ Accounted /\ TsTypes
  BY DEF TsInv
<1>5. Before(decoded, feed.held) /\ feed.held < Newest /\ writer.pc # "direct"
  BY <1>1, <1>4 DEF DecodedFirst, WriterIsLast
<1>6. /\ decoded' \in Seq(Nat) /\ Rising(decoded')
      /\ Elements(decoded') \subseteq Elements(decoded) \cup {feed.held}
  <2>1. CASE ok
    BY <1>1, <1>4, <1>5, <2>1, Appended DEF DecodedFirst, TsTypes
  <2>2. CASE ~ok
    BY <1>1, <1>4, <2>2 DEF DecodedFirst, TsTypes
  <2> QED
    BY <2>1, <2>2
<1>7. TsTypes' /\ FeedIsThere'
  BY <1>1, <1>2, <1>3, <1>4, <1>6 DEF TsTypes, FeedIsThere
<1>8. feed.held \in Nat /\ Newest \in Nat /\ Newest' = Newest
  BY <1>1, <1>4 DEF TsTypes, Newest
<1>9. WriterIsLast'
  BY <1>1, <1>2, <1>4, <1>5, <1>6, <1>8 DEF WriterIsLast, Before
<1>10. Holding'
  BY <1>1, <1>2, <1>4 DEF Holding
<1>11. \A x \in Elements(feed.queue) : feed.held < x \/ feed.held = x
  <2>1. feed.queue \in Seq(Nat) /\ Rising(feed.queue)
    BY <1>4 DEF TsTypes, DecodedFirst
  <2>2. CASE feed.queue # <<>> /\ Head(feed.queue) = feed.held
    BY <2>1, <2>2, Popped
  <2>3. CASE \A x \in Elements(feed.queue) : feed.held < x
    BY <2>3
  <2> QED
    BY <1>1, <1>4, <2>2, <2>3 DEF Holding
<1>12. \A x \in Elements(decoded) : x \in Nat /\ x < feed.held
  BY <1>4, <1>5, ElementsType DEF Before, TsTypes
<1>13. \A x \in Elements(feed.queue) : x \in Nat
  BY <1>4, ElementsType DEF TsTypes
<1>14. DecodedFirst'
  <2>1. CASE ok
    <3>1. Before(decoded', feed.held + 1)
      BY <1>6, <1>8, <1>12 DEF Before
    <3> QED
      BY <1>2, <1>4, <1>6, <2>1, <3>1 DEF DecodedFirst
  <2>2. CASE ~ok
    <3>1. \A x \in Elements(feed.queue) : Before(decoded, x)
      BY <1>8, <1>11, <1>12, <1>13 DEF Before
    <3> QED
      BY <1>1, <1>2, <1>4, <1>6, <2>2, <3>1 DEF DecodedFirst
  <2> QED
    BY <2>1, <2>2
<1>15. Accounted'
  BY <1>1, <1>2, <1>4 DEF Accounted
<1> QED
  BY <1>7, <1>9, <1>10, <1>14, <1>15 DEF TsInv

(* The front is popped: the buffer held, or one that came too late.        *)
LEMMA PopKeepsTsInv ==
    ASSUME TsInv, ~undefined, FeedPops PROVE TsInv'
<1>1. writer' = writer /\ ts' = ts /\ control' = control /\ decoded' = decoded /\ feed.pc = "pop"
  BY DEF FeedPops, FeedOthers
<1>2. WriterIsLast /\ Holding /\ DecodedFirst /\ Accounted /\ TsTypes /\ FeedIsThere
  BY DEF TsInv
<1>3. CASE feed.queue = <<>>
  <2>1. feed' = feed /\ es' = es /\ undefined'
    BY <1>3 DEF FeedPops
  <2> QED
    BY <1>1, <1>2, <2>1 DEF TsInv, TsTypes, FeedIsThere
<1>4. CASE feed.queue # <<>>
  <2>1. /\ feed' = [feed EXCEPT !.pc = "look", !.queue = Tail(feed.queue)]
        /\ es' = [es EXCEPT !.reported = es.reported \cup {feed.held}]
    BY <1>4 DEF FeedPops
  <2>2. /\ {"made", "paused", "queue", "pc", "held", "exit"} \subseteq DOMAIN feed'
        /\ feed'.queue = Tail(feed.queue) /\ feed'.held = feed.held /\ feed'.made = feed.made
        /\ feed'.pc = "look"
        /\ {"given", "put", "late", "reported"} \subseteq DOMAIN es'
        /\ es'.given = es.given /\ es'.put = es.put /\ es'.late = es.late
        /\ es'.reported = es.reported \cup {feed.held}
    BY <1>2, <2>1 DEF TsTypes
  <2>3. feed.made
    BY <1>1, <1>2 DEF FeedIsThere, NoFeed
  <2>4. feed.queue \in Seq(Nat) /\ Rising(feed.queue) /\ decoded \in Seq(Nat)
        /\ feed.held \in Nat
    BY <1>2 DEF TsTypes, DecodedFirst
  <2> DEFINE h == Head(feed.queue)
             q == Tail(feed.queue)
  <2>5. /\ q \in Seq(Nat) /\ h \in Nat /\ Rising(q)
        /\ Elements(feed.queue) = {h} \cup Elements(q)
        /\ \A x \in Elements(q) : h < x
    BY <1>4, <2>4, Popped
  <2>6. feed'.queue = q
    BY <2>2
  <2>7. h = feed.held \/ (control = "join" /\ \A x \in Elements(feed.queue) : feed.held < x)
    BY <1>1, <1>2 DEF Holding
  <2> HIDE DEF h, q
  <2>8. TsTypes' /\ FeedIsThere'
    BY <1>1, <1>2, <2>2, <2>3, <2>5, <2>6 DEF TsTypes, FeedIsThere
  <2>9. WriterIsLast'
    BY <1>1, <1>2, <2>2, <2>5, <2>6 DEF WriterIsLast, Newest, Before
  <2>10. Holding'
    BY <2>2 DEF Holding
  <2>11. \A x \in Elements(q) : feed.held < x /\ x \in Nat
    BY <2>5, <2>7, ElementsType
  <2>12. Before(decoded, feed.held + 1) /\ \A x \in Elements(decoded) : x \in Nat
    BY <1>1, <1>2, <2>4, ElementsType DEF DecodedFirst
  <2>13. \A x \in Elements(q) : Before(decoded, x)
    BY <2>4, <2>11, <2>12 DEF Before
  <2>14. DecodedFirst'
    BY <1>1, <1>2, <2>2, <2>5, <2>6, <2>13 DEF DecodedFirst
  <2>15. Accounted'
    BY <1>1, <1>2, <2>2, <2>5, <2>6, <2>7 DEF Accounted
  <2> QED
    BY <2>8, <2>9, <2>10, <2>14, <2>15 DEF TsInv
<1> QED
  BY <1>3, <1>4

(* The writer numbers the next buffer, which comes after all there are.    *)
LEMMA GivenKeepsTsInv ==
    ASSUME TsInv, writeEsData PROVE TsInv'
<1>1. /\ ~undefined /\ (undefined' <=> undefined) /\ feed' = feed /\ decoded' = decoded
      /\ ts' = ts /\ control' = control /\ writer.pc = "idle"
      /\ es' = [es EXCEPT !.given = es.given + 1]
      /\ writer' = [pc |-> IF feed.made THEN "put" ELSE "direct", buffer |-> es.given + 1]
  BY DEF writeEsData, WriterOthers
<1>2. WriterIsLast /\ Holding /\ DecodedFirst /\ Accounted /\ TsTypes /\ FeedIsThere
  BY <1>1 DEF TsInv
<1>3. /\ {"given", "put", "late", "reported"} \subseteq DOMAIN es'
      /\ es'.given = es.given + 1 /\ es'.put = es.put /\ es'.late = es.late
      /\ es'.reported = es.reported
      /\ writer'.buffer = es.given + 1 /\ {"pc", "buffer"} \subseteq DOMAIN writer'
      /\ writer'.pc # "idle" /\ (writer'.pc = "direct" => ~feed.made)
  BY <1>1, <1>2 DEF TsTypes
<1>4. TsTypes' /\ FeedIsThere'
  BY <1>1, <1>2, <1>3 DEF TsTypes, FeedIsThere
<1>5. Newest' = Newest
  BY <1>1, <1>3 DEF Newest
<1>6. writer'.pc = "direct" => feed.queue = <<>> /\ feed.pc \notin {"write", "pop"}
  BY <1>2, <1>3 DEF FeedIsThere, NoFeed
<1>7. WriterIsLast'
  BY <1>1, <1>2, <1>3, <1>5, <1>6 DEF WriterIsLast, Before
<1>8. Holding' /\ DecodedFirst' /\ Accounted'
  BY <1>1, <1>2, <1>3 DEF Holding, DecodedFirst, Accounted, Before, Rising
<1> QED
  BY <1>1, <1>4, <1>7, <1>8 DEF TsInv

(* The queue takes the last buffer, and during a stop takes it too late.   *)
LEMMA PutKeepsTsInv ==
    ASSUME TsInv, WriterPuts PROVE TsInv'
<1>1. /\ ~undefined /\ decoded' = decoded /\ ts' = ts /\ control' = control
      /\ writer.pc = "put" /\ writer' = [writer EXCEPT !.pc = "idle"]
  BY DEF WriterPuts, WriterOthers
<1>2. WriterIsLast /\ Holding /\ DecodedFirst /\ Accounted /\ TsTypes /\ FeedIsThere
  BY <1>1 DEF TsInv
<1> DEFINE n == writer.buffer
           q == feed.queue
<1>3. /\ n \in Nat /\ n = es.given /\ Newest = n /\ q \in Seq(Nat) /\ Rising(q)
      /\ Before(q, n) /\ Before(decoded, n) /\ decoded \in Seq(Nat)
  BY <1>1, <1>2 DEF WriterIsLast, DecodedFirst, TsTypes, Newest
<1>4. /\ writer'.pc = "idle" /\ writer'.buffer = n /\ {"pc", "buffer"} \subseteq DOMAIN writer'
  BY <1>1, <1>2 DEF TsTypes
<1>5. CASE ~feed.made
  <2>1. feed' = feed /\ es' = es /\ undefined'
    BY <1>5 DEF WriterPuts
  <2> QED
    BY <1>1, <1>2, <1>3, <1>4, <2>1 DEF TsInv, TsTypes, FeedIsThere
<1>6. CASE feed.made /\ feed' = feed /\ es' = es
  <2>1. Newest' = n + 1
    BY <1>3, <1>4, <1>6 DEF Newest
  <2>2. \A x \in Elements(q) \cup Elements(decoded) : x \in Nat /\ x < n + 1
    BY <1>3, ElementsType DEF Before
  <2>3. WriterIsLast'
    BY <1>1, <1>2, <1>3, <1>4, <1>6, <2>1, <2>2 DEF WriterIsLast, Before, TsTypes
  <2>4. Holding' /\ DecodedFirst' /\ Accounted'
    BY <1>1, <1>2, <1>6 DEF Holding, DecodedFirst, Accounted, Before, Rising
  <2>5. TsTypes' /\ FeedIsThere'
    BY <1>1, <1>2, <1>3, <1>4, <1>6 DEF TsTypes, FeedIsThere
  <2> QED
    BY <2>3, <2>4, <2>5 DEF TsInv
<1>7. CASE /\ feed.made
           /\ feed' = [feed EXCEPT !.queue = Append(q, n)]
           /\ es' = [es EXCEPT !.put = es.put \cup {n},
                               !.late = IF control = "join" THEN es.late \cup {n} ELSE es.late]
  <2>1. /\ {"made", "paused", "queue", "pc", "held", "exit"} \subseteq DOMAIN feed'
        /\ feed'.queue = Append(q, n) /\ feed'.held = feed.held /\ feed'.made = feed.made
        /\ feed'.pc = feed.pc
        /\ {"given", "put", "late", "reported"} \subseteq DOMAIN es'
        /\ es'.given = es.given /\ es'.put = es.put \cup {n}
        /\ es'.late = IF control = "join" THEN es.late \cup {n} ELSE es.late
        /\ es'.reported = es.reported
    BY <1>2, <1>7 DEF TsTypes
  <2>2. /\ Append(q, n) \in Seq(Nat) /\ Append(q, n) # <<>>
        /\ Elements(Append(q, n)) = Elements(q) \cup {n} /\ Rising(Append(q, n))
        /\ (q # <<>> => Head(Append(q, n)) = Head(q))
    BY <1>3, Appended
  <2> DEFINE a == Append(q, n)
  <2> HIDE DEF a
  <2>3. /\ a \in Seq(Nat) /\ a # <<>> /\ Elements(a) = Elements(q) \cup {n} /\ Rising(a)
        /\ (q # <<>> => Head(a) = Head(q)) /\ feed'.queue = a
    BY <2>1, <2>2 DEF a
  <2>4. TsTypes' /\ FeedIsThere'
    BY <1>1, <1>2, <1>3, <1>4, <1>7, <2>1, <2>3 DEF TsTypes, FeedIsThere
  <2>5. Newest' = n + 1
    BY <1>3, <1>4, <2>1 DEF Newest
  <2>6. \A x \in Elements(a) \cup Elements(decoded) : x \in Nat /\ x < n + 1
    BY <1>3, <2>3, ElementsType DEF Before
  <2>7. WriterIsLast'
    BY <1>1, <1>2, <1>3, <1>4, <2>1, <2>3, <2>5, <2>6 DEF WriterIsLast, Before, TsTypes
  <2>8. Holding'
    BY <1>1, <1>2, <1>3, <2>1, <2>3 DEF Holding, WriterIsLast
  <2>9. DecodedFirst'
    BY <1>1, <1>2, <1>3, <2>1, <2>3 DEF DecodedFirst
  <2>10. Accounted'
    BY <1>1, <1>2, <2>1, <2>3 DEF Accounted
  <2> QED
    BY <2>4, <2>7, <2>8, <2>9, <2>10 DEF TsInv
<1> QED
  BY <1>5, <1>6, <1>7 DEF WriterPuts, FeedPut

(* Without a feed the writer gives its buffer to the library itself.       *)
LEMMA DirectKeepsTsInv ==
    ASSUME TsInv, NEW ok, writeEsData_l(ok) PROVE TsInv'
<1>1. /\ ~undefined /\ (undefined' <=> undefined) /\ ts' = ts /\ control' = control
      /\ feed' = feed /\ es' = es
      /\ writer.pc = "direct" /\ writer' = [writer EXCEPT !.pc = "idle"]
      /\ decoded' = IF ok THEN Append(decoded, writer.buffer) ELSE decoded
  BY DEF writeEsData_l, WriterOthers
<1>2. WriterIsLast /\ Holding /\ DecodedFirst /\ Accounted /\ TsTypes /\ FeedIsThere
  BY <1>1 DEF TsInv
<1> DEFINE n == writer.buffer
<1>3. /\ n \in Nat /\ n = es.given /\ Newest = n /\ feed.queue = <<>>
      /\ feed.pc \notin {"write", "pop"}
      /\ Before(decoded, n) /\ decoded \in Seq(Nat) /\ Rising(decoded)
  BY <1>1, <1>2 DEF WriterIsLast, DecodedFirst, TsTypes, Newest
<1>4. /\ writer'.pc = "idle" /\ writer'.buffer = n /\ {"pc", "buffer"} \subseteq DOMAIN writer'
  BY <1>1, <1>2 DEF TsTypes
<1>5. /\ decoded' \in Seq(Nat) /\ Rising(decoded')
      /\ Elements(decoded') \subseteq Elements(decoded) \cup {n}
  <2>1. CASE ok
    BY <1>1, <1>3, <2>1, Appended
  <2>2. CASE ~ok
    BY <1>1, <1>3, <2>2
  <2> QED
    BY <2>1, <2>2
<1>6. TsTypes' /\ FeedIsThere'
  BY <1>1, <1>2, <1>3, <1>4, <1>5 DEF TsTypes, FeedIsThere
<1>7. \A x \in Elements(decoded) : x \in Nat /\ x < n
  BY <1>3, ElementsType DEF Before
<1>8. Newest' = n + 1
  BY <1>1, <1>3, <1>4 DEF Newest
<1>9. WriterIsLast'
  BY <1>1, <1>3, <1>4, <1>5, <1>7, <1>8, EmptyQueue DEF WriterIsLast, Before
<1>10. Holding' /\ DecodedFirst' /\ Accounted'
  BY <1>1, <1>2, <1>3, <1>5, EmptyQueue DEF Holding, DecodedFirst, Accounted, Rising
<1> QED
  BY <1>1, <1>6, <1>9, <1>10 DEF TsInv

(* The flush of a stop reports all the queue holds.                        *)
LEMMA FlushKeepsTsInv ==
    ASSUME TsInv, FeedFlushes PROVE TsInv'
<1>1. /\ ~undefined /\ (undefined' <=> undefined) /\ ts' = ts /\ writer' = writer
      /\ decoded' = decoded /\ control = "flush" /\ control' = "join"
      /\ es' = [es EXCEPT !.reported = es.reported \cup Elements(feed.queue)]
      /\ feed' = [feed EXCEPT !.queue = <<>>, !.exit = TRUE]
  BY DEF FeedFlushes, ControlOthers, Flushed
<1>2. WriterIsLast /\ Holding /\ DecodedFirst /\ Accounted /\ TsTypes /\ FeedIsThere
  BY <1>1 DEF TsInv
<1>3. /\ {"made", "paused", "queue", "pc", "held", "exit"} \subseteq DOMAIN feed'
      /\ feed'.queue = <<>> /\ feed'.held = feed.held /\ feed'.made = feed.made
      /\ feed'.pc = feed.pc
      /\ {"given", "put", "late", "reported"} \subseteq DOMAIN es'
      /\ es'.given = es.given /\ es'.put = es.put /\ es'.late = es.late
      /\ es'.reported = es.reported \cup Elements(feed.queue)
  BY <1>1, <1>2 DEF TsTypes
<1>4. TsTypes' /\ FeedIsThere'
  BY <1>1, <1>2, <1>3, EmptyQueue DEF TsTypes, FeedIsThere
<1>5. WriterIsLast' /\ Holding' /\ DecodedFirst' /\ Accounted'
  BY <1>1, <1>2, <1>3, EmptyQueue
  DEF WriterIsLast, Newest, Before, Holding, DecodedFirst, Accounted
<1> QED
  BY <1>1, <1>4, <1>5 DEF TsInv

(* The thread is gone, and with it the queue: only late buffers are lost.  *)
LEMMA JoinKeepsTsInv ==
    ASSUME TsInv, FeedJoined PROVE TsInv'
<1>1. /\ ~undefined /\ (undefined' <=> undefined) /\ es' = es /\ writer' = writer
      /\ decoded' = decoded /\ control = "join" /\ control' = "idle"
      /\ feed.pc = "gone" /\ feed' = NoFeed
      /\ ts' = [ts EXCEPT !.dev = DevStopAudio(ts.dev)]
  BY DEF FeedJoined, ControlOthers
<1>2. WriterIsLast /\ Holding /\ DecodedFirst /\ Accounted /\ TsTypes /\ FeedIsThere
  BY <1>1 DEF TsInv
<1>3. /\ {"made", "paused", "queue", "pc", "held", "exit"} \subseteq DOMAIN feed'
      /\ feed'.queue = <<>> /\ feed'.held = 0 /\ feed'.pc = "gone"
      /\ {"made", "owned", "dummy", "dev"} \subseteq DOMAIN ts'
  BY <1>1, <1>2 DEF TsTypes, NoFeed
<1>4. TsTypes' /\ FeedIsThere'
  BY <1>1, <1>2, <1>3, EmptyQueue DEF TsTypes, FeedIsThere
<1>5. WriterIsLast' /\ Holding' /\ DecodedFirst' /\ Accounted'
  BY <1>1, <1>2, <1>3, EmptyQueue
  DEF WriterIsLast, Newest, Before, Holding, DecodedFirst, Accounted, Rising
<1> QED
  BY <1>1, <1>4, <1>5 DEF TsInv

(* Every step of the layer.  A call of the object above changes the device *)
(* alone, makes or pauses a feed, or begins a stop.                        *)
LEMMA TsMethod ==
    ASSUME TsInv, TsCall, ControlOthers, UNCHANGED <<feed, control, es>>,
           NEW t, ts' = t, {"made", "owned", "dummy", "dev"} \subseteq DOMAIN t
    PROVE  TsInv'
<1>1. UNCHANGED <<feed, control, es, writer, decoded, undefined>>
  BY DEF ControlOthers
<1>2. {"made", "owned", "dummy", "dev"} \subseteq DOMAIN ts'
  OBVIOUS
<1> QED
  BY <1>1, <1>2, DeviceCall

LEMMA TsBecomesKeepsInv ==
    ASSUME TsInv, NEW d, TsBecomes(d) PROVE TsInv'
<1>1. {"made", "owned", "dummy", "dev"} \subseteq DOMAIN [ts EXCEPT !.dev = d]
  BY DEF TsInv, TsTypes
<1> QED
  BY <1>1, TsMethod DEF TsBecomes

LEMMA FeedMethod ==
    ASSUME TsInv, TsCall, ControlOthers, UNCHANGED <<control, es>>,
           NEW d, ts' = [ts EXCEPT !.dev = d],
           UNCHANGED feed \/ FeedStarts \/ \E b : FeedPauses(b)
    PROVE  TsInv'
<1>1. {"made", "owned", "dummy", "dev"} \subseteq DOMAIN ts'
  BY DEF TsInv, TsTypes
<1>2. UNCHANGED <<control, es, writer, decoded, undefined>> /\ control = "idle"
  BY DEF ControlOthers, TsCall
<1>3. CASE UNCHANGED feed
  <2>1. UNCHANGED <<feed, control, es, writer, decoded, undefined>>
    BY <1>2, <1>3
  <2> QED
    BY <1>1, <2>1, DeviceCall
<1>4. CASE FeedStarts \/ \E b : FeedPauses(b)
  BY <1>1, <1>2, <1>4, FeedCall
<1> QED
  BY <1>3, <1>4

LEMMA StopMethod ==
    ASSUME TsInv, TsCall, ControlOthers, UNCHANGED <<feed, es>>,
           NEW d, StopAudioOf(d)
    PROVE  TsInv'
<1>1. UNCHANGED <<feed, es, writer, decoded, undefined>> /\ control = "idle"
  BY DEF ControlOthers, TsCall
<1> QED
  BY <1>1, StopCall

LEMMA TsStepKeepsInv == TsInv /\ [TsNext]_tsvars => TsInv'
<1> SUFFICES ASSUME TsInv, [TsNext]_tsvars PROVE TsInv'
  OBVIOUS
<1>1. {"made", "owned", "dummy", "dev"} \subseteq DOMAIN ts
  BY DEF TsInv, TsTypes
<1>2. CASE UNCHANGED tsvars
  <2>1. UNCHANGED <<feed, control, es, writer, decoded, undefined>> /\ ts' = ts
    BY <1>2 DEF tsvars
  <2> QED
    BY <1>1, <2>1, DeviceCall
<1>3. CASE threadLoop
  BY <1>3, LookKeepsTsInv, WriteKeepsTsInv, PopKeepsTsInv DEF threadLoop
<1>4. CASE writeEsData \/ WriterPuts \/ \E ok \in BOOLEAN : writeEsData_l(ok)
  BY <1>4, GivenKeepsTsInv, PutKeepsTsInv, DirectKeepsTsInv
<1>5. CASE FeedFlushes \/ FeedJoined
  BY <1>5, FlushKeepsTsInv, JoinKeepsTsInv
<1>6. ASSUME NEW dummy, TsCreate(dummy) PROVE TsInv'
  <2>1. UNCHANGED <<feed, control, es, writer, decoded, undefined>> /\ ts' = NewTs(dummy)
    BY <1>6 DEF TsCreate, ControlOthers
  <2>2. {"made", "owned", "dummy", "dev"} \subseteq DOMAIN ts'
    BY <2>1 DEF NewTs
  <2> QED
    BY <2>1, <2>2, DeviceCall
<1>7. CASE TsRelease
  <2>1. UNCHANGED <<feed, control, es, writer, decoded, undefined>>
        /\ ts' = IF feed.made THEN [ts EXCEPT !.owned = FALSE] ELSE NoTs
    BY <1>7 DEF TsRelease, ControlOthers
  <2>2. {"made", "owned", "dummy", "dev"} \subseteq DOMAIN ts'
    BY <1>1, <2>1 DEF NoTs, NewTs
  <2> QED
    BY <2>1, <2>2, DeviceCall
<1>8. CASE \/ TsStopVideoDecoding \/ stopADDecoding
           \/ \E known \in BOOLEAN :
                TsSetVideoParams(known) \/ TsSetAudioParams(known) \/ TsSetADParams(known)
           \/ \E f \in SUBSET TsFaults :
                \/ TsStartVideoDecoding(f) \/ pauseVideoDecoding(f) \/ resumeVideoDecoding(f)
                \/ startADDecoding(f)
  <2>1. \E d : TsBecomes(d)
    BY <1>8 DEF TsStopVideoDecoding, stopADDecoding, TsSetVideoParams, TsSetAudioParams,
                TsSetADParams, TsStartVideoDecoding, pauseVideoDecoding,
                resumeVideoDecoding, startADDecoding
  <2> QED
    BY <2>1, TsBecomesKeepsInv
<1>9. CASE TsPasses \/ TsSyncs \/ TsADVolume \/ DummyDecoding
  <2>1. UNCHANGED tsvars
    BY <1>9 DEF TsPasses, TsSyncs, TsADVolume, DummyDecoding
  <2> QED
    BY <1>2, <2>1
<1>10. ASSUME NEW key, NEW v, NEW ok, TsSetParameter(key, v, ok) PROVE TsInv'
  <2>1. UNCHANGED <<feed, control, es, writer, decoded, undefined>>
        /\ ts' = IF key = "AD_STATE" /\ ok THEN [ts EXCEPT !.dev.mix = v] ELSE ts
    BY <1>10 DEF TsSetParameter, ControlOthers
  <2>2. {"made", "owned", "dummy", "dev"} \subseteq DOMAIN ts'
    BY <1>1, <2>1
  <2> QED
    BY <2>1, <2>2, DeviceCall
<1>11. CASE TsStopAudioDecoding \/ TsStop
  <2>1. \/ TsCall /\ ControlOthers /\ UNCHANGED <<feed, es>> /\ \E d : StopAudioOf(d)
        \/ \E d : TsBecomes(d)
    BY <1>11 DEF TsStopAudioDecoding, TsStop, TsBecomes
  <2> QED
    BY <2>1, StopMethod, TsBecomesKeepsInv
<1>12. ASSUME NEW f, \/ TsStartAudioDecoding(f) \/ pauseAudioDecoding(f) \/ resumeAudioDecoding(f)
                     \/ TsStart(f) \/ TsPause(f) \/ TsResume(f)
       PROVE  TsInv'
  <2>1. TsCall /\ ControlOthers /\ UNCHANGED <<control, es>>
    BY <1>12 DEF TsStartAudioDecoding, pauseAudioDecoding, resumeAudioDecoding,
                 TsStart, TsPause, TsResume
  <2>2. \E d : ts' = [ts EXCEPT !.dev = d]
    BY <1>12 DEF TsStartAudioDecoding, pauseAudioDecoding, resumeAudioDecoding,
                 TsStart, TsPause, TsResume
  <2>3. UNCHANGED feed \/ FeedStarts \/ \E b : FeedPauses(b)
    BY <1>12 DEF TsStartAudioDecoding, pauseAudioDecoding, resumeAudioDecoding,
                 TsStart, TsPause, TsResume
  <2> QED
    BY <2>1, <2>2, <2>3, FeedMethod
<1> QED
  BY <1>2, <1>3, <1>4, <1>5, <1>6, <1>7, <1>8, <1>9, <1>10, <1>11, <1>12 DEF TsNext

(* The decoder is given each buffer once and in the order of the writes,   *)
(* and a buffer the feeding thread's queue took is there until it has been *)
(* reported, whatever the writer, the thread and the control calls of      *)
(* AmlTsPlayer interleave and however long the queue may grow.             *)
THEOREM BuffersComeBack == Spec => []EveryBufferReturns
<1>1. Init => TsInv
  BY TsInitial DEF Init
<1>2. TsInv /\ [Next]_<<layer, layers>> => TsInv'
  BY TsStepKeepsInv DEF Next, layers
<1>3. TsInv => EveryBufferReturns
  BY DEF TsInv, DecodedFirst, Accounted, Rising, EveryBufferReturns
<1> QED
  BY <1>1, <1>2, <1>3, PTL DEF Spec

-----------------------------------------------------------------------------
(* The packetizer: induction over the rounds of a loop.                     *)
LEMMA LeastExists ==
    ASSUME NEW I, I \subseteq Nat, I # {}
    PROVE  \E j \in I : \A i \in I : j <= i
<1>1. PICK x \in I : \A y \in I : ~(<<y, x>> \in OpToRel(<, Nat))
  BY NatLessThanWellFounded, WFMin, Zenon
<1>2. \A y \in I : ~(y < x)
  BY <1>1, Zenon DEF OpToRel
<1> QED
  BY <1>2

LEMMA InductionToLength ==
    ASSUME NEW L \in Nat, NEW T, 0 \in T,
           \A n \in 1 .. L : n - 1 \in T => n \in T
    PROVE  \A n \in 0 .. L : n \in T
<1> DEFINE Rest == {n \in 0 .. L : n \notin T}
<1>1. ASSUME Rest # {} PROVE FALSE
  <2>1. Rest \subseteq Nat
    OBVIOUS
  <2> HIDE DEF Rest
  <2>2. PICK x \in Rest : \A y \in Rest : x <= y
    BY <2>1, <1>1, LeastExists, Zenon
  <2> USE DEF Rest
  <2>4. x \in 1 .. L /\ x - 1 \notin Rest
    BY <2>2
  <2> QED
    BY <2>4
<1> QED
  BY <1>1

IsLoop(f, L, S, b, step) ==
    /\ f \in [0 .. L -> S] /\ f[0] = b
    /\ \A n \in 1 .. L : f[n] = step[n][f[n - 1]]

LEMMA LoopExists ==
    ASSUME NEW L \in Nat, NEW S, NEW b \in S, NEW step \in [1 .. L -> [S -> S]]
    PROVE  \E f : IsLoop(f, L, S, b, step)
<1> DEFINE Upto(f, m) == /\ f \in [0 .. m -> S] /\ f[0] = b
                         /\ \A n \in 1 .. m : f[n] = step[n][f[n - 1]]
           T == {m \in 0 .. L : \E f : Upto(f, m)}
<1>1. 0 \in T
  <2> DEFINE g == [n \in 0 .. 0 |-> b]
  <2>1. Upto(g, 0)
    OBVIOUS
  <2> HIDE DEF g, Upto
  <2> QED
    BY <2>1
<1>2. ASSUME NEW m \in 1 .. L, m - 1 \in T PROVE m \in T
  <2>1. PICK f : Upto(f, m - 1)
    BY <1>2
  <2> DEFINE g == [n \in 0 .. m |-> IF n = m THEN step[m][f[m - 1]] ELSE f[n]]
  <2>2. f[m - 1] \in S
    BY <2>1
  <2>3. step[m] \in [S -> S]
    OBVIOUS
  <2>4. step[m][f[m - 1]] \in S
    BY <2>2, <2>3
  <2>5. g \in [0 .. m -> S]
    BY <2>4, <2>1
  <2>6. g[0] = b
    BY <2>1
  <2>7. ASSUME NEW n \in 1 .. m PROVE g[n] = step[n][g[n - 1]]
    BY <2>1
  <2> HIDE DEF g
  <2>8. Upto(g, m)
    BY <2>5, <2>6, <2>7
  <2> HIDE DEF Upto
  <2> QED
    BY <2>8
<1>3. \A m \in 1 .. L : m - 1 \in T => m \in T
  BY <1>2
<1> HIDE DEF T
<1>4. \A n \in 0 .. L : n \in T
  BY <1>1, <1>3, InductionToLength
<1>5. L \in T
  BY <1>4
<1>6. PICK f : Upto(f, L)
  BY <1>5 DEF T
<1>7. IsLoop(f, L, S, b, step)
  BY <1>6 DEF IsLoop
<1> QED
  BY <1>7

-----------------------------------------------------------------------------
(* The packets are made by a loop over what is left of the data. *)
PacketType == [starts : BOOLEAN, counter : Int, padding : Int, header : Int, copy : Int]

SumBy(ps, f) == [i \in 0 .. Len(ps) |-> IF i = 0 THEN 0 ELSE f[i - 1] + ps[i].copy]
Sum(ps) == CHOOSE f : f = SumBy(ps, f)

LEMMA SumExists ==
    ASSUME NEW ps \in Seq(PacketType)
    PROVE  /\ Sum(ps) \in [0 .. Len(ps) -> Int] /\ Sum(ps)[0] = 0
           /\ \A i \in 1 .. Len(ps) : Sum(ps)[i] = Sum(ps)[i - 1] + ps[i].copy
           /\ Carried(ps) = Sum(ps)[Len(ps)]
<1> DEFINE L == Len(ps)
           step == [n \in 1 .. L |-> [u \in Int |-> u + ps[n].copy]]
<1>1. L \in Nat /\ \A n \in 1 .. L : ps[n].copy \in Int
  <2>1. \A n \in 1 .. L : ps[n] \in PacketType
    OBVIOUS
  <2> QED
    BY <2>1 DEF PacketType
<1>2. \E f : f = SumBy(ps, f)
  <2>1. step \in [1 .. L -> [Int -> Int]]
    BY <1>1
  <2> HIDE DEF step
  <2>2. PICK f : IsLoop(f, L, Int, 0, step)
    <3>1. L \in Nat /\ 0 \in Int
      BY <1>1
    <3> QED
      BY <2>1, <3>1, LoopExists, Zenon
  <2> USE DEF IsLoop
  <2>3. ASSUME NEW n \in 1 .. L PROVE f[n] = f[n - 1] + ps[n].copy
    <3>1. f[n - 1] \in Int
      BY <2>2, <1>1
    <3>2. step[n] = [u \in Int |-> u + ps[n].copy]
      BY DEF step
    <3>3. step[n][f[n - 1]] = f[n - 1] + ps[n].copy
      BY <3>1, <3>2
    <3>4. f[n] = step[n][f[n - 1]]
      BY <2>2, Zenon
    <3> QED
      BY <3>3, <3>4
  <2>4. ASSUME NEW n \in 0 .. L PROVE f[n] = SumBy(ps, f)[n]
    <3>1. CASE n = 0
      BY <3>1, <2>2 DEF SumBy
    <3>2. CASE n # 0
      BY <3>2, <2>3, <1>1 DEF SumBy
    <3> QED
      BY <3>1, <3>2
  <2>5. f = [n \in 0 .. L |-> f[n]] /\ SumBy(ps, f) = [n \in 0 .. L |-> SumBy(ps, f)[n]]
    BY <2>2 DEF SumBy
  <2>6. f = SumBy(ps, f)
    BY <2>4, <2>5, Zenon
  <2> QED
    BY <2>6
<1> DEFINE f == Sum(ps)
<1>3. f = SumBy(ps, f)
  BY <1>2 DEF Sum
<1>4. Carried(ps) = f[L]
  BY DEF Carried, Sum, SumBy
<1> HIDE DEF f
<1>5. f[0] = 0 /\ \A n \in 1 .. L : f[n] = f[n - 1] + ps[n].copy
  <2>1. \A n \in 0 .. L : f[n] = SumBy(ps, f)[n]
    BY <1>3
  <2> QED
    BY <2>1, <1>1 DEF SumBy
<1> DEFINE T == {n \in 0 .. L : f[n] \in Int}
<1>6. 0 \in T /\ \A n \in 1 .. L : n - 1 \in T => n \in T
  BY <1>5, <1>1
<1> HIDE DEF T
<1>7. \A n \in 0 .. L : n \in T
  BY <1>6, <1>1, InductionToLength
<1>8. f \in [0 .. L -> Int]
  <2>1. \A n \in 0 .. L : f[n] \in Int
    BY <1>7 DEF T
  <2>2. f = [n \in 0 .. L |-> SumBy(ps, f)[n]]
    BY <1>3 DEF SumBy
  <2> QED
    BY <2>1, <2>2
<1> QED
  BY <1>4, <1>5, <1>8 DEF f

LEMMA CarriedGrows ==
    ASSUME NEW ps \in Seq(PacketType), NEW p \in PacketType
    PROVE  Carried(Append(ps, p)) = Carried(ps) + p.copy
<1> DEFINE L == Len(ps)
           qs == Append(ps, p)
           f == Sum(ps)
           g == Sum(qs)
<1>1. /\ qs \in Seq(PacketType) /\ L \in Nat /\ Len(qs) = L + 1
      /\ qs[L + 1] = p /\ \A i \in 1 .. L : qs[i] = ps[i]
  OBVIOUS
<1> HIDE DEF qs
<1>2. /\ f \in [0 .. L -> Int] /\ f[0] = 0 /\ Carried(ps) = f[L]
      /\ \A i \in 1 .. L : f[i] = f[i - 1] + ps[i].copy
  BY SumExists
<1>3. /\ g \in [0 .. L + 1 -> Int] /\ g[0] = 0 /\ Carried(qs) = g[L + 1]
      /\ \A i \in 1 .. L + 1 : g[i] = g[i - 1] + qs[i].copy
  BY <1>1, SumExists
<1> HIDE DEF f, g
<1> DEFINE T == {n \in 0 .. L : g[n] = f[n]}
<1>4. 0 \in T
  BY <1>1, <1>2, <1>3
<1>5. \A n \in 1 .. L : n - 1 \in T => n \in T
  BY <1>1, <1>2, <1>3
<1> HIDE DEF T
<1>6. \A n \in 0 .. L : n \in T
  BY <1>4, <1>5, <1>1, InductionToLength
<1>7. g[L] = f[L]
  BY <1>6, <1>1 DEF T
<1>8. g[L + 1] = g[L] + qs[L + 1].copy
  BY <1>3, <1>1
<1> QED
  BY <1>1, <1>2, <1>3, <1>7, <1>8 DEF qs

LEMMA CarriedFirst ==
    ASSUME NEW p \in PacketType
    PROVE  Carried(<<p>>) = p.copy
<1>1. <<p>> \in Seq(PacketType) /\ Len(<<p>>) = 1 /\ <<p>>[1] = p /\ p.copy \in Int
  BY DEF PacketType
<1> DEFINE ps == <<p>>
<1>2. /\ Sum(ps)[0] = 0 /\ Carried(ps) = Sum(ps)[1]
      /\ \A i \in 1 .. 1 : Sum(ps)[i] = Sum(ps)[i - 1] + ps[i].copy
  BY <1>1, SumExists
<1>3. Sum(ps)[1] = Sum(ps)[0] + ps[1].copy
  BY <1>2
<1> QED
  BY <1>1, <1>2, <1>3

-----------------------------------------------------------------------------
(* The loop: before it there is the packet with the PES header, and after  *)
(* k rounds at most k more.                                                *)
Room == PACKET - HEADER - PesHeader
First(size, c) == Packet(TRUE, size, Room, c)
Rest(size) == size - Smaller(size, Room)
Begun(size, c) == [ps |-> <<First(size, c)>>, left |-> size - First(size, c).copy,
                   c |-> incrementContinuityCounter(c)]
Next1(a) ==
    IF a.left = 0 THEN a
    ELSE [ps |-> Append(a.ps, Packet(FALSE, a.left, PACKET - HEADER, a.c)),
          left |-> a.left - Packet(FALSE, a.left, PACKET - HEADER, a.c).copy,
          c |-> incrementContinuityCounter(a.c)]
Rounds == [ps : Seq(PacketType), left : Nat, c : Nat]

FullPackets(ps) ==
    \A i \in 1 .. Len(ps) :
        /\ HEADER + ps[i].header + ps[i].padding + ps[i].copy = PACKET
        /\ ps[i].starts <=> i = 1

(* As long as something is left each round took a whole packet of it.      *)
Progress(a, size, k) ==
    /\ Len(a.ps) > 0
    /\ a.left > 0 => Len(a.ps) = k + 1 /\ a.left = Rest(size) - 184 * k
    /\ a.left = 0 => /\ Rest(size) <= 184 * (Len(a.ps) - 1)
                     /\ Len(a.ps) > 1 => Rest(size) > 184 * (Len(a.ps) - 2)

InStep(ps, c) ==
    /\ c \in 0 .. 15
    /\ ps[Len(ps)].counter = (c + 15) % 16
    /\ \A i \in 2 .. Len(ps) : ps[i].counter = (ps[i - 1].counter + 1) % 16

RightRound(a, size, c, k) ==
    /\ a \in Rounds
    /\ FullPackets(a.ps)
    /\ Carried(a.ps) + a.left = size
    /\ Progress(a, size, k)
    /\ c < 16 => InStep(a.ps, a.c)

LEMMA RoomIsThere == Room \in 0 .. 170 /\ PACKET = 188 /\ HEADER = 4
BY PacketAssumption DEF Room, PesHeader, PACKET, HEADER

LEMMA CounterSteps ==
    ASSUME NEW c \in Nat
    PROVE  /\ incrementContinuityCounter(c) \in Nat
           /\ c < 16 => /\ incrementContinuityCounter(c) \in 0 .. 15
                        /\ c = (incrementContinuityCounter(c) + 15) % 16
                        /\ (((c + 15) % 16) + 1) % 16 = c
<1>1. incrementContinuityCounter(c) \in Nat
  BY DEF incrementContinuityCounter
<1>2. ASSUME c < 16 PROVE incrementContinuityCounter(c) = IF c = 15 THEN 0 ELSE c + 1
  BY <1>2 DEF incrementContinuityCounter
<1>3. ASSUME c < 16 PROVE c = ((IF c = 15 THEN 0 ELSE c + 1) + 15) % 16
  BY <1>3
<1>4. ASSUME c < 16 PROVE (((c + 15) % 16) + 1) % 16 = c
  BY <1>4
<1> QED
  BY <1>1, <1>2, <1>3, <1>4

Filled(p, starts, size, room, c) ==
    /\ p \in PacketType /\ p.starts = starts /\ p.counter = c
    /\ p.copy = Smaller(size, room) /\ p.copy \in 0 .. size
    /\ HEADER + p.header + p.padding + p.copy = PACKET

LEMMA PacketIsFull ==
    ASSUME NEW size \in Nat, NEW room \in 0 .. 184, NEW c \in Nat
    PROVE  /\ Filled(Packet(TRUE, size, room, c), TRUE, size, room, c)
           /\ Filled(Packet(FALSE, size, room, c), FALSE, size, room, c)
BY DEF Filled, Packet, PacketType, Smaller, PACKET, HEADER

LEMMA FirstRound ==
    ASSUME NEW size \in Nat, NEW c \in Nat
    PROVE  RightRound(Begun(size, c), size, c, 0)
<1> DEFINE p == First(size, c)
           a == Begun(size, c)
<1>1. /\ p \in PacketType /\ p.starts = TRUE /\ p.counter = c
      /\ p.copy = Smaller(size, Room) /\ p.copy \in 0 .. size
      /\ HEADER + p.header + p.padding + p.copy = PACKET
  <2>1. Filled(p, TRUE, size, Room, c)
    <3>1. Room \in 0 .. 184
      BY RoomIsThere
    <3> QED
      BY PacketIsFull, <3>1, Zenon DEF First
  <2> HIDE DEF p
  <2> QED
    BY <2>1 DEF Filled
<1>2. a.ps = <<p>> /\ a.left = size - p.copy /\ a.c = incrementContinuityCounter(c)
  BY DEF Begun
<1>3. a = [ps |-> <<p>>, left |-> size - p.copy, c |-> incrementContinuityCounter(c)]
  BY DEF Begun
<1> HIDE DEF p, a
<1>4. size - p.copy \in Nat /\ size - p.copy = Rest(size)
  BY <1>1 DEF Rest
<1>5. <<p>> \in Seq(PacketType) /\ Len(<<p>>) = 1 /\ <<p>>[1] = p
  BY <1>1
<1>6. a \in Rounds
  BY <1>3, <1>4, <1>5, CounterSteps DEF Rounds
<1>7. FullPackets(a.ps)
  BY <1>1, <1>2, <1>5 DEF FullPackets
<1>8. Carried(a.ps) + a.left = size
  BY <1>1, <1>2, CarriedFirst
<1>9. Progress(a, size, 0)
  BY <1>2, <1>4, <1>5 DEF Progress
<1>10. c < 16 => InStep(a.ps, a.c)
  BY <1>1, <1>2, <1>5, CounterSteps DEF InStep
<1> QED
  BY <1>6, <1>7, <1>8, <1>9, <1>10 DEF RightRound, a

LEMMA CarriedIsInt ==
    ASSUME NEW ps \in Seq(PacketType) PROVE Carried(ps) \in Int
BY SumExists

LEMMA NextRound ==
    ASSUME NEW size \in Nat, NEW c \in Nat, NEW k \in Nat, NEW a, RightRound(a, size, c, k)
    PROVE  RightRound(Next1(a), size, c, k + 1)
<1> DEFINE L == Len(a.ps)
<1>1. /\ a \in Rounds /\ a.ps \in Seq(PacketType) /\ a.left \in Nat /\ a.c \in Nat
      /\ L \in Nat /\ L > 0
  BY DEF RightRound, Rounds, Progress
<1>2. CASE a.left = 0
  BY <1>1, <1>2 DEF RightRound, Progress, Next1
<1>3. CASE a.left > 0
  <2> DEFINE p == Packet(FALSE, a.left, PACKET - HEADER, a.c)
             b == Next1(a)
  <2>1. /\ p \in PacketType /\ p.starts = FALSE /\ p.counter = a.c
        /\ p.copy = Smaller(a.left, 184) /\ p.copy \in 0 .. a.left
        /\ HEADER + p.header + p.padding + p.copy = PACKET
    <3>1. PACKET - HEADER = 184 /\ 184 \in 0 .. 184
      BY RoomIsThere
    <3>2. \A l, q \in Nat : Filled(Packet(FALSE, l, 184, q), FALSE, l, 184, q)
      BY PacketIsFull, <3>1
    <3>3. Filled(Packet(FALSE, a.left, 184, a.c), FALSE, a.left, 184, a.c)
      BY <3>2, <1>1
    <3>4. Filled(p, FALSE, a.left, 184, a.c)
      BY <3>1, <3>3, Zenon
    <3> HIDE DEF p
    <3> QED
      BY <3>4 DEF Filled
  <2>2. b = [ps |-> Append(a.ps, p), left |-> a.left - p.copy,
             c |-> incrementContinuityCounter(a.c)]
    BY <1>3 DEF Next1
  <2> HIDE DEF p, b
  <2>3. b.ps = Append(a.ps, p) /\ b.left = a.left - p.copy /\ b.c = incrementContinuityCounter(a.c)
    BY <2>2
  <2>4. /\ b.ps \in Seq(PacketType) /\ Len(b.ps) = L + 1
        /\ \A i \in 1 .. L : b.ps[i] = a.ps[i]
        /\ b.ps[L + 1] = p
    BY <1>1, <2>1, <2>3
  <2>5. b \in Rounds
    <3>1. a.left - p.copy \in Nat
      BY <1>1, <2>1
    <3>3. incrementContinuityCounter(a.c) \in Nat
      BY <1>1 DEF incrementContinuityCounter
    <3>2. Append(a.ps, p) \in Seq(PacketType)
      BY <1>1, <2>1
    <3> QED
      BY <3>1, <3>2, <3>3, <2>2 DEF Rounds
  <2>6. FullPackets(b.ps)
    <3>1. ASSUME NEW i \in 1 .. L + 1
          PROVE  /\ HEADER + b.ps[i].header + b.ps[i].padding + b.ps[i].copy = PACKET
                 /\ b.ps[i].starts <=> i = 1
      <4>1. CASE i = L + 1
        <5>1. b.ps[i] = p /\ i # 1
          BY <4>1, <2>4, <1>1
        <5> QED
          BY <5>1, <2>1
      <4>2. CASE i # L + 1
        <5>1. i \in 1 .. L
          BY <4>2, <1>1
        <5> QED
          BY <5>1, <2>4 DEF RightRound, FullPackets
      <4> QED
        BY <4>1, <4>2
    <3> QED
      BY <3>1, <2>4 DEF FullPackets
  <2>7. Carried(b.ps) + b.left = size
    <3>1. Carried(b.ps) = Carried(a.ps) + p.copy
      BY <2>1, <2>3, <1>1, CarriedGrows
    <3> QED
      BY <3>1, <2>1, <2>3, <1>1, CarriedIsInt DEF RightRound
  <2>8. Progress(b, size, k + 1)
    <3>1. L = k + 1 /\ a.left = Rest(size) - 184 * k
      BY <1>3 DEF RightRound, Progress
    <3>2. Rest(size) \in Int
      BY RoomIsThere DEF Rest, Smaller
    <3>3. b.left = IF a.left < 184 THEN 0 ELSE a.left - 184
      BY <2>1, <2>3, <1>1 DEF Smaller
    <3> HIDE DEF L
    <3> QED
      BY <3>1, <3>2, <3>3, <2>4, <1>1, <1>3 DEF Progress
  <2>9. ASSUME c < 16 PROVE InStep(b.ps, b.c)
    <3>1. InStep(a.ps, a.c)
      BY <2>9 DEF RightRound
    <3>2. a.c < 16
      <4>1. a.c \in 0 .. 15
        BY <3>1, Zenon DEF InStep
      <4> QED
        BY <4>1
    <3>3. a.ps[L].counter = (a.c + 15) % 16
      BY <3>1 DEF InStep
    <3>4. /\ b.c \in 0 .. 15
          /\ a.c = (b.c + 15) % 16
          /\ (((a.c + 15) % 16) + 1) % 16 = a.c
      BY <3>2, <2>3, <1>1, CounterSteps
    <3>5. p.counter = (a.ps[L].counter + 1) % 16
      BY <3>3, <3>4, <2>1, Zenon
    <3>6. p.counter = (b.c + 15) % 16 /\ b.c \in 0 .. 15
      BY <3>4, <2>1, Zenon
    <3>7. ASSUME NEW i \in 2 .. L + 1 PROVE b.ps[i].counter = (b.ps[i - 1].counter + 1) % 16
      <4>1. CASE i = L + 1
        <5>1. i - 1 = L /\ L \in 1 .. L
          BY <4>1, <1>1
        <5> QED
          BY <4>1, <5>1, <3>5, <2>4
      <4>2. CASE i # L + 1
        <5>1. i \in 2 .. L /\ i \in 1 .. L /\ i - 1 \in 1 .. L
          BY <4>2, <1>1
        <5> QED
          BY <5>1, <3>1, <2>4 DEF InStep
      <4> QED
        BY <4>1, <4>2
    <3> QED
      BY <3>6, <3>7, <2>4 DEF InStep
  <2> QED
    BY <2>5, <2>6, <2>7, <2>8, <2>9 DEF RightRound, b
<1> QED
  BY <1>1, <1>2, <1>3

(* The count made in advance is that of the packets the data needs.        *)
Needed(size, n) ==
    /\ n \in Nat /\ n > 0 /\ Rest(size) \in Nat
    /\ Rest(size) <= 184 * (n - 1)
    /\ n > 1 => Rest(size) > 184 * (n - 2)

LEMMA CountIsRight ==
    ASSUME NEW size \in Nat
    PROVE  Needed(size, CountPackets(size))
<1> DEFINE rest == Rest(size)
           full == rest \div 184
           left == rest - full * 184
<1>1. rest \in Nat
  BY RoomIsThere DEF Rest, Smaller
<1>2. CountPackets(size) = 1 + full + (IF full = 0 /\ left > 0 THEN 1
                                       ELSE IF full > 0 /\ left + 184 > 184 THEN 1 ELSE 0)
  BY RoomIsThere DEF CountPackets, Rest, Room, PACKET, HEADER
<1> HIDE DEF rest
<1>3. full \in Nat /\ left \in 0 .. 183
  BY <1>1
<1> HIDE DEF full
<1>4. CountPackets(size) = 1 + full + (IF left > 0 THEN 1 ELSE 0)
  BY <1>2, <1>3, <1>1
<1>5. rest = 184 * full + left
  BY <1>1, <1>3
<1> HIDE DEF left
<1> QED
  BY <1>1, <1>3, <1>4, <1>5 DEF rest, Needed

Finished(made, size, c) ==
    /\ made \in Rounds /\ made.left = 0
    /\ Len(made.ps) = CountPackets(size) /\ Len(made.ps) > 0
    /\ FullPackets(made.ps) /\ Carried(made.ps) = size
    /\ c < 16 => InStep(made.ps, made.c)

LEMMA PacketsAreRight ==
    ASSUME NEW size \in Nat, NEW c \in Nat
    PROVE  Finished(Packets(size, c), size, c)
<1> DEFINE L == CountPackets(size) + 1
           step == [n \in 1 .. L |-> [a \in Rounds |-> Next1(a)]]
           loop(f) == [k \in 0 .. L |-> IF k = 0 THEN Begun(size, c) ELSE Next1(f[k - 1])]
           After == CHOOSE f : f = loop(f)
<1>1. L \in Nat /\ CountPackets(size) \in Nat
  BY CountIsRight DEF Needed
<1>2. Begun(size, c) \in Rounds
  BY FirstRound DEF RightRound
<1>3. ASSUME NEW a \in Rounds PROVE Next1(a) \in Rounds
  <2>1. /\ a.ps \in Seq(PacketType) /\ a.left \in Nat /\ a.c \in Nat
    BY DEF Rounds
  <2> DEFINE p == Packet(FALSE, a.left, PACKET - HEADER, a.c)
  <2>2. p \in PacketType /\ p.copy \in 0 .. a.left
    <3>1. PACKET - HEADER = 184 /\ 184 \in 0 .. 184
      BY RoomIsThere
    <3>2. \A l, q \in Nat : Filled(Packet(FALSE, l, 184, q), FALSE, l, 184, q)
      BY PacketIsFull, <3>1
    <3>3. Filled(Packet(FALSE, a.left, 184, a.c), FALSE, a.left, 184, a.c)
      BY <3>2, <2>1
    <3>4. Filled(p, FALSE, a.left, 184, a.c)
      BY <3>1, <3>3, Zenon
    <3> HIDE DEF p
    <3> QED
      BY <3>4 DEF Filled
  <2>3. Next1(a) = IF a.left = 0 THEN a
                   ELSE [ps |-> Append(a.ps, p), left |-> a.left - p.copy,
                         c |-> incrementContinuityCounter(a.c)]
    BY DEF Next1
  <2> HIDE DEF p
  <2>4. a.left - p.copy \in Nat /\ incrementContinuityCounter(a.c) \in Nat
    BY <2>1, <2>2 DEF incrementContinuityCounter
  <2>5. Append(a.ps, p) \in Seq(PacketType)
    BY <2>1, <2>2
  <2>6. [ps |-> Append(a.ps, p), left |-> a.left - p.copy,
         c |-> incrementContinuityCounter(a.c)] \in Rounds
    BY <2>4, <2>5 DEF Rounds
  <2> QED
    BY <2>3, <2>6
<1>4. \E f : f = loop(f)
  <2>1. step \in [1 .. L -> [Rounds -> Rounds]]
    BY <1>3
  <2> HIDE DEF step
  <2>2. PICK f : IsLoop(f, L, Rounds, Begun(size, c), step)
    BY <2>1, <1>1, <1>2, LoopExists
  <2> USE DEF IsLoop
  <2>3. ASSUME NEW n \in 1 .. L PROVE f[n] = Next1(f[n - 1])
    <3>1. f[n - 1] \in Rounds
      BY <2>2, <1>1
    <3>2. step[n] = [a \in Rounds |-> Next1(a)]
      BY DEF step
    <3>3. step[n][f[n - 1]] = Next1(f[n - 1])
      BY <3>1, <3>2, Zenon
    <3>4. f[n] = step[n][f[n - 1]]
      BY <2>2, Zenon
    <3> QED
      BY <3>3, <3>4
  <2>4. ASSUME NEW n \in 0 .. L PROVE f[n] = loop(f)[n]
    <3>1. CASE n = 0
      BY <3>1, <2>2
    <3>2. CASE n # 0
      BY <3>2, <2>3, <1>1
    <3> QED
      BY <3>1, <3>2
  <2>5. f = [n \in 0 .. L |-> f[n]] /\ loop(f) = [n \in 0 .. L |-> loop(f)[n]]
    BY <2>2
  <2>6. f = loop(f)
    BY <2>4, <2>5, Zenon
  <2> QED
    BY <2>6
<1>5. After = loop(After)
  BY <1>4
<1>6. Packets(size, c) = After[L]
  BY DEF Packets, Begun, First, Next1, Room
<1> HIDE DEF After
<1>7. After[0] = Begun(size, c) /\ \A n \in 1 .. L : After[n] = Next1(After[n - 1])
  <2>1. \A n \in 0 .. L : After[n] = loop(After)[n]
    BY <1>5
  <2> QED
    BY <2>1, <1>1
<1> DEFINE T == {n \in 0 .. L : RightRound(After[n], size, c, n)}
<1>8. 0 \in T
  BY <1>7, <1>1, FirstRound
<1>9. ASSUME NEW n \in 1 .. L, n - 1 \in T PROVE n \in T
  <2>1. RightRound(Next1(After[n - 1]), size, c, (n - 1) + 1)
    BY <1>9, <1>1, NextRound
  <2> QED
    BY <2>1, <1>7, <1>1
<1> HIDE DEF T
<1>10. \A n \in 0 .. L : n \in T
  BY <1>8, <1>9, <1>1, InductionToLength
<1>11. RightRound(After[L], size, c, L)
  BY <1>10, <1>1 DEF T
<1> DEFINE made == After[L]
<1>12. /\ made \in Rounds /\ made.left \in Nat /\ Len(made.ps) \in Nat
       /\ Carried(made.ps) \in Int /\ Progress(made, size, L)
  BY <1>11, CarriedIsInt DEF RightRound, Rounds
<1> HIDE DEF made
<1> DEFINE n == CountPackets(size)
<1>13. Needed(size, n)
  BY CountIsRight
<1>14. L = n + 1
  OBVIOUS
<1> HIDE DEF n, L
<1>15. made.left = 0
  BY <1>12, <1>13, <1>14 DEF Progress, Needed
<1>16. Len(made.ps) = n /\ Len(made.ps) > 0
  BY <1>12, <1>13, <1>15 DEF Progress, Needed
<1> QED
  BY <1>6, <1>11, <1>12, <1>15, <1>16 DEF RightRound, Finished, made, n

PackInv ==
    /\ begun \in Nat /\ counter \in Nat /\ capacity \in Nat
    /\ begun < 16 => counter < 16
    /\ PacketsAddUp

LEMMA PackInitial == PackInit => PackInv
BY PacketAssumption DEF PackInit, PackInv, PacketsAddUp, CapacityAtStart, PACKET

LEMMA PacketizeKeepsInv ==
    ASSUME PackInv, NEW size \in EsSize, packetize(size) PROVE PackInv'
<1> DEFINE made == Packets(size, counter)
           n == CountPackets(size)
<1>1. size \in Nat /\ begun \in Nat /\ counter \in Nat /\ capacity \in Nat
  BY PacketAssumption DEF PackInv
<1>2. Finished(made, size, counter)
  BY <1>1, PacketsAreRight
<1>3. n \in Nat
  BY <1>1, CountIsRight DEF Needed
<1>4. /\ counted' = n /\ written' = size /\ UNCHANGED begun
      /\ capacity' = IF n * PACKET > capacity THEN n * PACKET ELSE capacity
      /\ packets' = made.ps /\ counter' = made.c
  BY DEF packetize
<1> HIDE DEF made, n
<1>5. /\ made.ps \in Seq(PacketType) /\ made.c \in Nat /\ Len(made.ps) = n /\ n > 0
      /\ FullPackets(made.ps) /\ Carried(made.ps) = size
      /\ counter < 16 => InStep(made.ps, made.c)
  BY <1>2 DEF Finished, Rounds, n
<1>6. capacity' \in Nat /\ counted' * PACKET <= capacity'
  <2>1. n * 188 \in Nat
    BY <1>3
  <2>2. counted' * PACKET = n * 188
    BY <1>4 DEF PACKET
  <2>3. capacity' = IF n * 188 > capacity THEN n * 188 ELSE capacity
    BY <1>4 DEF PACKET
  <2> QED
    BY <2>1, <2>2, <2>3, <1>1
<1>7. ASSUME begun < 16 PROVE InStep(made.ps, made.c) /\ made.c < 16
  <2>1. InStep(made.ps, made.c)
    BY <1>7, <1>5 DEF PackInv
  <2>2. made.c \in 0 .. 15
    BY <2>1, Zenon DEF InStep
  <2> QED
    BY <2>1, <2>2
<1>8. PacketsAddUp'
  <2>1. Len(packets') = counted' /\ DOMAIN packets' = 1 .. Len(packets')
    BY <1>4, <1>5
  <2>2. \A i \in DOMAIN packets' :
            /\ HEADER + packets'[i].header + packets'[i].padding + packets'[i].copy = PACKET
            /\ packets'[i].starts <=> i = 1
    BY <2>1, <1>4, <1>5 DEF FullPackets
  <2>3. Carried(packets') = written'
    BY <1>4, <1>5
  <2>4. begun' < 16 =>
            /\ packets'[Len(packets')].counter = (counter' + 15) % 16
            /\ \A i \in 2 .. Len(packets') :
                   packets'[i].counter = (packets'[i - 1].counter + 1) % 16
    BY <1>4, <1>7 DEF InStep
  <2> QED
    BY <2>1, <2>2, <2>3, <2>4, <1>6 DEF PacketsAddUp
<1> QED
  BY <1>1, <1>4, <1>5, <1>6, <1>7, <1>8 DEF PackInv

LEMMA PackStepKeepsInv ==
    ASSUME PackInv, PackNext \/ UNCHANGED pkvars PROVE PackInv'
<1>1. CASE PackNext
  BY <1>1, PacketizeKeepsInv DEF PackNext
<1>2. CASE UNCHANGED pkvars
  BY <1>2 DEF pkvars, PackInv, PacketsAddUp
<1> QED
  BY <1>1, <1>2

(* packetize makes as many packets as it made room for, each is full, they *)
(* carry every byte of every buffer, and their continuity counters go on   *)
(* from packet to packet and from buffer to buffer, for buffers of any     *)
(* size, any number of them and any stuffing that fits into a packet.      *)
THEOREM PacketsCarryEverything == Spec => []PacketsAddUp
<1>1. Init => PackInv
  BY PackInitial DEF Init
<1>2. PackInv /\ [Next]_<<layer, layers>> => PackInv'
  BY PackStepKeepsInv DEF Next, layers
<1>3. PackInv => PacketsAddUp
  BY DEF PackInv
<1> QED
  BY <1>1, <1>2, <1>3, PTL DEF Spec
=============================================================================
