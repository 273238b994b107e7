---------------------------- MODULE DvrCasProofs ----------------------------
(***************************************************************************)
(* What holds of the services beside the player.  DvbCas: the event thread *)
(* of the CAS library against the closing client, for every set of CAS     *)
(* objects, every choice of calls that fail and every number of events.    *)
(* DvrPlayer: a client that starts and stops one, for every choice of      *)
(* calls that fail, every set of streams and every number of starts.       *)
(* DvrRecorder: every sequence of calls and lists of pids, by induction    *)
(* over the rounds of the loops in setStreams.  IptvCas: every stream of   *)
(* ECM packets, by induction over the rounds of checkEcmProcess.           *)
(***************************************************************************)
EXTENDS DvbCas, DvrPlayer, DvrRecorder, IptvCas, WellFoundedInduction, TLAPS

Opening == {"none", "enter", "refer"}
Closing == {"close", "leave", "gone"}
CasStage == Opening \union {"live", "released"} \union Closing

(* The library's thread has a reference to o. *)
Holds(o) == flying.at \in {"call", "drop"} /\ flying.object = o

CasTypeOK ==
    /\ strong \in [CasObj -> Int]
    /\ casPc \in [CasObj -> CasStage]
    /\ mCasSession = [o \in CasObj |-> mCasSession[o]]
    /\ flying \in [session : Sessions \union {NoSess},
                   object : CasObj \union {NoObj},
                   at : {"none", "lookup", "call", "drop"}]

(* The strong count is what it stands for: the client's reference and the  *)
(* thread's.  A client that gave its own back with the count above zero    *)
(* left the thread the last one.                                           *)
CountsAreRight ==
    \A o \in CasObj :
        /\ casPc[o] \in Opening => strong[o] <= 0 /\ ~Holds(o)
        /\ casPc[o] = "live" => strong[o] = IF Holds(o) THEN 2 ELSE 1
        /\ casPc[o] = "released" => strong[o] = 1 /\ Holds(o)
        /\ casPc[o] \in Closing => strong[o] = 0 /\ ~Holds(o)

HeldIsAnObject == flying.at \in {"call", "drop"} => flying.object \in CasObj

(* An entry of the map is that of an object that entered its session and   *)
(* has not left it.                                                        *)
MapIsRight ==
    \A e \in halMap :
        /\ e[2] \in CasObj /\ e[1] = mCasSession[e[2]]
        /\ casPc[e[2]] \notin {"none", "enter", "gone"}

CasInv == CasTypeOK /\ CountsAreRight /\ HeldIsAnObject /\ MapIsRight

-----------------------------------------------------------------------------
(* The invariant is enough.                                                *)
LEMMA CasInvImplies == CasInv => CallbackHoldsItsObject
<1> SUFFICES ASSUME CasInv PROVE CallbackHoldsItsObject
  OBVIOUS
<1>1. ASSUME flying.at = "call"
      PROVE  strong[flying.object] > 0 /\ casPc[flying.object] \in {"live", "released"}
  <2> DEFINE o == flying.object
  <2>1. o \in CasObj /\ Holds(o)
    BY <1>1 DEF CasInv, HeldIsAnObject, Holds
  <2>2. casPc[o] \in CasStage
    BY <2>1 DEF CasInv, CasTypeOK
  <2>3. casPc[o] \in {"live", "released"}
    BY <2>1, <2>2 DEF CasInv, CountsAreRight, CasStage
  <2> QED
    BY <2>1, <2>3 DEF CasInv, CountsAreRight
<1>2. \A e \in halMap : casPc[e[2]] # "gone"
  BY DEF CasInv, MapIsRight
<1> QED
  BY <1>1, <1>2 DEF CallbackHoldsItsObject

LEMMA CasInvInit == CasInit => CasInv
<1> SUFFICES ASSUME CasInit PROVE CasInv
  OBVIOUS
<1>1. CasTypeOK
  BY DEF CasInit, CasTypeOK, NoEvent, CasStage, Opening
<1>2. CountsAreRight
  BY DEF CasInit, CountsAreRight, NoEvent, Holds, Opening, Closing
<1> QED
  BY <1>1, <1>2 DEF CasInit, CasInv, HeldIsAnObject, MapIsRight, NoEvent

(* The calls of the client and the constructor and destructor they run.    *)
LEMMA CasInvObject ==
    ASSUME CasInv, NEW o \in CasObj, CasObjSteps(o)
    PROVE  CasInv'
<1> USE DEF CasInv, CasTypeOK, CountsAreRight, HeldIsAnObject, MapIsRight, Holds,
            CasStage, Opening, Closing
<1>1. CASE HalOpenSession(o)
  BY <1>1 DEF HalOpenSession
<1>2. CASE EnterSession(o)
  BY <1>2 DEF EnterSession
<1>3. CASE Aml_MP_CAS_OpenSession(o)
  BY <1>3 DEF Aml_MP_CAS_OpenSession
<1>4. CASE registerEventCallback(o)
  BY <1>4 DEF registerEventCallback
<1>5. CASE HalCall(o)
  BY <1>5 DEF HalCall
<1>6. CASE Aml_MP_CAS_CloseSession(o)
  BY <1>6 DEF Aml_MP_CAS_CloseSession, Release
<1>7. CASE HalCloseSession(o)
  BY <1>7 DEF HalCloseSession
<1>8. CASE LeaveSession(o)
  BY <1>8 DEF LeaveSession
<1> QED
  BY <1>1, <1>2, <1>3, <1>4, <1>5, <1>6, <1>7, <1>8 DEF CasObjSteps

(* The library's thread.                                                   *)
LEMMA CasInvHal ==
    ASSUME CasInv, HalSteps
    PROVE  CasInv'
<1> USE DEF CasInv, CasTypeOK, CountsAreRight, HeldIsAnObject, MapIsRight, Holds,
            CasStage, Opening, Closing
<1>1. CASE HalEvent
  BY <1>1 DEF HalEvent, NoEvent
<1>2. CASE sCasHalCb
  <2> DEFINE found == {e[2] : e \in {p \in halMap : p[1] = flying.session}}
             held == {o \in found : strong[o] > 0}
  <2>1. CASE held = {}
    BY <1>2, <2>1 DEF sCasHalCb, NoEvent
  <2>2. CASE held # {}
    <3> DEFINE o == CHOOSE o \in held : TRUE
    <3>1. o \in held
      BY <2>2
    <3> HIDE DEF o
    <3>2. o \in CasObj /\ strong[o] > 0
      BY <3>1
    <3>3. /\ flying.at = "lookup"
          /\ strong' = [strong EXCEPT ![o] = @ + 1]
          /\ flying' = [flying EXCEPT !.object = o, !.at = "call"]
      BY <1>2, <2>2 DEF sCasHalCb, o
    <3>4. /\ flying'.session = flying.session /\ flying'.object = o
          /\ flying'.at = "call"
          /\ flying' \in [session : Sessions \union {NoSess},
                          object : CasObj \union {NoObj},
                          at : {"none", "lookup", "call", "drop"}]
      BY <3>2, <3>3
    <3>5. UNCHANGED <<casPc, mCasSession, halMap>>
      BY <1>2 DEF sCasHalCb
    <3> QED
      BY <3>2, <3>3, <3>4, <3>5
  <2> QED
    BY <2>1, <2>2
<1>3. CASE notifyListener
  BY <1>3 DEF notifyListener
<1>4. CASE DropReference
  BY <1>4 DEF DropReference, NoEvent
<1> QED
  BY <1>1, <1>2, <1>3, <1>4 DEF HalSteps

(* Theorem: in every behaviour the client is called only for an object     *)
(* that is alive, and sCasHalSessionMap names none that is gone, however   *)
(* many sessions are open and events in flight.                            *)
THEOREM CasCallbacks == CasSpec => []CallbackHoldsItsObject
<1>1. CasInv /\ [CasNext]_cvars => CasInv'
  <2> SUFFICES ASSUME CasInv, [CasNext]_cvars PROVE CasInv'
    OBVIOUS
  <2>1. CASE Aml_MP_CAS_Initialize \/ Aml_MP_CAS_Terminate \/ UNCHANGED cvars
    BY <2>1 DEF Aml_MP_CAS_Initialize, Aml_MP_CAS_Terminate, cvars, CasInv,
       CasTypeOK,
         CountsAreRight, HeldIsAnObject, MapIsRight, Holds
  <2>2. CASE \E o \in CasObj : CasObjSteps(o)
    BY <2>2, CasInvObject
  <2>3. CASE HalSteps
    BY <2>3, CasInvHal
  <2> QED
    BY <2>1, <2>2, <2>3 DEF CasNext
<1> QED
  BY CasInvInit, CasInvImplies, <1>1, PTL DEF CasSpec
-----------------------------------------------------------------------------
(* DvrPlayer, called from one thread.                                      *)
OneCaller == \E c : Client = {c}

Pids == [video : Int, audio : Int, ad : Int]
Session == [state : {"none", "opened", "START", "PAUSE", "FF", "FB", "STOP", "closed"},
            mp : Handle \union {NoHandle}, pids : Pids, offset : {NoPid, 0, 1},
            deaf : BOOLEAN, missed : BOOLEAN]
Mp == [state : {"none", "alive", "gone"}, running : BOOLEAN, pids : Pids,
       window : {0, 1}, volume : BOOLEAN]

StartStage == {"startMp", "open", "begin", "seek"}
StopStage == {"stop", "stopDvr", "closeDvr", "readMp", "stopMp", "destroyMp", "stopped"}

DvrTypeOK ==
    /\ dObject \in {"none", "live"}
    /\ dHandle \in Handle \union {NoHandle} /\ dMp \in Handle \union {NoHandle}
    /\ dPids \in Pids /\ dOffset \in {NoPid, 0, 1} /\ asked \in {NoPid, 0, 1}
    /\ dWindow \in {0, 1} /\ misuse \in BOOLEAN
    /\ sess \in [Handle -> Session] /\ mps \in [Handle -> Mp]
    /\ dpc \in [Client -> {"idle"} \union StartStage \union StopStage]
    /\ dh \in [Client -> Handle \union {NoHandle}]
    /\ told \in {"created", "started", "stopped"}

(* The client is between two calls and plays; it does not play yet. *)
Plays(c) == dpc[c] = "idle" /\ told = "started"
Prepares(c) == (dpc[c] = "idle" /\ told # "started") \/ dpc[c] \in StartStage

(* What the object holds, whatever the client does: the one session that   *)
(* is open is the one it holds, lent the player it holds.                  *)
HoldsWhatIsOpen ==
    /\ \A s \in Handle : sess[s].state \notin {"none", "closed"} <=> s = dHandle
    /\ dHandle # NoHandle => sess[dHandle].mp = dMp /\ dMp # NoHandle
    /\ dMp # NoHandle => mps[dMp].state = "alive"
    /\ ~misuse

(* What it holds where the client is. *)
HoldsAt(c) ==
    /\ dObject = "none" => dpc[c] = "idle" /\ told = "stopped"
    /\ dpc[c] = "idle" => /\ told = "started" <=> dHandle # NoHandle
                          /\ told = "stopped" => dMp = NoHandle
    /\ dpc[c] \in StartStage => dMp # NoHandle /\ told # "started"
    /\ dpc[c] \in {"startMp", "open", "readMp", "stopMp", "destroyMp", "stopped"} =>
           dHandle = NoHandle
    /\ dpc[c] \in {"begin", "seek"} => dHandle # NoHandle
    /\ dpc[c] \in {"stopDvr", "closeDvr"} => dHandle # NoHandle /\ dh[c] = dHandle
    /\ dpc[c] \in {"stopMp", "destroyMp"} => dMp # NoHandle /\ dh[c] = dMp
    /\ dpc[c] = "stopped" => dMp = NoHandle

(* What it was asked for, and what became of that. *)
KeepsWhatWasAsked(c) ==
    /\ Prepares(c) => dOffset = asked
    /\ dpc[c] \in {"begin", "seek"} => sess[dHandle].offset = NoPid
    /\ dpc[c] = "seek" \/ Plays(c) => sess[dHandle].deaf \/ sess[dHandle].pids = dPids
    /\ dpc[c] \in {"open", "begin", "seek"} \/ Plays(c) => mps[dMp].window = dWindow
    /\ Plays(c) => sess[dHandle].missed \/ sess[dHandle].offset = asked

(* Handles are given out in order, a player's before that of its session:  *)
(* j sessions were ever opened, k players ever made.                       *)
SlotsAre(j, k) ==
    /\ \A h \in Handle : h > j => sess[h] = NoSession
    /\ \A h \in Handle : h <= j => sess[h].state # "none"
    /\ \A h \in Handle : h > k => mps[h] = NoMp
    /\ \A h \in Handle : h <= k => mps[h].state # "none"
    /\ j <= k
    /\ dMp # NoHandle => dMp = k

SlotsInOrder(c) ==
    \E j, k \in 0 .. MaxStarts + 1 :
        SlotsAre(j, k) /\ (Prepares(c) /\ dMp # NoHandle /\ dHandle = NoHandle => j < k)

DvrInvAt(c) ==
    DvrTypeOK /\ HoldsWhatIsOpen /\ HoldsAt(c) /\ KeepsWhatWasAsked(c) /\ SlotsInOrder(c)
DvrInv == \A c \in Client : DvrInvAt(c)

(* A handle that was never given out is found, and it is the next.         *)
LEMMA NextHandleIs ==
    ASSUME NEW S, NEW table \in [Handle -> S], NEW unused, NEW k \in 0 .. MaxStarts,
           \A h \in Handle : h > k => table[h] = unused,
           \A h \in Handle : h <= k => table[h] # unused
    PROVE  NextHandle(table, unused) = k + 1 /\ k + 1 \in Handle
<1>1. k + 1 \in Handle
  BY DvrAssumption DEF Handle
<1>2. \A h \in Handle : (table[h] = unused
                          /\ \A m \in Handle : m < h => table[m] # unused) <=> h = k + 1
  BY <1>1, DvrAssumption DEF Handle
<1> QED
  BY <1>1, <1>2 DEF NextHandle

LEMMA EmptyTypes ==
    /\ NoStreams \in Pids
    /\ NoSession \in Session /\ NoSession.state = "none"
    /\ NoMp \in Mp /\ NoMp.state = "none"
BY DEF NoStreams, NoSession, NoMp, Session, Mp, Pids, NoPid

LEMMA DvrInvInit == DvrInit => DvrInv
<1> SUFFICES ASSUME DvrInit, NEW c \in Client PROVE DvrInvAt(c)
  BY DEF DvrInv
<1>2. DvrTypeOK
  BY EmptyTypes DEF DvrInit, DvrTypeOK
<1>3. HoldsWhatIsOpen
  BY DEF DvrInit, HoldsWhatIsOpen, NoSession, Handle, NoHandle
<1>4. HoldsAt(c)
  BY DEF DvrInit, HoldsAt, StartStage
<1>5. KeepsWhatWasAsked(c)
  BY DEF DvrInit, KeepsWhatWasAsked, Plays
<1>6. SlotsInOrder(c)
  <2>1. SlotsAre(0, 0)
    BY DvrAssumption DEF DvrInit, SlotsAre, Handle, NoHandle
  <2> QED
    BY <2>1, DvrAssumption DEF DvrInit, SlotsInOrder
<1> QED
  BY <1>2, <1>3, <1>4, <1>5, <1>6 DEF DvrInvAt

(* A step that leaves alone what the object holds, the sessions that are   *)
(* closed and the players that are gone.                                   *)
SameBooks ==
    /\ UNCHANGED <<dHandle, dMp, misuse>>
    /\ sess' \in [Handle -> Session] /\ mps' \in [Handle -> Mp]
    /\ \A s \in Handle : s # dHandle => sess'[s] = sess[s]
    /\ dHandle # NoHandle => /\ sess'[dHandle].state \notin {"none", "closed"}
                             /\ sess'[dHandle].mp = sess[dHandle].mp
    /\ \A h \in Handle : h # dMp => mps'[h] = mps[h]
    /\ dMp # NoHandle => mps'[dMp].state = mps[dMp].state

LEMMA SameBooksInv ==
    ASSUME NEW c, Client = {c}, DvrInvAt(c), SameBooks,
           DvrTypeOK', HoldsAt(c)', KeepsWhatWasAsked(c)',
           Prepares(c)' => Prepares(c) \/ dMp = NoHandle
    PROVE  DvrInvAt(c)'
<1>2. HoldsWhatIsOpen'
  <2>1. \A s \in Handle : sess'[s].state \notin {"none", "closed"} <=> s = dHandle'
    BY DEF DvrInvAt, HoldsWhatIsOpen, SameBooks, Handle, NoHandle
  <2>2. dHandle' # NoHandle => sess'[dHandle'].mp = dMp' /\ dMp' # NoHandle
    BY DEF DvrInvAt, HoldsWhatIsOpen, SameBooks
  <2>3. dMp' # NoHandle => mps'[dMp'].state = "alive"
    BY DEF DvrInvAt, HoldsWhatIsOpen, SameBooks
  <2> QED
    BY <2>1, <2>2, <2>3 DEF DvrInvAt, HoldsWhatIsOpen, SameBooks
<1>4. SlotsInOrder(c)'
  <2>1. PICK j \in 0 .. MaxStarts + 1, k \in 0 .. MaxStarts + 1 :
           SlotsAre(j, k) /\ (Prepares(c) /\ dMp # NoHandle /\ dHandle = NoHandle => j < k)
    BY DEF DvrInvAt, SlotsInOrder
  <2>2. SlotsAre(j, k)'
    <3>1. \A h \in Handle : h > j => sess'[h] = NoSession
      <4> SUFFICES ASSUME NEW h \in Handle, h > j PROVE sess'[h] = NoSession
        OBVIOUS
      <4>1. sess[h] = NoSession
        BY <2>1 DEF SlotsAre
      <4>2. h # dHandle
        BY <4>1 DEF DvrInvAt, HoldsWhatIsOpen, NoSession
      <4> QED
        BY <4>1, <4>2 DEF SameBooks
    <3>2. \A h \in Handle : h <= j => sess'[h].state # "none"
      <4> SUFFICES ASSUME NEW h \in Handle, h <= j PROVE sess'[h].state # "none"
        OBVIOUS
      <4>1. h = dHandle => dHandle # NoHandle
        BY DEF Handle, NoHandle
      <4> QED
        BY <2>1, <4>1 DEF SameBooks, SlotsAre
    <3>3. \A h \in Handle : h > k => mps'[h] = NoMp
      <4> SUFFICES ASSUME NEW h \in Handle, h > k PROVE mps'[h] = NoMp
        OBVIOUS
      <4>1. mps[h] = NoMp /\ h # NoHandle
        BY <2>1 DEF SlotsAre, Handle, NoHandle
      <4>2. h # dMp
        BY <4>1 DEF DvrInvAt, HoldsWhatIsOpen, NoMp
      <4> QED
        BY <4>1, <4>2 DEF SameBooks
    <3>4. \A h \in Handle : h <= k => mps'[h].state # "none"
      <4> SUFFICES ASSUME NEW h \in Handle, h <= k PROVE mps'[h].state # "none"
        OBVIOUS
      <4>1. h # NoHandle
        BY DEF Handle, NoHandle
      <4> QED
        BY <2>1, <4>1 DEF SameBooks, SlotsAre
    <3> QED
      BY <2>1, <3>1, <3>2, <3>3, <3>4 DEF SlotsAre, SameBooks
  <2>3. (Prepares(c) /\ dMp # NoHandle /\ dHandle = NoHandle => j < k)'
    BY <2>1 DEF SameBooks
  <2> QED
    BY <2>1, <2>2, <2>3 DEF SlotsInOrder
<1> QED
  BY <1>2, <1>4 DEF DvrInvAt

(* A call that begins and ends between two of its object's changes.        *)
LEMMA CallInv ==
    ASSUME NEW c, Client = {c}, DvrInvAt(c), SameBooks,
           UNCHANGED <<dObject, dpc, dh, told>>,
           dPids' \in Pids, dOffset' \in {NoPid, 0, 1}, asked' \in {NoPid, 0, 1},
           dWindow' \in {0, 1}, KeepsWhatWasAsked(c)'
    PROVE  DvrInvAt(c)'
<1>1. DvrTypeOK'
  BY DEF DvrInvAt, DvrTypeOK, SameBooks
<1>2. HoldsAt(c)' /\ (Prepares(c)' => Prepares(c))
  BY DEF DvrInvAt, HoldsAt, SameBooks, Prepares
<1> QED
  BY <1>1, <1>2, SameBooksInv

LEMMA PlayPidsType ==
    ASSUME NEW s \in DvrStreams, NEW old \in Pids
    PROVE  PlayPids(s) \in Pids /\ MpStreams(old, PlayPids(s)) \in Pids
BY DvrAssumption DEF PlayPids, MpStreams, Pids, NoPid

LEMMA DvrRegisterInv ==
    ASSUME NEW c, Client = {c}, DvrInvAt(c), DvrRegister(c)
    PROVE  DvrInvAt(c)'
<1>1. /\ dpc[c] = "idle" /\ sess \in [Handle -> Session] /\ mps \in [Handle -> Mp]
      /\ dHandle \in Handle \union {NoHandle} /\ dMp \in Handle \union {NoHandle}
  BY DEF DvrInvAt, DvrTypeOK, DvrRegister
<1>2. SameBooks
  <2>1. sess' \in [Handle -> Session]
    BY <1>1, PlayPidsType DEF DvrRegister, Session, setStreamsCommon
  <2>2. mps' \in [Handle -> Mp]
    BY <1>1, PlayPidsType DEF Mp, DvrInvAt, DvrTypeOK, DvrRegister, setStreamsCommon
  <2> QED
    BY <1>1, <2>1, <2>2 DEF SameBooks, DvrRegister, setStreamsCommon, Session, Mp,
       DvrInvAt, HoldsWhatIsOpen
<1>3. dPids' \in Pids /\ dOffset' \in {NoPid, 0, 1} /\ asked' \in {NoPid, 0, 1} /\ dWindow' \in {0, 1}
  BY PlayPidsType DEF DvrInvAt, DvrTypeOK, DvrRegister, setStreamsCommon
<1>4. KeepsWhatWasAsked(c)'
  BY <1>1, <1>2 DEF DvrRegister, setStreamsCommon, DvrInvAt, DvrTypeOK,
     KeepsWhatWasAsked, Prepares, Plays, StartStage, HoldsWhatIsOpen, HoldsAt,
     Session, Mp
<1> QED
  BY <1>1, <1>2, <1>3, <1>4, CallInv DEF DvrRegister

(* libDVR took the streams, or the offset, or did not.                     *)
LEMMA SessionStreams ==
    ASSUME NEW f \in [Handle -> Session], NEW h \in Handle, NEW p \in Pids
    PROVE  [f EXCEPT ![h].pids = p, ![h].deaf = FALSE] \in [Handle -> Session]
<1> DEFINE r == f[h]
           x == [r EXCEPT !.pids = p, !.deaf = FALSE]
<1>1. x \in Session
  BY DEF Session
<1>2. [f EXCEPT ![h].pids = p, ![h].deaf = FALSE] = [f EXCEPT ![h] = x]
  OBVIOUS
<1> HIDE DEF x
<1> QED
  BY <1>1, <1>2

LEMMA SessionOffset ==
    ASSUME NEW f \in [Handle -> Session], NEW h \in Handle, NEW t \in {NoPid, 0, 1}
    PROVE  [f EXCEPT ![h].offset = t] \in [Handle -> Session]
BY DEF Session

LEMMA SessionRefuses ==
    ASSUME NEW f \in [Handle -> Session], NEW h \in Handle
    PROVE  /\ [f EXCEPT ![h].deaf = TRUE] \in [Handle -> Session]
           /\ [f EXCEPT ![h].missed = TRUE] \in [Handle -> Session]
BY DEF Session

LEMMA DvrSetStreamsInv ==
    ASSUME NEW c, Client = {c}, DvrInvAt(c), DvrSetStreams(c)
    PROVE  DvrInvAt(c)'
<1>1. /\ dpc[c] = "idle" /\ sess \in [Handle -> Session] /\ mps \in [Handle -> Mp]
      /\ dHandle \in Handle \union {NoHandle} /\ dMp \in Handle \union {NoHandle}
  BY DEF DvrInvAt, DvrTypeOK, DvrSetStreams
<1>2. SameBooks
  <2>1. sess' \in [Handle -> Session]
    <3>1. PICK s \in DvrStreams :
            \/ sess' = sess
            \/ dHandle # NoHandle /\ sess' = [sess EXCEPT ![dHandle].pids = PlayPids(s),
                                                         ![dHandle].deaf = FALSE]
            \/ dHandle # NoHandle /\ sess' = [sess EXCEPT ![dHandle].deaf = TRUE]
      BY DEF DvrSetStreams
    <3>2. PlayPids(s) \in Pids
      BY PlayPidsType, <1>1 DEF DvrInvAt, DvrTypeOK
    <3>3. dHandle # NoHandle => dHandle \in Handle
      BY <1>1
    <3>4. dHandle # NoHandle =>
            [sess EXCEPT ![dHandle].pids = PlayPids(s), ![dHandle].deaf = FALSE]
               \in [Handle -> Session]
      BY <1>1, <3>2, <3>3, SessionStreams, Zenon
    <3>5. dHandle # NoHandle =>
            [sess EXCEPT ![dHandle].deaf = TRUE] \in [Handle -> Session]
      BY <1>1, <3>3, SessionRefuses, Zenon
    <3> QED
      BY <1>1, <3>1, <3>4, <3>5
  <2>2. mps' \in [Handle -> Mp]
    <3>1. PICK s \in DvrStreams : setStreamsCommon(s)
      BY DEF DvrSetStreams
    <3> DEFINE p == MpStreams(mps[dMp].pids, PlayPids(s))
    <3>2. dMp # NoHandle => mps[dMp] \in Mp /\ p \in Pids
      BY <1>1, PlayPidsType DEF Mp
    <3>3. dMp # NoHandle => mps' = [mps EXCEPT ![dMp].pids = p]
      BY <3>1 DEF setStreamsCommon
    <3>4. dMp = NoHandle => mps' = mps
      BY <3>1 DEF setStreamsCommon
    <3> HIDE DEF p
    <3> QED
      BY <1>1, <3>2, <3>3, <3>4 DEF Mp
  <2> QED
    BY <1>1, <2>1, <2>2 DEF SameBooks, DvrSetStreams, setStreamsCommon, Session,
       Mp, DvrInvAt, HoldsWhatIsOpen
<1>3. dPids' \in Pids /\ dOffset' \in {NoPid, 0, 1} /\ asked' \in {NoPid, 0, 1} /\ dWindow' \in {0, 1}
  BY PlayPidsType DEF DvrInvAt, DvrTypeOK, DvrSetStreams, setStreamsCommon
<1>4. KeepsWhatWasAsked(c)'
  BY <1>1, <1>2 DEF DvrSetStreams, setStreamsCommon, DvrInvAt, DvrTypeOK,
     KeepsWhatWasAsked, Prepares, Plays, StartStage, HoldsWhatIsOpen, HoldsAt,
     Session, Mp
<1> QED
  BY <1>1, <1>2, <1>3, <1>4, CallInv DEF DvrSetStreams

LEMMA DvrSeekInv ==
    ASSUME NEW c, Client = {c}, DvrInvAt(c), DvrSeek(c)
    PROVE  DvrInvAt(c)'
<1>1. /\ dpc[c] = "idle" /\ sess \in [Handle -> Session] /\ mps \in [Handle -> Mp]
      /\ dHandle \in Handle \union {NoHandle} /\ dMp \in Handle \union {NoHandle}
  BY DEF DvrInvAt, DvrTypeOK, DvrSeek
<1>2. SameBooks
  <2>1. sess' \in [Handle -> Session]
    BY <1>1, PlayPidsType DEF DvrSeek, Session, setStreamsCommon
  <2>2. mps' \in [Handle -> Mp]
    BY <1>1, PlayPidsType DEF Mp, DvrInvAt, DvrTypeOK, DvrSeek, setStreamsCommon
  <2> QED
    BY <1>1, <2>1, <2>2 DEF SameBooks, DvrSeek, setStreamsCommon, Session, Mp,
       DvrInvAt, HoldsWhatIsOpen
<1>3. dPids' \in Pids /\ dOffset' \in {NoPid, 0, 1} /\ asked' \in {NoPid, 0, 1} /\ dWindow' \in {0, 1}
  BY PlayPidsType DEF DvrInvAt, DvrTypeOK, DvrSeek, setStreamsCommon
<1>4. KeepsWhatWasAsked(c)'
  BY <1>1, <1>2 DEF DvrSeek, setStreamsCommon, DvrInvAt, DvrTypeOK,
     KeepsWhatWasAsked, Prepares, Plays, StartStage, HoldsWhatIsOpen, HoldsAt,
     Session, Mp
<1> QED
  BY <1>1, <1>2, <1>3, <1>4, CallInv DEF DvrSeek

LEMMA DvrPauseInv ==
    ASSUME NEW c, Client = {c}, DvrInvAt(c), DvrPause(c)
    PROVE  DvrInvAt(c)'
<1>1. /\ dpc[c] = "idle" /\ sess \in [Handle -> Session] /\ mps \in [Handle -> Mp]
      /\ dHandle \in Handle \union {NoHandle} /\ dMp \in Handle \union {NoHandle}
  BY DEF DvrInvAt, DvrTypeOK, DvrPause
<1>2. SameBooks
  <2>1. sess' \in [Handle -> Session]
    BY <1>1, PlayPidsType DEF DvrPause, Session, setStreamsCommon
  <2>2. mps' \in [Handle -> Mp]
    BY <1>1, PlayPidsType DEF Mp, DvrInvAt, DvrTypeOK, DvrPause, setStreamsCommon
  <2> QED
    BY <1>1, <2>1, <2>2 DEF SameBooks, DvrPause, setStreamsCommon, Session, Mp,
       DvrInvAt, HoldsWhatIsOpen
<1>3. dPids' \in Pids /\ dOffset' \in {NoPid, 0, 1} /\ asked' \in {NoPid, 0, 1} /\ dWindow' \in {0, 1}
  BY PlayPidsType DEF DvrInvAt, DvrTypeOK, DvrPause, setStreamsCommon
<1>4. KeepsWhatWasAsked(c)'
  BY <1>1, <1>2 DEF DvrPause, setStreamsCommon, DvrInvAt, DvrTypeOK,
     KeepsWhatWasAsked, Prepares, Plays, StartStage, HoldsWhatIsOpen, HoldsAt,
     Session, Mp
<1> QED
  BY <1>1, <1>2, <1>3, <1>4, CallInv DEF DvrPause

LEMMA DvrResumeInv ==
    ASSUME NEW c, Client = {c}, DvrInvAt(c), DvrResume(c)
    PROVE  DvrInvAt(c)'
<1>1. /\ dpc[c] = "idle" /\ sess \in [Handle -> Session] /\ mps \in [Handle -> Mp]
      /\ dHandle \in Handle \union {NoHandle} /\ dMp \in Handle \union {NoHandle}
  BY DEF DvrInvAt, DvrTypeOK, DvrResume
<1>2. SameBooks
  <2>1. sess' \in [Handle -> Session]
    BY <1>1, PlayPidsType DEF DvrResume, Session, setStreamsCommon
  <2>2. mps' \in [Handle -> Mp]
    BY <1>1, PlayPidsType DEF Mp, DvrInvAt, DvrTypeOK, DvrResume, setStreamsCommon
  <2> QED
    BY <1>1, <2>1, <2>2 DEF SameBooks, DvrResume, setStreamsCommon, Session, Mp,
       DvrInvAt, HoldsWhatIsOpen
<1>3. dPids' \in Pids /\ dOffset' \in {NoPid, 0, 1} /\ asked' \in {NoPid, 0, 1} /\ dWindow' \in {0, 1}
  BY PlayPidsType DEF DvrInvAt, DvrTypeOK, DvrResume, setStreamsCommon
<1>4. KeepsWhatWasAsked(c)'
  BY <1>1, <1>2 DEF DvrResume, setStreamsCommon, DvrInvAt, DvrTypeOK,
     KeepsWhatWasAsked, Prepares, Plays, StartStage, HoldsWhatIsOpen, HoldsAt,
     Session, Mp
<1> QED
  BY <1>1, <1>2, <1>3, <1>4, CallInv DEF DvrResume

LEMMA DvrSetPlaybackRateInv ==
    ASSUME NEW c, Client = {c}, DvrInvAt(c), DvrSetPlaybackRate(c)
    PROVE  DvrInvAt(c)'
<1>1. /\ dpc[c] = "idle" /\ sess \in [Handle -> Session] /\ mps \in [Handle -> Mp]
      /\ dHandle \in Handle \union {NoHandle} /\ dMp \in Handle \union {NoHandle}
  BY DEF DvrInvAt, DvrTypeOK, DvrSetPlaybackRate
<1>2. SameBooks
  <2>1. sess' \in [Handle -> Session]
    BY <1>1, PlayPidsType DEF DvrSetPlaybackRate, Session, setStreamsCommon
  <2>2. mps' \in [Handle -> Mp]
    BY <1>1, PlayPidsType DEF Mp, DvrInvAt, DvrTypeOK, DvrSetPlaybackRate,
       setStreamsCommon
  <2> QED
    BY <1>1, <2>1, <2>2 DEF SameBooks, DvrSetPlaybackRate, setStreamsCommon,
       Session, Mp, DvrInvAt, HoldsWhatIsOpen
<1>3. dPids' \in Pids /\ dOffset' \in {NoPid, 0, 1} /\ asked' \in {NoPid, 0, 1} /\ dWindow' \in {0, 1}
  BY PlayPidsType DEF DvrInvAt, DvrTypeOK, DvrSetPlaybackRate, setStreamsCommon
<1>4. KeepsWhatWasAsked(c)'
  BY <1>1, <1>2 DEF DvrSetPlaybackRate, setStreamsCommon, DvrInvAt, DvrTypeOK,
     KeepsWhatWasAsked, Prepares, Plays, StartStage, HoldsWhatIsOpen, HoldsAt,
     Session, Mp
<1> QED
  BY <1>1, <1>2, <1>3, <1>4, CallInv DEF DvrSetPlaybackRate

LEMMA DvrSetANativeWindowInv ==
    ASSUME NEW c, Client = {c}, DvrInvAt(c), DvrSetANativeWindow(c)
    PROVE  DvrInvAt(c)'
<1>1. /\ dpc[c] = "idle" /\ sess \in [Handle -> Session] /\ mps \in [Handle -> Mp]
      /\ dHandle \in Handle \union {NoHandle} /\ dMp \in Handle \union {NoHandle}
  BY DEF DvrInvAt, DvrTypeOK, DvrSetANativeWindow
<1>2. SameBooks
  <2>1. sess' \in [Handle -> Session]
    BY <1>1, PlayPidsType DEF DvrSetANativeWindow, Session, setStreamsCommon
  <2>2. mps' \in [Handle -> Mp]
    BY <1>1, PlayPidsType DEF Mp, DvrInvAt, DvrTypeOK, DvrSetANativeWindow,
       setStreamsCommon
  <2> QED
    BY <1>1, <2>1, <2>2 DEF SameBooks, DvrSetANativeWindow, setStreamsCommon,
       Session, Mp, DvrInvAt, HoldsWhatIsOpen
<1>3. dPids' \in Pids /\ dOffset' \in {NoPid, 0, 1} /\ asked' \in {NoPid, 0, 1} /\ dWindow' \in {0, 1}
  BY PlayPidsType DEF DvrInvAt, DvrTypeOK, DvrSetANativeWindow, setStreamsCommon
<1>4. KeepsWhatWasAsked(c)'
  BY <1>1, <1>2 DEF DvrSetANativeWindow, setStreamsCommon, DvrInvAt, DvrTypeOK,
     KeepsWhatWasAsked, Prepares, Plays, StartStage, HoldsWhatIsOpen, HoldsAt,
     Session, Mp
<1> QED
  BY <1>1, <1>2, <1>3, <1>4, CallInv DEF DvrSetANativeWindow

LEMMA DvrSettingInv ==
    ASSUME NEW c, Client = {c}, DvrInvAt(c), DvrSetting(c)
    PROVE  DvrInvAt(c)'
<1>1. /\ dpc[c] = "idle" /\ sess \in [Handle -> Session] /\ mps \in [Handle -> Mp]
      /\ dHandle \in Handle \union {NoHandle} /\ dMp \in Handle \union {NoHandle}
  BY DEF DvrInvAt, DvrTypeOK, DvrSetting
<1>2. SameBooks
  <2>1. sess' \in [Handle -> Session]
    BY <1>1, PlayPidsType DEF DvrSetting, Session, setStreamsCommon
  <2>2. mps' \in [Handle -> Mp]
    BY <1>1, PlayPidsType DEF Mp, DvrInvAt, DvrTypeOK, DvrSetting, setStreamsCommon
  <2> QED
    BY <1>1, <2>1, <2>2 DEF SameBooks, DvrSetting, setStreamsCommon, Session, Mp,
       DvrInvAt, HoldsWhatIsOpen
<1>3. dPids' \in Pids /\ dOffset' \in {NoPid, 0, 1} /\ asked' \in {NoPid, 0, 1} /\ dWindow' \in {0, 1}
  BY PlayPidsType DEF DvrInvAt, DvrTypeOK, DvrSetting, setStreamsCommon
<1>4. KeepsWhatWasAsked(c)'
  BY <1>1, <1>2 DEF DvrSetting, setStreamsCommon, DvrInvAt, DvrTypeOK,
     KeepsWhatWasAsked, Prepares, Plays, StartStage, HoldsWhatIsOpen, HoldsAt,
     Session, Mp
<1> QED
  BY <1>1, <1>2, <1>3, <1>4, CallInv DEF DvrSetting
LEMMA DvrOnlySetStreamsInv ==
    ASSUME NEW c, Client = {c}, DvrInvAt(c), DvrOnlySetStreams(c)
    PROVE  DvrInvAt(c)'
BY DvrSetStreamsInv DEF DvrOnlySetStreams

LEMMA DvrStopInv ==
    ASSUME NEW c, Client = {c}, DvrInvAt(c), DvrStop(c)
    PROVE  DvrInvAt(c)'
<1>1. DvrTypeOK /\ HoldsAt(c) /\ KeepsWhatWasAsked(c) /\ c \in Client
  BY DEF DvrInvAt
<1>2. DvrTypeOK'
  BY <1>1 DEF DvrTypeOK, DvrStop, Goto, StopStage
<1>3. HoldsAt(c)'
  BY <1>1 DEF DvrTypeOK, DvrStop, Goto, HoldsAt, StartStage
<1>4. KeepsWhatWasAsked(c)' /\ (Prepares(c)' => Prepares(c) \/ dMp = NoHandle)
  BY <1>1 DEF DvrTypeOK, DvrStop, Goto, HoldsAt, KeepsWhatWasAsked, Prepares,
     Plays, StartStage
<1>5. SameBooks
  BY DEF DvrInvAt, DvrTypeOK, HoldsWhatIsOpen, SameBooks, DvrStop
<1> QED
  BY <1>2, <1>3, <1>4, <1>5, SameBooksInv DEF DvrStop

LEMMA StopReadsSessionInv ==
    ASSUME NEW c, Client = {c}, DvrInvAt(c), StopReadsSession(c)
    PROVE  DvrInvAt(c)'
<1>1. DvrTypeOK /\ HoldsAt(c) /\ KeepsWhatWasAsked(c) /\ c \in Client
  BY DEF DvrInvAt
<1>2. DvrTypeOK'
  BY <1>1 DEF DvrTypeOK, StopReadsSession, Goto, StopStage
<1>3. HoldsAt(c)'
  BY <1>1 DEF DvrTypeOK, StopReadsSession, Goto, HoldsAt, StartStage
<1>4. KeepsWhatWasAsked(c)' /\ (Prepares(c)' => Prepares(c) \/ dMp = NoHandle)
  BY <1>1 DEF DvrTypeOK, StopReadsSession, Goto, HoldsAt, KeepsWhatWasAsked,
     Prepares, Plays, StartStage
<1>5. SameBooks
  BY DEF DvrInvAt, DvrTypeOK, HoldsWhatIsOpen, SameBooks, StopReadsSession
<1> QED
  BY <1>2, <1>3, <1>4, <1>5, SameBooksInv DEF StopReadsSession

LEMMA StopReadsPlayerInv ==
    ASSUME NEW c, Client = {c}, DvrInvAt(c), StopReadsPlayer(c)
    PROVE  DvrInvAt(c)'
<1>1. DvrTypeOK /\ HoldsAt(c) /\ KeepsWhatWasAsked(c) /\ c \in Client
  BY DEF DvrInvAt
<1>2. DvrTypeOK'
  BY <1>1 DEF DvrTypeOK, StopReadsPlayer, Goto, StopStage
<1>3. HoldsAt(c)'
  BY <1>1 DEF DvrTypeOK, StopReadsPlayer, Goto, HoldsAt, StartStage
<1>4. KeepsWhatWasAsked(c)' /\ (Prepares(c)' => Prepares(c) \/ dMp = NoHandle)
  BY <1>1 DEF DvrTypeOK, StopReadsPlayer, Goto, HoldsAt, KeepsWhatWasAsked,
     Prepares, Plays, StartStage
<1>5. SameBooks
  BY DEF DvrInvAt, DvrTypeOK, HoldsWhatIsOpen, SameBooks, StopReadsPlayer
<1> QED
  BY <1>2, <1>3, <1>4, <1>5, SameBooksInv DEF StopReadsPlayer

LEMMA StopEndsInv ==
    ASSUME NEW c, Client = {c}, DvrInvAt(c), StopEnds(c)
    PROVE  DvrInvAt(c)'
<1>1. DvrTypeOK /\ HoldsAt(c) /\ KeepsWhatWasAsked(c) /\ c \in Client
  BY DEF DvrInvAt
<1>2. DvrTypeOK'
  BY <1>1 DEF DvrTypeOK, StopEnds, Goto, StopStage
<1>3. HoldsAt(c)'
  BY <1>1 DEF DvrTypeOK, StopEnds, Goto, HoldsAt, StartStage
<1>4. KeepsWhatWasAsked(c)' /\ (Prepares(c)' => Prepares(c) \/ dMp = NoHandle)
  BY <1>1 DEF DvrTypeOK, StopEnds, Goto, HoldsAt, KeepsWhatWasAsked, Prepares,
     Plays, StartStage
<1>5. SameBooks
  BY DEF DvrInvAt, DvrTypeOK, HoldsWhatIsOpen, SameBooks, StopEnds
<1> QED
  BY <1>2, <1>3, <1>4, <1>5, SameBooksInv DEF StopEnds
LEMMA StartsPlayerInv ==
    ASSUME NEW c, Client = {c}, DvrInvAt(c), StartsPlayer(c)
    PROVE  DvrInvAt(c)'
<1>1. DvrTypeOK /\ HoldsAt(c) /\ KeepsWhatWasAsked(c) /\ HoldsWhatIsOpen
  BY DEF DvrInvAt
<1>2. sess' \in [Handle -> Session]
  BY <1>1 DEF DvrTypeOK, HoldsAt, StartsPlayer, Usable, Session, NoHandle
<1>3. mps' \in [Handle -> Mp]
  <2>1. dMp \in Handle /\ dWindow \in {0, 1} /\ mps \in [Handle -> Mp]
    BY <1>1 DEF DvrTypeOK, HoldsAt, StartsPlayer, StartStage
  <2> QED
    BY <2>1 DEF StartsPlayer, Mp
<1>4. DvrTypeOK'
  BY <1>1, <1>2, <1>3 DEF DvrTypeOK, StartsPlayer, Goto, StopStage, StartStage
<1>5. SameBooks
  BY <1>1, <1>2, <1>3 DEF DvrTypeOK, HoldsAt, HoldsWhatIsOpen, SameBooks,
     StartsPlayer, Usable, Session, Mp, StartStage
<1>6. HoldsAt(c)'
  BY <1>1 DEF DvrTypeOK, StartsPlayer, Goto, HoldsAt, StartStage
<1>7. KeepsWhatWasAsked(c)' /\ (Prepares(c)' => Prepares(c) \/ dMp = NoHandle)
  BY <1>1 DEF DvrTypeOK, StartsPlayer, Goto, HoldsAt, KeepsWhatWasAsked,
     HoldsWhatIsOpen, Prepares, Plays, StartStage, Session, Mp, Usable
<1> QED
  BY <1>4, <1>5, <1>6, <1>7, SameBooksInv

LEMMA StartBeginsInv ==
    ASSUME NEW c, Client = {c}, DvrInvAt(c), StartBegins(c)
    PROVE  DvrInvAt(c)'
<1>1. DvrTypeOK /\ HoldsAt(c) /\ KeepsWhatWasAsked(c) /\ HoldsWhatIsOpen
  BY DEF DvrInvAt
<1>2. sess' \in [Handle -> Session]
  BY <1>1 DEF DvrTypeOK, HoldsAt, StartBegins, Usable, Session, NoHandle
<1>3. mps' \in [Handle -> Mp]
  BY <1>1 DEF DvrTypeOK, HoldsAt, StartBegins, Mp, StartStage, NoHandle
<1>4. DvrTypeOK'
  BY <1>1, <1>2, <1>3 DEF DvrTypeOK, StartBegins, Goto, StopStage, StartStage
<1>5. SameBooks
  BY <1>1, <1>2, <1>3 DEF DvrTypeOK, HoldsAt, HoldsWhatIsOpen, SameBooks,
     StartBegins, Usable, Session, Mp, StartStage
<1>6. HoldsAt(c)'
  BY <1>1 DEF DvrTypeOK, StartBegins, Goto, HoldsAt, StartStage
<1>7. KeepsWhatWasAsked(c)' /\ (Prepares(c)' => Prepares(c) \/ dMp = NoHandle)
  BY <1>1 DEF DvrTypeOK, StartBegins, Goto, HoldsAt, KeepsWhatWasAsked,
     HoldsWhatIsOpen, Prepares, Plays, StartStage, Session, Mp, Usable
<1> QED
  BY <1>4, <1>5, <1>6, <1>7, SameBooksInv

LEMMA StartSeeksInv ==
    ASSUME NEW c, Client = {c}, DvrInvAt(c), StartSeeks(c)
    PROVE  DvrInvAt(c)'
<1>1. DvrTypeOK /\ HoldsAt(c) /\ KeepsWhatWasAsked(c) /\ HoldsWhatIsOpen
  BY DEF DvrInvAt
<1>2. sess' \in [Handle -> Session]
  <2>1. dHandle \in Handle /\ dOffset \in {NoPid, 0, 1} /\ sess \in [Handle -> Session]
    BY <1>1 DEF DvrTypeOK, HoldsAt, StartSeeks
  <2>2. \/ sess' = sess \/ sess' = [sess EXCEPT ![dHandle].offset = dOffset]
        \/ sess' = [sess EXCEPT ![dHandle].missed = TRUE]
    BY DEF StartSeeks
  <2> HIDE DEF StartSeeks
  <2>3. [sess EXCEPT ![dHandle].offset = dOffset] \in [Handle -> Session]
    BY <2>1, SessionOffset, Zenon
  <2>4. [sess EXCEPT ![dHandle].missed = TRUE] \in [Handle -> Session]
    BY <2>1, SessionRefuses, Zenon
  <2> QED
    BY <2>1, <2>2, <2>3, <2>4
<1>3. mps' \in [Handle -> Mp]
  BY <1>1 DEF DvrTypeOK, HoldsAt, StartSeeks, Mp, StartStage, NoHandle
<1>4. DvrTypeOK'
  BY <1>1, <1>2, <1>3 DEF DvrTypeOK, StartSeeks, Goto, StopStage, StartStage
<1>5. SameBooks
  BY <1>1, <1>2, <1>3 DEF DvrTypeOK, HoldsAt, HoldsWhatIsOpen, SameBooks,
     StartSeeks, Usable, Session, Mp, StartStage
<1>6. HoldsAt(c)'
  BY <1>1 DEF DvrTypeOK, StartSeeks, Goto, HoldsAt, StartStage
<1>7. KeepsWhatWasAsked(c)' /\ (Prepares(c)' => Prepares(c) \/ dMp = NoHandle)
  BY <1>1 DEF DvrTypeOK, StartSeeks, Goto, HoldsAt, KeepsWhatWasAsked,
     HoldsWhatIsOpen, Prepares, Plays, StartStage, Session, Mp, Usable
<1> QED
  BY <1>4, <1>5, <1>6, <1>7, SameBooksInv

LEMMA StopsSessionInv ==
    ASSUME NEW c, Client = {c}, DvrInvAt(c), StopsSession(c)
    PROVE  DvrInvAt(c)'
<1>1. DvrTypeOK /\ HoldsAt(c) /\ KeepsWhatWasAsked(c) /\ HoldsWhatIsOpen
  BY DEF DvrInvAt
<1>2. sess' \in [Handle -> Session]
  BY <1>1 DEF DvrTypeOK, HoldsAt, StopsSession, Usable, Session, NoHandle
<1>3. mps' \in [Handle -> Mp]
  BY <1>1 DEF DvrTypeOK, HoldsAt, StopsSession, Mp, StartStage, NoHandle
<1>4. DvrTypeOK'
  BY <1>1, <1>2, <1>3 DEF DvrTypeOK, StopsSession, Goto, StopStage, StartStage
<1>5. SameBooks
  BY <1>1, <1>2, <1>3 DEF DvrTypeOK, HoldsAt, HoldsWhatIsOpen, SameBooks,
     StopsSession, Usable, Session, Mp, StartStage
<1>6. HoldsAt(c)'
  BY <1>1 DEF DvrTypeOK, StopsSession, Goto, HoldsAt, StartStage
<1>7. KeepsWhatWasAsked(c)' /\ (Prepares(c)' => Prepares(c) \/ dMp = NoHandle)
  BY <1>1 DEF DvrTypeOK, StopsSession, Goto, HoldsAt, KeepsWhatWasAsked,
     HoldsWhatIsOpen, Prepares, Plays, StartStage, Session, Mp, Usable
<1> QED
  BY <1>4, <1>5, <1>6, <1>7, SameBooksInv

LEMMA StopsPlayerInv ==
    ASSUME NEW c, Client = {c}, DvrInvAt(c), StopsPlayer(c)
    PROVE  DvrInvAt(c)'
<1>1. DvrTypeOK /\ HoldsAt(c) /\ KeepsWhatWasAsked(c) /\ HoldsWhatIsOpen
  BY DEF DvrInvAt
<1>2. sess' \in [Handle -> Session]
  BY <1>1 DEF DvrTypeOK, HoldsAt, StopsPlayer, Usable, Session, NoHandle
<1>3. mps' \in [Handle -> Mp]
  BY <1>1 DEF DvrTypeOK, HoldsAt, StopsPlayer, Mp, StartStage, NoHandle
<1>4. DvrTypeOK'
  BY <1>1, <1>2, <1>3 DEF DvrTypeOK, StopsPlayer, Goto, StopStage, StartStage
<1>5. SameBooks
  BY <1>1, <1>2, <1>3 DEF DvrTypeOK, HoldsAt, HoldsWhatIsOpen, SameBooks,
     StopsPlayer, Usable, Session, Mp, StartStage
<1>6. HoldsAt(c)'
  BY <1>1 DEF DvrTypeOK, StopsPlayer, Goto, HoldsAt, StartStage
<1>7. KeepsWhatWasAsked(c)' /\ (Prepares(c)' => Prepares(c) \/ dMp = NoHandle)
  BY <1>1 DEF DvrTypeOK, StopsPlayer, Goto, HoldsAt, KeepsWhatWasAsked,
     HoldsWhatIsOpen, Prepares, Plays, StartStage, Session, Mp, Usable
<1> QED
  BY <1>4, <1>5, <1>6, <1>7, SameBooksInv

(* A new player takes the next handle; no session was lent it yet.         *)
LEMMA MadePlayer ==
    ASSUME NEW c, Client = {c}, DvrInvAt(c), dMp = NoHandle,
           \E h \in Handle : mps[h] = NoMp,
           NEW ok \in BOOLEAN, createMpPlayerIfNeeded(ok),
           UNCHANGED <<sess, dHandle, misuse>>
    PROVE  /\ dMp' \in Handle \union {NoHandle} /\ mps' \in [Handle -> Mp]
           /\ dMp' = NoHandle => UNCHANGED <<dMp, mps>>
           /\ HoldsWhatIsOpen'
           /\ dMp' # NoHandle => \E j, k \in 0 .. MaxStarts + 1 : SlotsAre(j, k)' /\ j < k
<1> USE DvrAssumption
<1>1. PICK j \in 0 .. MaxStarts + 1, k \in 0 .. MaxStarts + 1 : SlotsAre(j, k)
  BY DEF DvrInvAt, SlotsInOrder
<1>2. dHandle = NoHandle
  BY DEF DvrInvAt, HoldsWhatIsOpen
<1>3. mps \in [Handle -> Mp]
  BY DEF DvrInvAt, DvrTypeOK
<1>4. CASE ~ok
  BY <1>1, <1>3, <1>4 DEF createMpPlayerIfNeeded, DvrInvAt, HoldsWhatIsOpen
<1>5. CASE ok
  <2>1. k \in 0 .. MaxStarts
    BY <1>1 DEF SlotsAre, NoMp, Handle
  <2>2. NextHandle(mps, NoMp) = k + 1 /\ k + 1 \in Handle
    <3>1. /\ \A h \in Handle : h > k => mps[h] = NoMp
          /\ \A h \in Handle : h <= k => mps[h] # NoMp
      BY <1>1, EmptyTypes DEF SlotsAre
    <3> QED
      BY <1>3, <2>1, <3>1, NextHandleIs
  <2>3. dMp' = k + 1 /\ mps' = [mps EXCEPT ![k + 1] = NewMp]
    BY <1>5, <2>2 DEF createMpPlayerIfNeeded
  <2>4. NewMp \in Mp /\ NewMp.state = "alive"
    BY EmptyTypes DEF NewMp, Mp
  <2>5. mps' \in [Handle -> Mp]
    BY <1>3, <2>2, <2>3, <2>4
  <2>6. HoldsWhatIsOpen'
    BY <1>2, <1>3, <2>2, <2>3, <2>4 DEF DvrInvAt, HoldsWhatIsOpen
  <2>7. SlotsAre(j, k + 1)' /\ j < k + 1
    BY <1>1, <1>3, <2>1, <2>2, <2>3, <2>4 DEF SlotsAre, Handle
  <2>8. dMp' # NoHandle /\ k + 1 \in 0 .. MaxStarts + 1
    BY <2>1, <2>3 DEF NoHandle
  <2> QED
    BY <2>2, <2>3, <2>5, <2>6, <2>7, <2>8
<1> QED
  BY <1>4, <1>5

LEMMA DvrCreateInv ==
    ASSUME NEW c, Client = {c}, DvrInvAt(c), DvrCreate(c)
    PROVE  DvrInvAt(c)'
<1>1. PICK ok \in BOOLEAN : createMpPlayerIfNeeded(ok)
  BY DEF DvrCreate, Outcome
<1>2. /\ dMp = NoHandle /\ dHandle = NoHandle /\ dpc[c] = "idle" /\ told = "stopped"
  BY DEF DvrCreate, DvrInvAt, HoldsAt
<1>3. /\ dMp' \in Handle \union {NoHandle} /\ mps' \in [Handle -> Mp]
      /\ dMp' = NoHandle => UNCHANGED <<dMp, mps>>
      /\ HoldsWhatIsOpen'
      /\ dMp' # NoHandle => \E j, k \in 0 .. MaxStarts + 1 : SlotsAre(j, k)' /\ j < k
  BY <1>1, <1>2, MadePlayer DEF DvrCreate
<1>4. DvrTypeOK'
  BY <1>3 DEF DvrInvAt, DvrTypeOK, DvrCreate
<1>5. HoldsAt(c)' /\ KeepsWhatWasAsked(c)'
  BY <1>2 DEF DvrInvAt, HoldsAt, KeepsWhatWasAsked, Prepares, Plays, StartStage,
     DvrCreate
<1>6. SlotsInOrder(c)'
  <2>1. CASE dMp' = NoHandle
    <3>1. UNCHANGED <<dMp, mps, sess, dHandle>>
      BY <1>3, <2>1 DEF DvrCreate
    <3> QED
      BY <1>2, <2>1, <3>1 DEF DvrInvAt, SlotsInOrder, SlotsAre
  <2>2. CASE dMp' # NoHandle
    BY <1>3, <2>2 DEF SlotsInOrder
  <2> QED
    BY <2>1, <2>2
<1> QED
  BY <1>3, <1>4, <1>5, <1>6 DEF DvrInvAt

LEMMA StartCreatesInv ==
    ASSUME NEW c, Client = {c}, DvrInvAt(c), StartCreates(c)
    PROVE  DvrInvAt(c)'
<1>1. PICK ok \in BOOLEAN : createMpPlayerIfNeeded(ok)
  BY DEF StartCreates, Outcome
<1>2. dHandle = NoHandle /\ dpc[c] = "idle" /\ told # "started"
  BY DEF StartCreates, DvrInvAt, HoldsAt
<1>3. dpc' = [dpc EXCEPT ![c] = IF dMp' = NoHandle THEN "idle" ELSE "startMp"]
  BY DEF StartCreates, Goto
<1>4. CASE dMp # NoHandle
  <2>1. UNCHANGED <<dMp, mps>>
    BY <1>1, <1>4 DEF createMpPlayerIfNeeded
  <2>2. DvrTypeOK'
    BY <1>3, <2>1 DEF DvrInvAt, DvrTypeOK, StartCreates, StartStage
  <2>3. HoldsAt(c)' /\ KeepsWhatWasAsked(c)'
    BY <1>2, <1>3, <1>4, <2>1 DEF DvrInvAt, DvrTypeOK, HoldsAt, KeepsWhatWasAsked,
       Prepares, Plays, StartStage, StartCreates
  <2>4. SameBooks
    BY <2>1 DEF SameBooks, StartCreates, DvrInvAt, DvrTypeOK, HoldsWhatIsOpen
  <2> QED
    BY <1>2, <2>2, <2>3, <2>4, SameBooksInv DEF Prepares
<1>5. CASE dMp = NoHandle
  <2>1. /\ dMp' \in Handle \union {NoHandle} /\ mps' \in [Handle -> Mp]
        /\ dMp' = NoHandle => UNCHANGED <<dMp, mps>>
        /\ HoldsWhatIsOpen'
        /\ dMp' # NoHandle => \E j, k \in 0 .. MaxStarts + 1 : SlotsAre(j, k)' /\ j < k
    BY <1>1, <1>5, MadePlayer DEF StartCreates
  <2>2. DvrTypeOK'
    BY <1>3, <2>1 DEF DvrInvAt, DvrTypeOK, StartCreates, StartStage
  <2>3. HoldsAt(c)' /\ KeepsWhatWasAsked(c)'
    BY <1>2, <1>3, <1>5 DEF DvrInvAt, DvrTypeOK, HoldsAt, KeepsWhatWasAsked,
       Prepares, Plays, StartStage, StartCreates
  <2>4. SlotsInOrder(c)'
    <3>1. CASE dMp' = NoHandle
      <4>1. UNCHANGED <<dMp, mps, sess, dHandle>>
        BY <2>1, <3>1 DEF StartCreates
      <4> QED
        BY <3>1, <4>1 DEF DvrInvAt, SlotsInOrder, SlotsAre
    <3>2. CASE dMp' # NoHandle
      BY <2>1, <3>2 DEF SlotsInOrder
    <3> QED
      BY <3>1, <3>2
  <2> QED
    BY <2>1, <2>2, <2>3, <2>4 DEF DvrInvAt
<1> QED
  BY <1>4, <1>5

(* A destroyed object held nothing.                                        *)
LEMMA DvrDestroyInv ==
    ASSUME NEW c, Client = {c}, DvrInvAt(c), DvrDestroy(c)
    PROVE  DvrInvAt(c)'
<1>1. dHandle = NoHandle /\ dMp = NoHandle /\ dpc[c] = "idle" /\ told = "stopped"
  BY DEF DvrDestroy, DvrInvAt, HoldsAt
<1>2. SameBooks
  BY <1>1 DEF SameBooks, DvrDestroy, DvrInvAt, DvrTypeOK
<1>3. DvrTypeOK'
  BY <1>1 DEF DvrDestroy, DvrInvAt, DvrTypeOK, NoStreams, Pids
<1>4. HoldsAt(c)' /\ KeepsWhatWasAsked(c)'
  BY <1>1 DEF DvrDestroy, HoldsAt, KeepsWhatWasAsked, Prepares, Plays, StartStage
<1> QED
  BY <1>1, <1>2, <1>3, <1>4, SameBooksInv

(* The session opened is the next, and the player's handle is not below.   *)
LEMMA StartOpensInv ==
    ASSUME NEW c, Client = {c}, DvrInvAt(c), StartOpens(c)
    PROVE  DvrInvAt(c)'
<1> USE DvrAssumption
<1>1. /\ dpc[c] = "open" /\ dHandle = NoHandle /\ dMp # NoHandle /\ told # "started"
      /\ dMp \in Handle /\ sess \in [Handle -> Session] /\ dOffset = asked
      /\ mps[dMp].window = dWindow
  BY DEF StartOpens, DvrInvAt, DvrTypeOK, HoldsAt, KeepsWhatWasAsked, Prepares,
     StartStage
<1>2. CASE UNCHANGED <<dHandle, sess>> /\ Goto(c, "stop")
  <2>1. DvrTypeOK' /\ dpc'[c] = "stop"
    BY <1>2 DEF StartOpens, DvrInvAt, DvrTypeOK, Goto, StopStage
  <2>2. HoldsAt(c)' /\ KeepsWhatWasAsked(c)' /\ SameBooks /\ ~Prepares(c)'
    BY <1>1, <1>2, <2>1 DEF StartOpens, DvrInvAt, DvrTypeOK, HoldsWhatIsOpen,
       HoldsAt,
       KeepsWhatWasAsked, SameBooks, Prepares, Plays, StartStage
  <2> QED
    BY <2>1, <2>2, SameBooksInv
<1>3. CASE LET s == NextHandle(sess, NoSession)
           IN  /\ dHandle' = s
               /\ sess' = [sess EXCEPT ![s].state = "opened", ![s].mp = dMp]
               /\ Goto(c, "begin")
  <2>1. PICK j \in 0 .. MaxStarts + 1, k \in 0 .. MaxStarts + 1 : SlotsAre(j, k) /\ j < k
    BY <1>1 DEF DvrInvAt, SlotsInOrder, Prepares, StartStage
  <2>2. NextHandle(sess, NoSession) = j + 1 /\ j + 1 \in Handle
    <3>1. /\ \A h \in Handle : h > j => sess[h] = NoSession
          /\ \A h \in Handle : h <= j => sess[h] # NoSession
          /\ j \in 0 .. MaxStarts
      BY <2>1, EmptyTypes DEF SlotsAre
    <3> QED
      BY <1>1, <3>1, NextHandleIs
  <2> DEFINE s == j + 1
             x == [NoSession EXCEPT !.state = "opened", !.mp = dMp]
  <2>3. sess[s] = NoSession /\ s \in Handle /\ s # NoHandle
    BY <2>1, <2>2 DEF SlotsAre, Handle, NoHandle
  <2>4. x \in Session /\ x.state = "opened" /\ x.mp = dMp /\ x.offset = NoPid
    <3>1. NoSession \in Session /\ NoSession.offset = NoPid
      BY EmptyTypes DEF NoSession
    <3> QED
      BY <1>1, <3>1 DEF Session
  <2>5. dHandle' = s /\ dpc' = [dpc EXCEPT ![c] = "begin"]
    BY <1>3, <2>2 DEF Goto
  <2>6. sess' = [sess EXCEPT ![s] = x]
    <3>1. sess' = [sess EXCEPT ![s].state = "opened", ![s].mp = dMp]
      BY <1>3, <2>2
    <3>2. sess' = [sess EXCEPT ![s] = [sess[s] EXCEPT !.state = "opened", !.mp = dMp]]
      BY <1>1, <2>3, <3>1
    <3> QED
      BY <2>3, <3>2
  <2>7. UNCHANGED <<dObject, dMp, dPids, dOffset, dWindow, mps, dh, told, asked, misuse>>
    BY DEF StartOpens
  <2> HIDE DEF s, x
  <2>8. DvrTypeOK'
    BY <1>1, <2>3, <2>4, <2>5, <2>6, <2>7 DEF DvrInvAt, DvrTypeOK, StartStage
  <2>9. HoldsWhatIsOpen'
    <3>1. \A h \in Handle : sess[h].state \in {"none", "closed"} /\ h # NoHandle
      BY <1>1 DEF DvrInvAt, HoldsWhatIsOpen, Handle, NoHandle
    <3>2. \A h \in Handle : sess'[h] = IF h = s THEN x ELSE sess[h]
      BY <1>1, <2>3, <2>6
    <3>3. mps[dMp].state = "alive" /\ ~misuse
      BY <1>1 DEF DvrInvAt, HoldsWhatIsOpen
    <3> QED
      BY <1>1, <2>3, <2>4, <2>5, <2>7, <3>1, <3>2, <3>3 DEF HoldsWhatIsOpen
  <2>10. HoldsAt(c)' /\ KeepsWhatWasAsked(c)'
    BY <1>1, <2>3, <2>4, <2>5, <2>6, <2>7 DEF DvrInvAt, DvrTypeOK, HoldsAt,
       KeepsWhatWasAsked, Prepares, Plays, StartStage
  <2>11. SlotsInOrder(c)'
    <3>1. SlotsAre(j + 1, k)'
      <4>1. \A h \in Handle : sess'[h] = IF h = s THEN x ELSE sess[h]
        BY <1>1, <2>3, <2>6
      <4>2. \A h \in Handle : h > j + 1 => sess'[h] = NoSession
        BY <2>1, <4>1 DEF SlotsAre, Handle, s
      <4>3. \A h \in Handle : h <= j + 1 => sess'[h].state # "none"
        BY <2>1, <2>4, <4>1 DEF SlotsAre, Handle, s
      <4> QED
        BY <2>1, <2>7, <4>2, <4>3 DEF SlotsAre
    <3> QED
      BY <2>1, <2>3, <2>5, <3>1 DEF SlotsInOrder
  <2> QED
    BY <2>8, <2>9, <2>10, <2>11 DEF DvrInvAt
<1> QED
  BY <1>2, <1>3 DEF StartOpens

(* Closing its session leaves the object with none.                        *)
LEMMA ClosesSessionInv ==
    ASSUME NEW c, Client = {c}, DvrInvAt(c), ClosesSession(c)
    PROVE  DvrInvAt(c)'
<1>1. /\ dpc[c] = "closeDvr" /\ dHandle # NoHandle /\ dh[c] = dHandle
      /\ dHandle \in Handle /\ sess \in [Handle -> Session]
      /\ Usable(sess, dHandle)
  BY DEF ClosesSession, DvrInvAt, DvrTypeOK, HoldsAt, HoldsWhatIsOpen, Usable
<1>2. /\ dHandle' = NoHandle /\ sess' = [sess EXCEPT ![dHandle] = ClosedSession]
      /\ misuse' = misuse /\ dpc' = [dpc EXCEPT ![c] = "readMp"]
      /\ UNCHANGED <<dObject, dMp, dPids, dOffset, dWindow, mps, dh, told, asked>>
  BY <1>1 DEF ClosesSession, Goto, DvrInvAt, DvrTypeOK
<1>3. ClosedSession \in Session /\ ClosedSession.state = "closed"
  BY EmptyTypes DEF ClosedSession, Session
<1>4. DvrTypeOK'
  BY <1>1, <1>2, <1>3 DEF DvrInvAt, DvrTypeOK, StopStage
<1>5. HoldsWhatIsOpen'
  BY <1>1, <1>2, <1>3 DEF DvrInvAt, HoldsWhatIsOpen, Handle, NoHandle
<1>6. HoldsAt(c)' /\ KeepsWhatWasAsked(c)' /\ ~Prepares(c)'
  BY <1>1, <1>2 DEF DvrInvAt, DvrTypeOK, HoldsAt, KeepsWhatWasAsked, Prepares,
     Plays,
     StartStage
<1>7. SlotsInOrder(c)'
  <2>1. PICK j \in 0 .. MaxStarts + 1, k \in 0 .. MaxStarts + 1 : SlotsAre(j, k)
    BY DEF DvrInvAt, SlotsInOrder
  <2>2. dHandle <= j
    BY <1>1, <2>1, DvrAssumption DEF SlotsAre, Usable, NoSession, Handle
  <2>3. SlotsAre(j, k)'
    <3>1. \A h \in Handle : sess'[h] = IF h = dHandle THEN ClosedSession ELSE sess[h]
      BY <1>1, <1>2
    <3>2. \A h \in Handle : h > j => sess'[h] = NoSession
      BY <2>1, <2>2, <3>1, DvrAssumption DEF SlotsAre, Handle
    <3>3. \A h \in Handle : h <= j => sess'[h].state # "none"
      BY <1>3, <2>1, <3>1 DEF SlotsAre
    <3> QED
      BY <1>2, <2>1, <3>2, <3>3 DEF SlotsAre
  <2> QED
    BY <1>6, <2>3 DEF SlotsInOrder
<1> QED
  BY <1>4, <1>5, <1>6, <1>7 DEF DvrInvAt

LEMMA DestroysPlayerInv ==
    ASSUME NEW c, Client = {c}, DvrInvAt(c), DestroysPlayer(c)
    PROVE  DvrInvAt(c)'
<1>1. /\ dpc[c] = "destroyMp" /\ dHandle = NoHandle /\ dMp # NoHandle /\ dh[c] = dMp
      /\ dMp \in Handle /\ mps \in [Handle -> Mp] /\ mps[dMp].state = "alive"
  BY DEF DestroysPlayer, DvrInvAt, DvrTypeOK, HoldsAt, HoldsWhatIsOpen
<1>2. /\ dMp' = NoHandle /\ mps' = [mps EXCEPT ![dMp] = GoneMp]
      /\ misuse' = misuse /\ dpc' = [dpc EXCEPT ![c] = "stopped"]
      /\ UNCHANGED <<dObject, dHandle, dPids, dOffset, dWindow, sess, dh, told, asked>>
  BY <1>1 DEF DestroysPlayer, Goto, DvrInvAt, DvrTypeOK
<1>3. GoneMp \in Mp /\ GoneMp.state = "gone"
  BY EmptyTypes DEF GoneMp, Mp
<1>4. DvrTypeOK'
  BY <1>1, <1>2, <1>3 DEF DvrInvAt, DvrTypeOK, StopStage
<1>5. HoldsWhatIsOpen'
  BY <1>1, <1>2 DEF DvrInvAt, HoldsWhatIsOpen
<1>6. HoldsAt(c)' /\ KeepsWhatWasAsked(c)' /\ ~Prepares(c)'
  BY <1>1, <1>2 DEF DvrInvAt, DvrTypeOK, HoldsAt, KeepsWhatWasAsked, Prepares,
     Plays,
     StartStage
<1>7. SlotsInOrder(c)'
  <2>1. PICK j \in 0 .. MaxStarts + 1, k \in 0 .. MaxStarts + 1 : SlotsAre(j, k)
    BY DEF DvrInvAt, SlotsInOrder
  <2>2. SlotsAre(j, k)'
    BY <1>1, <1>2, <1>3, <2>1, DvrAssumption DEF SlotsAre, Handle
  <2> QED
    BY <1>6, <2>2 DEF SlotsInOrder
<1> QED
  BY <1>4, <1>5, <1>6, <1>7 DEF DvrInvAt

(* The invariant is enough.                                                *)
LEMMA DvrInvImplies ==
    ASSUME NEW c, Client = {c}, DvrInvAt(c)
    PROVE  SessionServesItsClient
<1>1. Opened = IF dHandle = NoHandle THEN {} ELSE {dHandle}
  BY DEF DvrInvAt, DvrTypeOK, HoldsWhatIsOpen, Opened, Handle, NoHandle
<1>2. SessionsAreTheClients
  BY <1>1 DEF DvrInvAt, HoldsWhatIsOpen, HoldsAt, SessionsAreTheClients,
     SessionHasItsPlayer, Quiet
<1>3. SessionPlaysWhatWasAsked
  BY DEF DvrInvAt, KeepsWhatWasAsked, SessionPlaysWhatWasAsked, Quiet, Plays
<1> QED
  BY <1>2, <1>3 DEF SessionServesItsClient

LEMMA DvrInvNext ==
    ASSUME NEW c, Client = {c}, DvrInvAt(c), [DvrNext]_dvars
    PROVE  DvrInvAt(c)'
<1>1. CASE LibDvrEvent \/ UNCHANGED dvars
  BY <1>1 DEF LibDvrEvent, dvars, DvrInvAt, DvrTypeOK, HoldsWhatIsOpen, HoldsAt,
     KeepsWhatWasAsked, SlotsInOrder, SlotsAre, Prepares, Plays
<1>2. CASE Aml_MP_DVRPlayer(c)
  BY <1>2, DvrCreateInv, DvrDestroyInv, DvrRegisterInv, DvrSetStreamsInv,
     DvrOnlySetStreamsInv, DvrStopInv, DvrPauseInv, DvrResumeInv, DvrSeekInv,
     DvrSetPlaybackRateInv DEF Aml_MP_DVRPlayer
<1>3. CASE Aml_MP_DVRPlayer_Settings(c)
  BY <1>3, DvrSetANativeWindowInv, DvrSettingInv DEF Aml_MP_DVRPlayer_Settings
<1>4. CASE start(c)
  BY <1>4, StartCreatesInv, StartsPlayerInv, StartOpensInv, StartBeginsInv,
     StartSeeksInv DEF start
<1>5. CASE stopInternal(c)
  BY <1>5, StopReadsSessionInv, StopsSessionInv, ClosesSessionInv,
     StopReadsPlayerInv,
     StopsPlayerInv, DestroysPlayerInv, StopEndsInv DEF stopInternal
<1> QED
  BY <1>1, <1>2, <1>3, <1>4, <1>5 DEF DvrNext

(* Theorem: a client that calls from one thread has the session it was     *)
(* told of, with its player, and that session plays what was asked for,    *)
(* through every failed start, stop and restart.  OneCaller leaves out two *)
(* threads that stop the object at once: the code has no lock there.       *)
THEOREM DvrPlayerServes ==
    ASSUME OneCaller
    PROVE  DvrSpec => []SessionServesItsClient
<1>1. PICK c : Client = {c}
  BY DEF OneCaller
<1>2. DvrInit => DvrInvAt(c)
  BY <1>1, DvrInvInit DEF DvrInv
<1>3. DvrInvAt(c) /\ [DvrNext]_dvars => DvrInvAt(c)'
  BY <1>1, DvrInvNext
<1>4. DvrInvAt(c) => SessionServesItsClient
  BY <1>1, DvrInvImplies
<1> QED
  BY <1>2, <1>3, <1>4, PTL DEF DvrSpec

-----------------------------------------------------------------------------
(***************************************************************************)
(* DvrRecorder: setStreams compares the list it is given with the last one *)
(* in two loops.  What a loop has made after n rounds is a function of n;  *)
(* the two lemmas say that it exists and what holds of it.                 *)
(***************************************************************************)
LEMMA LeastExists ==
    ASSUME NEW I, I \subseteq Nat, I # {}
    PROVE  \E j \in I : \A i \in I : j <= i
<1>1. PICK x \in I : \A y \in I : ~(<<y, x>> \in OpToRel(<, Nat))
  BY NatLessThanWellFounded, WFMin, Zenon
<1>2. \A y \in I : ~(y < x)
  BY <1>1, Zenon DEF OpToRel
<1> QED
  BY <1>2

LEMMA InductionToLength ==
    ASSUME NEW L \in Nat, NEW T, 0 \in T,
           \A n \in 1 .. L : n - 1 \in T => n \in T
    PROVE  \A n \in 0 .. L : n \in T
<1> DEFINE Rest == {n \in 0 .. L : n \notin T}
<1>1. ASSUME Rest # {} PROVE FALSE
  <2>1. Rest \subseteq Nat
    OBVIOUS
  <2> HIDE DEF Rest
  <2>2. PICK x \in Rest : \A y \in Rest : x <= y
    BY <2>1, <1>1, LeastExists, Zenon
  <2> USE DEF Rest
  <2>4. x \in 1 .. L /\ x - 1 \notin Rest
    BY <2>2
  <2> QED
    BY <2>4
<1> QED
  BY <1>1

IsLoop(f, L, S, b, step) ==
    /\ f \in [0 .. L -> S] /\ f[0] = b
    /\ \A n \in 1 .. L : f[n] = step[n][f[n - 1]]

LEMMA LoopExists ==
    ASSUME NEW L \in Nat, NEW S, NEW b \in S, NEW step \in [1 .. L -> [S -> S]]
    PROVE  \E f : IsLoop(f, L, S, b, step)
<1> DEFINE Upto(f, m) == /\ f \in [0 .. m -> S] /\ f[0] = b
                         /\ \A n \in 1 .. m : f[n] = step[n][f[n - 1]]
           T == {m \in 0 .. L : \E f : Upto(f, m)}
<1>1. 0 \in T
  <2> DEFINE g == [n \in 0 .. 0 |-> b]
  <2>1. Upto(g, 0)
    OBVIOUS
  <2> HIDE DEF g, Upto
  <2> QED
    BY <2>1
<1>2. ASSUME NEW m \in 1 .. L, m - 1 \in T PROVE m \in T
  <2>1. PICK f : Upto(f, m - 1)
    BY <1>2
  <2> DEFINE g == [n \in 0 .. m |-> IF n = m THEN step[m][f[m - 1]] ELSE f[n]]
  <2>2. f[m - 1] \in S
    BY <2>1
  <2>3. step[m] \in [S -> S]
    OBVIOUS
  <2>4. step[m][f[m - 1]] \in S
    BY <2>2, <2>3
  <2>5. g \in [0 .. m -> S]
    BY <2>4, <2>1
  <2>6. g[0] = b
    BY <2>1
  <2>7. ASSUME NEW n \in 1 .. m PROVE g[n] = step[n][g[n - 1]]
    BY <2>1
  <2> HIDE DEF g
  <2>8. Upto(g, m)
    BY <2>5, <2>6, <2>7
  <2> HIDE DEF Upto
  <2> QED
    BY <2>8
<1>3. \A m \in 1 .. L : m - 1 \in T => m \in T
  BY <1>2
<1> HIDE DEF T
<1>4. \A n \in 0 .. L : n \in T
  BY <1>1, <1>3, InductionToLength
<1>5. L \in T
  BY <1>4
<1>6. PICK f : Upto(f, L)
  BY <1>5 DEF T
<1>7. IsLoop(f, L, S, b, step)
  BY <1>6 DEF IsLoop
<1> QED
  BY <1>7

-----------------------------------------------------------------------------
(* A list of pids that setStreams may be left with. *)
Lists == {s \in Seq(RecPids) : NoneTwice(s) /\ Len(s) <= MaxAsked}
On(s) == {s[i] : i \in DOMAIN s}

(* An unrecorded stream is left out; the others keep their order.          *)
LEMMA RecordedIsList ==
    ASSUME ~Repeats, NEW streams \in Asked
    PROVE  Recorded(streams) \in Lists
<1> DEFINE L == Len(streams)
<1>1. PICK m \in 0 .. MaxAsked : streams \in [1 .. m -> RecPids] /\ NoneTwice(streams)
  BY DEF Asked
<1>2. streams \in Seq(RecPids) /\ L = m /\ L \in Nat
  BY <1>1, TableAssumption
<1> DEFINE S == Seq(RecPids)
           keep(n, u) == IF streams[n] \in Unrecorded THEN u ELSE Append(u, streams[n])
           step == [n \in 1 .. L |-> [u \in S |-> keep(n, u)]]
           loop(f) == [n \in 0 .. L |-> IF n = 0 THEN <<>>
                                        ELSE IF streams[n] \in Unrecorded THEN f[n - 1]
                                        ELSE Append(f[n - 1], streams[n])]
           kept == CHOOSE f : f = loop(f)
<1>3. \E f : f = loop(f)
  <2>1. step \in [1 .. L -> [S -> S]] /\ <<>> \in S
    BY <1>2
  <2> HIDE DEF step
  <2>2. PICK f : IsLoop(f, L, S, <<>>, step)
    BY <2>1, <1>2, LoopExists
  <2> USE DEF IsLoop
  <2>3. ASSUME NEW n \in 1 .. L PROVE f[n] = keep(n, f[n - 1])
    <3>1. f[n - 1] \in S
      BY <2>2, <1>2
    <3>2. step[n] = [u \in S |-> keep(n, u)]
      BY DEF step
    <3>3. step[n][f[n - 1]] = keep(n, f[n - 1])
      BY <3>1, <3>2, Zenon
    <3>4. f[n] = step[n][f[n - 1]]
      BY <2>2, Zenon
    <3> QED
      BY <3>3, <3>4, Zenon
  <2>4. ASSUME NEW n \in 0 .. L PROVE f[n] = loop(f)[n]
    <3>1. CASE n = 0
      BY <3>1, <2>2
    <3>2. CASE n # 0
      BY <3>2, <2>3, <1>2
    <3> QED
      BY <3>1, <3>2
  <2>5. f = [n \in 0 .. L |-> f[n]] /\ loop(f) = [n \in 0 .. L |-> loop(f)[n]]
    BY <2>2
  <2>6. f = loop(f)
    BY <2>4, <2>5, Zenon
  <2> QED
    BY <2>6
<1>4. kept = loop(kept)
  BY <1>3
<1>5. Recorded(streams) = kept[L]
  BY DEF Recorded
<1> HIDE DEF kept
<1>6. kept[0] = <<>> /\ \A n \in 1 .. L : kept[n] = keep(n, kept[n - 1])
  <2>1. \A n \in 0 .. L : kept[n] = loop(kept)[n]
    BY <1>4
  <2> QED
    BY <2>1, <1>2
<1> DEFINE Right(n) == /\ kept[n] \in S /\ Len(kept[n]) <= n
                       /\ NoneTwice(kept[n]) /\ On(kept[n]) \subseteq {streams[i] : i \in 1 .. n}
           T == {n \in 0 .. L : Right(n)}
<1>7. Right(0)
  BY <1>6 DEF NoneTwice, On
<1>8. ASSUME NEW n \in 1 .. L, Right(n - 1) PROVE Right(n)
  <2>1. CASE streams[n] \in Unrecorded
    BY <2>1, <1>6, <1>8, <1>2
  <2>2. CASE streams[n] \notin Unrecorded
    <3>1. kept[n] = Append(kept[n - 1], streams[n]) /\ streams[n] \in RecPids
      BY <2>2, <1>6, <1>2, <1>1
    <3>2. streams[n] \notin On(kept[n - 1])
      BY <1>1, <1>2, <1>8 DEF NoneTwice
    <3>3. Len(kept[n]) <= n /\ kept[n] \in S
      BY <3>1, <1>8
    <3>4. NoneTwice(kept[n])
      BY <3>1, <3>2, <1>8 DEF NoneTwice, On
    <3>5. On(kept[n]) \subseteq On(kept[n - 1]) \union {streams[n]}
      BY <3>1, <1>8 DEF On
    <3> QED
      BY <3>3, <3>4, <3>5, <1>8
  <2> HIDE DEF Right
  <2> QED
    BY <2>1, <2>2
<1>9. 0 \in T /\ \A n \in 1 .. L : n - 1 \in T => n \in T
  <2> HIDE DEF Right
  <2> QED
    BY <1>7, <1>8, <1>2
<1> HIDE DEF T
<1>10. L \in T
  BY <1>9, <1>2, InductionToLength
<1> QED
  BY <1>10, <1>5, <1>2, <1>1, TableAssumption DEF T, Lists

-----------------------------------------------------------------------------
Entries == [pid : RecPids, action : {"CREATE", "KEEP", "CLOSE"}]
Seen(old, n, p) == \E j \in 1 .. n : old[j] = p

(* The table when n pids of the old list are compared: the new list, of    *)
(* which those seen are kept, then pids seen that the new list has not.    *)
Shape(u, old, new, n) ==
    /\ u \in Seq(Entries)
    /\ Len(new) <= Len(u) /\ Len(u) <= Len(new) + n
    /\ \A i \in 1 .. Len(new) :
           u[i].pid = new[i] /\ u[i].action = IF Seen(old, n, new[i]) THEN "KEEP" ELSE "CREATE"
    /\ \A i \in Len(new) + 1 .. Len(u) :
           u[i].action = "CLOSE" /\ Seen(old, n, u[i].pid) /\ u[i].pid \notin On(new)
    /\ \A j \in 1 .. n : \E i \in 1 .. Len(u) : u[i].pid = old[j]

LEMMA CreatedShape ==
    ASSUME NEW old \in Lists, NEW new \in Lists
    PROVE  Shape(Created(new), old, new, 0)
<1> DEFINE c == Created(new)
<1>1. new \in Seq(RecPids) /\ Len(new) \in Nat /\ DOMAIN new = 1 .. Len(new)
  BY DEF Lists
<1>2. \A i \in 1 .. Len(new) : Entry(new[i], "CREATE") \in Entries
  BY <1>1 DEF Entry, Entries
<1>3. c = [i \in 1 .. Len(new) |-> Entry(new[i], "CREATE")]
  BY <1>1, Zenon DEF Created
<1>4. c \in Seq(Entries) /\ Len(c) = Len(new)
  BY <1>1, <1>2, <1>3
<1>5. \A i \in 1 .. Len(new) : c[i].pid = new[i] /\ c[i].action = "CREATE"
  BY <1>3 DEF Entry
<1> HIDE DEF c
<1> QED
  BY <1>1, <1>4, <1>5 DEF Shape, Seen, c

LEMMA CompareTypes ==
    ASSUME NEW u \in Seq(Entries), NEW p \in RecPids
    PROVE  Compare(u, p) \in Seq(Entries)
<1> DEFINE same == {j \in DOMAIN u : u[j].pid = p}
           k == CHOOSE j \in same : \A i \in same : j <= i
<1>1. CASE same # {}
  <2>1. same \subseteq Nat
    OBVIOUS
  <2> HIDE DEF same
  <2>2. k \in same
    BY <2>1, <1>1, LeastExists, Zenon
  <2> USE DEF same
  <2>3. Compare(u, p) = [u EXCEPT ![k] = [u[k] EXCEPT !.action = "KEEP"]]
    BY <1>1 DEF Compare
  <2> HIDE DEF k
  <2>4. u[k] \in Entries
    BY <2>2
  <2>5. [u[k] EXCEPT !.action = "KEEP"] \in Entries
    BY <2>4 DEF Entries
  <2> QED
    BY <2>2, <2>3, <2>5
<1>2. CASE same = {}
  <2>1. Entry(p, "CLOSE") \in Entries
    BY DEF Entry, Entries
  <2> QED
    BY <1>2, <2>1 DEF Compare
<1> QED
  BY <1>1, <1>2

LEMMA CompareKeeps ==
    ASSUME 2 * MaxAsked < STREAMS_COUNT, NEW old \in Lists, NEW new \in Lists,
           NEW n \in 1 .. Len(old), NEW u, Shape(u, old, new, n - 1)
    PROVE  Shape(Compare(u, old[n]), old, new, n)
<1> DEFINE p == old[n]
           same == {j \in DOMAIN u : u[j].pid = p}
           c == Compare(u, p)
<1>1. /\ old \in Seq(RecPids) /\ new \in Seq(RecPids) /\ NoneTwice(old) /\ NoneTwice(new)
      /\ Len(old) <= MaxAsked /\ Len(new) <= MaxAsked /\ p \in RecPids /\ n \in Nat
  BY DEF Lists
<1>2. u \in Seq(Entries) /\ Len(u) \in Nat /\ DOMAIN u = 1 .. Len(u)
  BY DEF Shape
<1>3. \A q : Seen(old, n, q) <=> Seen(old, n - 1, q) \/ q = p
  BY <1>1 DEF Seen
<1>4. ~Seen(old, n - 1, p)
  BY <1>1 DEF Seen, NoneTwice
<1>5. CASE same # {}
  <2> DEFINE k == CHOOSE j \in same : \A i \in same : j <= i
  <2>1. \E j \in same : \A i \in same : j <= i
    <3>1. same \subseteq Nat
      BY <1>2
    <3> HIDE DEF same
    <3> QED
      BY <3>1, <1>5, LeastExists, Zenon
  <2>2. k \in same
    BY <2>1
  <2>3. c = [u EXCEPT ![k].action = "KEEP"]
    BY <1>5 DEF Compare
  <2> HIDE DEF k, c
  <2>4. k \in 1 .. Len(u) /\ u[k].pid = p
    BY <2>2, <1>2
  <2>5. k \in 1 .. Len(new)
    <3>1. ASSUME k \in Len(new) + 1 .. Len(u) PROVE FALSE
      <4>1. Seen(old, n - 1, u[k].pid)
        BY <3>1 DEF Shape
      <4> QED
        BY <4>1, <2>4, <1>4
    <3> QED
      BY <3>1, <2>4, <1>1, <1>2
  <2>6. new[k] = p
    BY <2>4, <2>5 DEF Shape
  <2>7. /\ c \in Seq(Entries) /\ Len(c) = Len(u)
        /\ \A i \in 1 .. Len(u) : c[i].pid = u[i].pid
        /\ \A i \in 1 .. Len(u) : c[i].action = IF i = k THEN "KEEP" ELSE u[i].action
    <3>1. \A i \in 1 .. Len(u) : u[i] \in Entries
      BY <1>2
    <3>2. [u[k] EXCEPT !.action = "KEEP"] \in Entries
      BY <3>1, <2>4 DEF Entries
    <3>3. c = [u EXCEPT ![k] = [u[k] EXCEPT !.action = "KEEP"]]
      BY <2>3
    <3>4. c \in Seq(Entries) /\ Len(c) = Len(u)
      BY <3>2, <3>3, <2>4, <1>2
    <3>5. \A i \in 1 .. Len(u) : c[i] = IF i = k THEN [u[k] EXCEPT !.action = "KEEP"] ELSE u[i]
      BY <3>3, <1>2
    <3> QED
      BY <3>1, <3>4, <3>5, <2>4 DEF Entries
  <2>8. ASSUME NEW i \in 1 .. Len(new)
        PROVE  c[i].pid = new[i] /\ c[i].action = IF Seen(old, n, new[i]) THEN "KEEP" ELSE "CREATE"
    <3>1. i \in 1 .. Len(u) /\ u[i].pid = new[i]
          /\ u[i].action = IF Seen(old, n - 1, new[i]) THEN "KEEP" ELSE "CREATE"
      BY <1>1, <1>2 DEF Shape
    <3>2. new[i] = p <=> i = k
      BY <2>5, <2>6, <1>1 DEF NoneTwice
    <3> QED
      BY <3>1, <3>2, <2>7, <1>3
  <2>9. ASSUME NEW i \in Len(new) + 1 .. Len(c)
        PROVE  c[i].action = "CLOSE" /\ Seen(old, n, c[i].pid) /\ c[i].pid \notin On(new)
    <3>1. i \in 1 .. Len(u) /\ i # k
      BY <2>5, <2>7, <1>1, <1>2
    <3> QED
      BY <3>1, <2>7, <1>3 DEF Shape
  <2>10. ASSUME NEW j \in 1 .. n PROVE \E i \in 1 .. Len(c) : c[i].pid = old[j]
    <3>1. CASE j = n
      BY <3>1, <2>4, <2>7
    <3>2. CASE j # n
      <4>1. j \in 1 .. n - 1
        BY <3>2, <1>1
      <4>2. PICK i \in 1 .. Len(u) : u[i].pid = old[j]
        BY <4>1 DEF Shape
      <4> QED
        BY <4>2, <2>7
    <3> QED
      BY <3>1, <3>2
  <2>11. Len(new) <= Len(c) /\ Len(c) <= Len(new) + n
    BY <2>7, <1>1, <1>2 DEF Shape
  <2> QED
    BY <2>7, <2>8, <2>9, <2>10, <2>11 DEF Shape, c
<1>6. CASE same = {}
  <2>1. Len(u) < STREAMS_COUNT - 1
    BY <1>1, <1>2, TableAssumption DEF Shape
  <2>2. c = Append(u, Entry(p, "CLOSE"))
    BY <1>6, <2>1 DEF Compare
  <2> HIDE DEF c
  <2>3. Entry(p, "CLOSE") \in Entries
    BY <1>1 DEF Entry, Entries
  <2>4. /\ c \in Seq(Entries) /\ Len(c) = Len(u) + 1
        /\ \A i \in 1 .. Len(u) : c[i] = u[i]
        /\ c[Len(u) + 1] = Entry(p, "CLOSE")
    BY <2>2, <2>3, <1>2
  <2>5. p \notin On(new)
    <3>1. ASSUME NEW i \in 1 .. Len(new), new[i] = p PROVE FALSE
      <4>1. i \in DOMAIN u /\ u[i].pid = p
        BY <3>1, <1>1, <1>2 DEF Shape
      <4> QED
        BY <4>1, <1>6
    <3> QED
      BY <3>1, <1>1 DEF On
  <2>6. ASSUME NEW i \in 1 .. Len(new)
        PROVE  c[i].pid = new[i] /\ c[i].action = IF Seen(old, n, new[i]) THEN "KEEP" ELSE "CREATE"
    <3>1. i \in 1 .. Len(u) /\ u[i].pid = new[i]
          /\ u[i].action = IF Seen(old, n - 1, new[i]) THEN "KEEP" ELSE "CREATE"
      BY <1>1, <1>2 DEF Shape
    <3>2. new[i] # p
      BY <2>5, <1>1 DEF On
    <3> QED
      BY <3>1, <3>2, <2>4, <1>3
  <2>7. ASSUME NEW i \in Len(new) + 1 .. Len(c)
        PROVE  c[i].action = "CLOSE" /\ Seen(old, n, c[i].pid) /\ c[i].pid \notin On(new)
    <3>1. CASE i = Len(u) + 1
      BY <3>1, <2>4, <2>5, <1>3 DEF Entry
    <3>2. CASE i # Len(u) + 1
      <4>1. i \in 1 .. Len(u) /\ i \in Len(new) + 1 .. Len(u)
        BY <3>2, <2>4, <1>1, <1>2
      <4> QED
        BY <4>1, <2>4, <1>3 DEF Shape
    <3> QED
      BY <3>1, <3>2
  <2>8. ASSUME NEW j \in 1 .. n PROVE \E i \in 1 .. Len(c) : c[i].pid = old[j]
    <3>1. CASE j = n
      BY <3>1, <2>4, <1>2 DEF Entry
    <3>2. CASE j # n
      <4>1. j \in 1 .. n - 1
        BY <3>2, <1>1
      <4>2. PICK i \in 1 .. Len(u) : u[i].pid = old[j]
        BY <4>1 DEF Shape
      <4> QED
        BY <4>2, <2>4, <1>2
    <3> QED
      BY <3>1, <3>2
  <2>9. Len(new) <= Len(c) /\ Len(c) <= Len(new) + n
    BY <2>4, <1>1, <1>2 DEF Shape
  <2> QED
    BY <2>4, <2>6, <2>7, <2>8, <2>9 DEF Shape, c
<1> QED
  BY <1>5, <1>6

LEMMA UpdateShape ==
    ASSUME 2 * MaxAsked < STREAMS_COUNT, NEW old \in Lists, NEW new \in Lists
    PROVE  Shape(updatePidParams(old, new), old, new, Len(old))
<1> DEFINE L == Len(old)
           S == Seq(Entries)
           step == [n \in 1 .. L |-> [u \in S |-> Compare(u, old[n])]]
           loop(f) == [n \in 0 .. L |-> IF n = 0 THEN Created(new)
                                        ELSE Compare(f[n - 1], old[n])]
           after == CHOOSE f : f = loop(f)
<1>1. L \in Nat /\ \A n \in 1 .. L : old[n] \in RecPids
  BY DEF Lists
<1>2. Created(new) \in S
  BY CreatedShape DEF Shape
<1>3. \E f : f = loop(f)
  <2>1. step \in [1 .. L -> [S -> S]]
    BY <1>1, CompareTypes
  <2> HIDE DEF step
  <2>2. PICK f : IsLoop(f, L, S, Created(new), step)
    BY <2>1, <1>1, <1>2, LoopExists
  <2> USE DEF IsLoop
  <2>3. ASSUME NEW n \in 1 .. L PROVE f[n] = Compare(f[n - 1], old[n])
    <3>1. f[n - 1] \in S
      BY <2>2, <1>1
    <3>2. step[n] = [u \in S |-> Compare(u, old[n])]
      BY DEF step
    <3>3. step[n][f[n - 1]] = Compare(f[n - 1], old[n])
      BY <3>1, <3>2, Zenon
    <3>4. f[n] = step[n][f[n - 1]]
      BY <2>2, Zenon
    <3> QED
      BY <3>3, <3>4
  <2>4. ASSUME NEW n \in 0 .. L PROVE f[n] = loop(f)[n]
    <3>1. CASE n = 0
      BY <3>1, <2>2
    <3>2. CASE n # 0
      BY <3>2, <2>3, <1>1
    <3> QED
      BY <3>1, <3>2
  <2>5. f = [n \in 0 .. L |-> f[n]] /\ loop(f) = [n \in 0 .. L |-> loop(f)[n]]
    BY <2>2
  <2>6. f = loop(f)
    BY <2>4, <2>5, Zenon
  <2> QED
    BY <2>6
<1>4. after = loop(after)
  BY <1>3
<1>5. updatePidParams(old, new) = after[L]
  BY DEF updatePidParams
<1> HIDE DEF after
<1>6. after[0] = Created(new) /\ \A n \in 1 .. L : after[n] = Compare(after[n - 1], old[n])
  <2>1. \A n \in 0 .. L : after[n] = loop(after)[n]
    BY <1>4
  <2> QED
    BY <2>1, <1>1
<1> DEFINE T == {n \in 0 .. L : Shape(after[n], old, new, n)}
<1>7. 0 \in T
  BY <1>6, <1>1, CreatedShape
<1>8. \A n \in 1 .. L : n - 1 \in T => n \in T
  BY <1>6, <1>1, CompareKeeps
<1> HIDE DEF T
<1>9. \A n \in 0 .. L : n \in T
  BY <1>7, <1>8, <1>1, InductionToLength
<1>10. L \in T
  BY <1>9, <1>1
<1> QED
  BY <1>10, <1>5 DEF T

(* What libDVR records after an update is the new list.                    *)
LEMMA UpdateIsTheList ==
    ASSUME 2 * MaxAsked < STREAMS_COUNT, NEW old \in Lists, NEW new \in Lists
    PROVE  Update(On(old), updatePidParams(old, new)) = On(new)
<1> DEFINE u == updatePidParams(old, new)
<1>1. Shape(u, old, new, Len(old))
  BY UpdateShape
<1> HIDE DEF u
<1>2. /\ Len(old) \in Nat /\ DOMAIN old = 1 .. Len(old)
      /\ Len(new) \in Nat /\ DOMAIN new = 1 .. Len(new)
      /\ Len(u) \in Nat /\ DOMAIN u = 1 .. Len(u) /\ Len(new) <= Len(u)
  BY <1>1 DEF Lists, Shape
<1> DEFINE created == {u[i].pid : i \in {k \in DOMAIN u : u[k].action = "CREATE"}}
           closed == {u[i].pid : i \in {k \in DOMAIN u : u[k].action = "CLOSE"}}
<1>3. \A p : Seen(old, Len(old), p) <=> p \in On(old)
  BY <1>2 DEF Seen, On
<1>4. created = On(new) \ On(old)
  <2>1. ASSUME NEW i \in DOMAIN u, u[i].action = "CREATE" PROVE u[i].pid \in On(new) \ On(old)
    <3>1. i \in 1 .. Len(new)
      BY <2>1, <1>1, <1>2 DEF Shape
    <3>2. u[i].pid = new[i] /\ ~Seen(old, Len(old), new[i])
      BY <3>1, <2>1, <1>1 DEF Shape
    <3> QED
      BY <3>1, <3>2, <1>2, <1>3 DEF On
  <2>2. ASSUME NEW i \in 1 .. Len(new), new[i] \notin On(old) PROVE new[i] \in created
    <3>1. i \in DOMAIN u
      BY <1>2
    <3>2. u[i].pid = new[i] /\ u[i].action = "CREATE"
      BY <2>2, <1>1, <1>3 DEF Shape
    <3> QED
      BY <3>1, <3>2
  <2> QED
    BY <2>1, <2>2, <1>2 DEF On
<1>5. closed = On(old) \ On(new)
  <2>1. ASSUME NEW i \in DOMAIN u, u[i].action = "CLOSE" PROVE u[i].pid \in On(old) \ On(new)
    <3>1. i \in Len(new) + 1 .. Len(u)
      BY <2>1, <1>1, <1>2 DEF Shape
    <3> QED
      BY <3>1, <1>1, <1>3 DEF Shape
  <2>2. ASSUME NEW j \in 1 .. Len(old), old[j] \notin On(new) PROVE old[j] \in closed
    <3>1. PICK i \in 1 .. Len(u) : u[i].pid = old[j]
      BY <1>1 DEF Shape
    <3>2. ASSUME i \in 1 .. Len(new) PROVE FALSE
      <4>1. u[i].pid = new[i]
        BY <3>2, <1>1 DEF Shape
      <4> QED
        BY <4>1, <3>1, <3>2, <2>2, <1>2 DEF On
    <3>3. u[i].action = "CLOSE"
      BY <3>2, <1>1, <1>2 DEF Shape
    <3> QED
      BY <3>1, <3>3, <1>2
  <2> QED
    BY <2>1, <2>2, <1>2 DEF On
<1>6. Update(On(old), u) = (On(old) \union created) \ closed
  BY DEF Update
<1> QED
  BY <1>4, <1>5, <1>6, Zenon DEF u

-----------------------------------------------------------------------------
(* The record of what libDVR was told last is the one a start begins with. *)
RecInv ==
    /\ mStarted \in BOOLEAN
    /\ mRecordPids \in Lists /\ startPids = mRecordPids
    /\ TapeIsTheList

LEMMA EmptyIsList == <<>> \in Lists
<1>1. <<>> \in Seq(RecPids) /\ Len(<<>>) = 0 /\ DOMAIN <<>> = {}
  OBVIOUS
<1> QED
  BY <1>1, TableAssumption DEF Lists, NoneTwice

LEMMA RecInitially == RecInit => RecInv
BY EmptyIsList DEF RecInit, RecInv, TapeIsTheList

LEMMA SetStreamsKeeps ==
    ASSUME ~Repeats, 2 * MaxAsked < STREAMS_COUNT, RecInv, RecSetStreams
    PROVE  RecInv'
<1>1. PICK streams \in Asked, ok \in RecOutcome("update") :
         LET new == Recorded(streams)
             u   == updatePidParams(mRecordPids, new)
         IN /\ tape' = IF mStarted /\ ok THEN Update(tape, u) ELSE tape
            /\ IF mStarted /\ ~ok
               THEN UNCHANGED <<mRecordPids, startPids>>
               ELSE mRecordPids' = new /\ startPids' = new
  BY DEF RecSetStreams
<1> DEFINE new == Recorded(streams)
<1>2. new \in Lists /\ mRecordPids \in Lists /\ UNCHANGED mStarted
  BY RecordedIsList DEF RecInv, RecSetStreams
<1> HIDE DEF new
<1>3. CASE mStarted /\ ok
  <2>1. tape = On(mRecordPids)
    BY <1>3 DEF RecInv, TapeIsTheList, On
  <2>2. tape' = On(new)
    BY <1>1, <1>2, <1>3, <2>1, UpdateIsTheList DEF new
  <2>3. mRecordPids' = new /\ startPids' = new
    BY <1>1, <1>3 DEF new
  <2> QED
    BY <1>2, <2>2, <2>3 DEF RecInv, TapeIsTheList, On
<1>4. CASE mStarted /\ ~ok
  BY <1>1, <1>2, <1>4 DEF RecInv, TapeIsTheList
<1>5. CASE ~mStarted
  BY <1>1, <1>2, <1>5 DEF RecInv, TapeIsTheList, new
<1> QED
  BY <1>3, <1>4, <1>5

LEMMA RecNextKeeps ==
    ASSUME ~Repeats, 2 * MaxAsked < STREAMS_COUNT, RecInv, [RecNext]_rvars
    PROVE  RecInv'
<1> USE DEF RecInv, TapeIsTheList
<1>1. CASE RecCreate
  BY <1>1 DEF RecCreate
<1>2. CASE RecDestroy
  BY <1>2, EmptyIsList DEF RecDestroy
<1>3. CASE RecSetStreams
  BY <1>3, SetStreamsKeeps
<1>4. CASE RecStart
  BY <1>4 DEF RecStart
<1>5. CASE RecPause
  BY <1>5 DEF RecPause
<1>6. CASE RecResume
  BY <1>6 DEF RecResume
<1>7. CASE RecStop
  BY <1>7 DEF RecStop
<1>8. CASE UNCHANGED rvars
  BY <1>8 DEF rvars
<1> QED
  BY <1>1, <1>2, <1>3, <1>4, <1>5, <1>6, <1>7, <1>8 DEF RecNext, Aml_MP_DVRRecorder

(* While a recording runs libDVR records the pids of the last list it      *)
(* accepted, for lists of any pids in any order, however often setStreams  *)
(* changes them and whichever calls of libDVR fail.  No list names a pid   *)
(* twice, and an old and a new list fit the table of setStreams together:  *)
(* without either the pids that are dropped are not all closed.            *)
THEOREM TapeFollowsTheList ==
    ASSUME ~Repeats, 2 * MaxAsked < STREAMS_COUNT
    PROVE  RecSpec => []TapeIsTheList
<1>1. RecInit => RecInv
  BY RecInitially
<1>2. RecInv /\ [RecNext]_rvars => RecInv'
  BY RecNextKeeps
<1>3. RecInv => TapeIsTheList
  BY DEF RecInv
<1> QED
  BY <1>1, <1>2, <1>3, PTL DEF RecSpec

-----------------------------------------------------------------------------
(* IptvCas: what the plug-in is given.                                      *)

IptvKinds == {"vmx2", "vmx", "wv2", "web", "nagra"}
Begun == ecmPid # <<NoEcm, NoEcm>>
IsPlug(p) == /\ p = [open |-> p.open, video |-> p.video, audio |-> p.audio]
             /\ p.open \in {0, 1}
HasKey(key, gone, p) == key = NoKey \/ gone \/ key \in {p.video, p.audio}

IptvTypeOK ==
    /\ pIptvCas \in BOOLEAN /\ refused \in BOOLEAN
    /\ ecmPid \in Int \X Int /\ ecmForm \in {"packet", "section"}
    /\ dscSource \in {"DVB", "IPTV"} /\ IsPlug(plug)

(* An open session and the other source belong to a started client, which  *)
(* has its plug-in.                                                        *)
SessionHasClient ==
    /\ plug.open = 1 => pIptvCas /\ Begun /\ iKind \in IptvKinds
    /\ dscSource = "IPTV" => Begun /\ iKind \in SetsDsc
    /\ iKind \in LoadsEarly => pIptvCas

(* What the comparison remembers is the last ECM of the stream.            *)
MemoryIsLast ==
    /\ ~Begun => mEcmTsPacket = NoKey
    /\ Begun /\ iKind \in HandsPackets /\ ecmForm = "packet" => mEcmTsPacket = ecmSeen
    /\ iKind = "vmx" /\ pIptvCas => ecmSeen = NoKey
    /\ HasKey(ecmSeen, refused, plug)

IptvInv == IptvTypeOK /\ SessionHasClient /\ MemoryIsLast

LEMMA Outcomes == \A call : PlugOutcome(call) \subseteq BOOLEAN
  BY DEF PlugOutcome

LEMMA OpensAndCloses ==
    ASSUME IsPlug(plug)
    PROVE  /\ \A ok \in BOOLEAN : plug.open = 0 =>
                 IsPlug(Opens(ok)) /\ Opens(ok).open = IF ok THEN 1 ELSE 0
           /\ IsPlug(Closes) /\ Closes.open = 0
           /\ Closes.video = plug.video /\ Closes.audio = plug.audio
  BY DEF IsPlug, Opens, Closes, NewPlug

LEMMA CreateKeeps == IptvInv /\ create => IptvInv'
<1> SUFFICES ASSUME IptvInv, create PROVE IptvInv'
  OBVIOUS
<1> USE DEF IptvInv
<1>1. /\ iKind = "none" /\ pIptvCas' = (iKind' \in LoadsEarly) /\ mEcmTsPacket' = NoKey
      /\ ecmPid' = <<NoEcm, NoEcm>>
      /\ ecmForm' = ecmForm /\ dscSource' = dscSource /\ plug' = plug /\ ecmSeen' = ecmSeen
      /\ refused' = refused
  BY DEF create
<1>2. plug.open = 0 /\ dscSource = "DVB"
  BY <1>1 DEF IptvTypeOK, SessionHasClient, IsPlug, IptvKinds, SetsDsc
<1>3. IptvTypeOK'
  BY <1>1 DEF IptvTypeOK, IsPlug, NoEcm
<1>4. SessionHasClient'
  <2>1. plug'.open = 0 /\ dscSource' = "DVB" /\ (iKind' \in LoadsEarly => pIptvCas')
    BY <1>1, <1>2
  <2> QED
    BY <2>1 DEF SessionHasClient
<1>5. MemoryIsLast'
  BY <1>1 DEF MemoryIsLast, Begun, HasKey, LoadsEarly
<1> QED
  BY <1>3, <1>4, <1>5

(* What all ways to start have in common. *)
Starts(ok) ==
    /\ ~Begun /\ iKind \in IptvKinds /\ iKind' = iKind
    /\ plug' = Opens(ok)
    /\ dscSource' = DscOf(iKind, "IPTV")
    /\ pIptvCas' \in BOOLEAN /\ (ok => pIptvCas') /\ (iKind \in LoadsEarly => pIptvCas')
    /\ mEcmTsPacket' = mEcmTsPacket
    /\ \E pids \in EcmPids : Started(pids)

LEMMA StartIsStart ==
    ASSUME IptvInv, startDescrambling PROVE \E ok \in BOOLEAN : Starts(ok)
<1> USE Outcomes DEF Starts, Begun, IptvKinds, LoadsEarly, IptvInv
<1>1. pIptvCas \in BOOLEAN /\ (iKind \in LoadsEarly => pIptvCas)
  BY DEF IptvTypeOK, SessionHasClient
<1>2. CASE StartVmx2
  <2>1. PICK ok \in PlugOutcome("openSession") : plug' = Opens(ok)
    BY <1>2 DEF StartVmx2, StartsEarly
  <2> QED
    BY <1>1, <1>2, <2>1 DEF StartVmx2, StartsEarly
<1>3. CASE StartWeb
  <2>1. PICK ok \in PlugOutcome("openSession") : plug' = Opens(ok)
    BY <1>3 DEF StartWeb, StartsEarly
  <2> QED
    BY <1>1, <1>3, <2>1 DEF StartWeb, StartsEarly
<1>4. CASE StartNagra
  <2>1. PICK ok \in PlugOutcome("openSession") : plug' = Opens(ok)
    BY <1>4 DEF StartNagra, StartsEarly
  <2> QED
    BY <1>1, <1>4, <2>1 DEF StartNagra, StartsEarly
<1>5. CASE StartWidevine
  <2>1. PICK private \in PlugOutcome("setPrivateData"),
             provisioned \in PlugOutcome("provision"),
             ok \in PlugOutcome("openSession") :
               plug' = Opens(private /\ provisioned /\ ok)
    BY <1>5 DEF StartWidevine
  <2>2. (private /\ provisioned /\ ok) \in BOOLEAN
    OBVIOUS
  <2> QED
    BY <1>1, <1>5, <2>1, <2>2 DEF StartWidevine, DscOf, SetsDsc
<1>6. CASE StartVmx
  <2>1. PICK ok \in PlugOutcome("openSession") : pIptvCas' = ok /\ plug' = Opens(ok)
    BY <1>6 DEF StartVmx
  <2> QED
    BY <1>1, <1>6, <2>1 DEF StartVmx, DscOf, SetsDsc
<1> QED
  BY <1>2, <1>3, <1>4, <1>5, <1>6 DEF startDescrambling

LEMMA StartKeeps == IptvInv /\ startDescrambling => IptvInv'
<1> SUFFICES ASSUME IptvInv, startDescrambling PROVE IptvInv'
  OBVIOUS
<1> USE DEF IptvInv
<1>1. PICK ok \in BOOLEAN : Starts(ok)
  BY StartIsStart
<1>2. PICK pids \in EcmPids : Started(pids)
  BY <1>1 DEF Starts
<1>3. /\ ecmPid' = pids /\ pids \in Int \X Int /\ pids # <<NoEcm, NoEcm>>
      /\ ecmForm' \in {"packet", "section"} /\ ecmSeen' = NoKey /\ refused' = FALSE
  BY <1>2, IptvAssumption DEF Started
<1>4. plug.open = 0 /\ IsPlug(plug)
  BY <1>1 DEF Starts, IptvTypeOK, SessionHasClient, IsPlug
<1>5. IsPlug(plug') /\ plug'.open = (IF ok THEN 1 ELSE 0)
  BY <1>1, <1>4, OpensAndCloses DEF Starts
<1>6. IptvTypeOK'
  BY <1>1, <1>3, <1>5 DEF IptvTypeOK, Starts, DscOf
<1>7. SessionHasClient'
  <2>1. Begun' /\ iKind' = iKind /\ iKind \in IptvKinds
    BY <1>1, <1>3 DEF Begun, Starts
  <2>2. plug'.open = 1 => pIptvCas'
    BY <1>1, <1>5 DEF Starts
  <2>3. dscSource' = "IPTV" => iKind \in SetsDsc
    BY <1>1 DEF Starts, DscOf, SessionHasClient
  <2> QED
    BY <1>1, <2>1, <2>2, <2>3 DEF SessionHasClient, Starts
<1>8. MemoryIsLast'
  BY <1>1, <1>3 DEF MemoryIsLast, Starts, Begun, HasKey
<1> QED
  BY <1>6, <1>7, <1>8

LEMMA StopKeeps == IptvInv /\ stopDescrambling => IptvInv'
<1> SUFFICES ASSUME IptvInv, stopDescrambling PROVE IptvInv'
  OBVIOUS
<1> USE DEF IptvInv
<1>1. PICK kind \in IptvKinds : Stops(kind, IF pIptvCas THEN Closes ELSE plug)
  BY DEF stopDescrambling, StopVmx2, StopWeb, StopNagra, StopWidevine, StopVmx, IptvKinds
<1>2. /\ iKind = kind /\ Begun /\ dscSource' = DscOf(kind, "DVB")
      /\ plug' = (IF pIptvCas THEN Closes ELSE plug)
      /\ pIptvCas' = FALSE /\ iKind' = "none" /\ ecmPid' = ecmPid /\ ecmForm' = ecmForm
      /\ mEcmTsPacket' = mEcmTsPacket /\ ecmSeen' = ecmSeen /\ refused' = refused
  BY <1>1 DEF Stops, Begun
<1>3. /\ IsPlug(plug') /\ plug'.open = 0
      /\ plug'.video = plug.video /\ plug'.audio = plug.audio
  BY <1>2, OpensAndCloses DEF IptvTypeOK, SessionHasClient, IsPlug
<1>4. dscSource' = "DVB"
  BY <1>2 DEF DscOf, IptvTypeOK, SessionHasClient
<1>5. IptvTypeOK'
  BY <1>2, <1>3, <1>4 DEF IptvTypeOK
<1>6. SessionHasClient'
  BY <1>2, <1>3, <1>4 DEF SessionHasClient, LoadsEarly
<1>7. MemoryIsLast'
  BY <1>2, <1>3 DEF MemoryIsLast, Begun, HasKey, HandsPackets
<1> QED
  BY <1>5, <1>6, <1>7

-----------------------------------------------------------------------------
(* The buffer: at which bytes its packets begin. *)
LEMMA Joined ==
    ASSUME NEW S, NEW s \in Seq(S), NEW t \in Seq(S)
    PROVE  /\ Len(s \o t) = Len(s) + Len(t)
           /\ \A j \in 1 .. Len(t) : (s \o t)[Len(s) + j] = t[j]
           /\ \A j \in 1 .. Len(s) : (s \o t)[j] = s[j]
  OBVIOUS

LEMMA FunctionIsSeq ==
    ASSUME NEW m \in Nat, NEW c, NEW S, c \in [1 .. m -> S]
    PROVE  c \in Seq(S) /\ Len(c) = m
  OBVIOUS

Triples(c, n, ps) ==
    /\ c = [j \in 1 .. 3 * n |-> c[j]]
    /\ \A k \in 1 .. n : \A o \in Int : o = 3 * (k - 1) + 1 =>
          /\ o + 2 <= 3 * n /\ c[o] = Sync /\ c[o + 1] = ps[k].pid /\ c[o + 2] = ps[k].key

LEMMA PacketBytes ==
    ASSUME NEW n \in Nat \ {0}, NEW ps \in [1 .. n -> Packets]
    PROVE  Triples(Bytes(ps), n, ps)
<1> DEFINE c == Bytes(ps)
           triple(k) == <<Sync, ps[k].pid, ps[k].key>>
           at(j) == triple(((j - 1) \div 3) + 1)[((j - 1) % 3) + 1]
<1>1. Len(ps) = n
  OBVIOUS
<1>2. c = [j \in 1 .. 3 * n |-> at(j)]
  BY <1>1 DEF Bytes, PACKET
<1> HIDE DEF c, triple
<1>3. ASSUME NEW k \in 1 .. n, NEW o \in Int, o = 3 * (k - 1) + 1
      PROVE  /\ o + 2 <= 3 * n /\ c[o] = Sync /\ c[o + 1] = ps[k].pid /\ c[o + 2] = ps[k].key
  <2>1. o \in 1 .. 3 * n /\ o + 1 \in 1 .. 3 * n /\ o + 2 \in 1 .. 3 * n
    BY <1>3
  <2>2. o - 1 = 3 * (k - 1) /\ (o + 1) - 1 = 3 * (k - 1) + 1 /\ (o + 2) - 1 = 3 * (k - 1) + 2
    BY <1>3
  <2>3. /\ (o - 1) \div 3 = k - 1 /\ (o - 1) % 3 = 0
        /\ ((o + 1) - 1) \div 3 = k - 1 /\ ((o + 1) - 1) % 3 = 1
        /\ ((o + 2) - 1) \div 3 = k - 1 /\ ((o + 2) - 1) % 3 = 2
    BY <2>2
  <2>4. ((o - 1) \div 3) + 1 = k /\ (((o + 1) - 1) \div 3) + 1 = k /\ (((o + 2) - 1) \div 3) + 1 = k
    BY <2>3
  <2>5. at(o) = triple(k)[1] /\ at(o + 1) = triple(k)[2] /\ at(o + 2) = triple(k)[3]
    BY <2>3, <2>4
  <2>6. c[o] = at(o) /\ c[o + 1] = at(o + 1) /\ c[o + 2] = at(o + 2)
    BY <1>2, <2>1
  <2> QED
    BY <2>1, <2>5, <2>6 DEF triple
<1>4. c = [j \in 1 .. 3 * n |-> c[j]]
  BY <1>2
<1>5. Triples(c, n, ps)
  BY <1>3, <1>4 DEF Triples
<1> QED
  BY <1>5 DEF c

(* b are the packets ps behind l other bytes. *)
InBytes(b, l, n, ps) ==
    /\ Len(b) = l + 3 * n /\ l \in {0, 1} /\ (l = 1 => b[1] = 0)
    /\ \A k \in 1 .. n : \A i \in Int : i = l + 3 * (k - 1) + 1 =>
          /\ i + 2 <= l + 3 * n /\ b[i] = Sync
          /\ b[i + 1] = ps[k].pid /\ b[i + 2] = ps[k].key

LEMMA PacketsInBytes ==
    ASSUME NEW n \in Nat \ {0}, NEW ps \in [1 .. n -> Packets], NEW noise \in Noise
    PROVE  InBytes(noise \o Bytes(ps), Len(noise), n, ps)
<1> DEFINE c == Bytes(ps)
           l == Len(noise)
           S == {0} \union {c[j] : j \in 1 .. 3 * n}
<1>0. Triples(c, n, ps)
  BY PacketBytes
<1> HIDE DEF c
<1>1. c = [j \in 1 .. 3 * n |-> c[j]]
  BY <1>0 DEF Triples
<1>2. \A k \in 1 .. n : \A o \in Int : o = 3 * (k - 1) + 1 =>
         /\ o + 2 <= 3 * n /\ c[o] = Sync /\ c[o + 1] = ps[k].pid /\ c[o + 2] = ps[k].key
  BY <1>0 DEF Triples
<1>3. c \in [1 .. 3 * n -> S]
  BY <1>1
<1>4. c \in Seq(S) /\ Len(c) = 3 * n
  <2> HIDE DEF S
  <2> QED
    BY <1>3, FunctionIsSeq
<1>5. noise \in Seq(S) /\ l \in {0, 1} /\ (l = 1 => noise[1] = 0)
  <2>1. 0 \in S
    OBVIOUS
  <2> HIDE DEF S
  <2>2. CASE noise = <<>>
    BY <2>2
  <2>3. CASE noise = <<0>>
    BY <2>1, <2>3
  <2> QED
    BY <2>2, <2>3 DEF Noise
<1> HIDE DEF S
<1>6. /\ Len(noise \o c) = l + 3 * n
      /\ \A j \in 1 .. 3 * n : (noise \o c)[l + j] = c[j]
      /\ \A j \in 1 .. l : (noise \o c)[j] = noise[j]
  <2>1. noise \in Seq(S) /\ c \in Seq(S)
    BY <1>4, <1>5
  <2>2. /\ Len(noise \o c) = Len(noise) + Len(c)
        /\ \A j \in 1 .. Len(c) : (noise \o c)[Len(noise) + j] = c[j]
        /\ \A j \in 1 .. Len(noise) : (noise \o c)[j] = noise[j]
    BY <2>1, Joined, Zenon
  <2> QED
    BY <1>4, <2>2
<1>7. ASSUME NEW k \in 1 .. n, NEW i \in Int, i = l + 3 * (k - 1) + 1
      PROVE  /\ i + 2 <= l + 3 * n /\ (noise \o c)[i] = Sync
             /\ (noise \o c)[i + 1] = ps[k].pid /\ (noise \o c)[i + 2] = ps[k].key
  <2> DEFINE o == 3 * (k - 1) + 1
  <2>1. o \in Int /\ o = 3 * (k - 1) + 1 /\ o >= 1
    OBVIOUS
  <2>2. i = l + o /\ i + 1 = l + (o + 1) /\ i + 2 = l + (o + 2)
    BY <1>5, <1>7
  <2> HIDE DEF o
  <2>3. o + 2 <= 3 * n /\ c[o] = Sync /\ c[o + 1] = ps[k].pid /\ c[o + 2] = ps[k].key
    BY <1>2, <2>1
  <2>4. o \in 1 .. 3 * n /\ o + 1 \in 1 .. 3 * n /\ o + 2 \in 1 .. 3 * n
    BY <2>1, <2>3
  <2>5. /\ (noise \o c)[l + o] = c[o] /\ (noise \o c)[l + (o + 1)] = c[o + 1]
        /\ (noise \o c)[l + (o + 2)] = c[o + 2]
    BY <1>6, <2>4
  <2>6. i + 2 <= l + 3 * n
    BY <1>5, <2>2, <2>3, <2>1
  <2> QED
    BY <2>2, <2>3, <2>5, <2>6
<1>8. l = 1 => (noise \o c)[1] = 0
  BY <1>5, <1>6
<1>9. InBytes(noise \o c, l, n, ps)
  BY <1>5, <1>6, <1>7, <1>8 DEF InBytes
<1> QED
  BY <1>9 DEF c


-----------------------------------------------------------------------------
(* The loop of checkEcmProcess.                                            *)

IsEcm(p) == p.pid \in {ecmPid[1], ecmPid[2]}

(* The last ECM of the first k packets, or the one seen before them.        *)
LastOf(ps, k, key) ==
    \/ key = ecmSeen /\ \A j \in 1 .. k : ~IsEcm(ps[j])
    \/ \E j \in 1 .. k : /\ IsEcm(ps[j]) /\ key = ps[j].key
                         /\ \A i \in 1 .. k : i > j => ~IsEcm(ps[i])

(* The loop when it has passed k packets. *)
Passed(st, ps, k) ==
    /\ st = [at |-> st.at, calls |-> st.calls, mem |-> st.mem, plug |-> st.plug,
             refused |-> st.refused]
    /\ st.calls \in 0 .. k
    /\ LastOf(ps, k, st.mem)
    /\ IsPlug(st.plug) /\ st.plug.open = plug.open
    /\ st.refused \in BOOLEAN /\ HasKey(st.mem, st.refused, st.plug)

LEMMA HandGives ==
    ASSUME NEW pl, IsPlug(pl), NEW p, NEW ok \in BOOLEAN
    PROVE  /\ IsPlug(Hand(pl, p, ok)) /\ Hand(pl, p, ok).open = pl.open
           /\ HasKey(p.key, ~ok, Hand(pl, p, ok))
  BY DEF IsPlug, Hand, HasKey

LEMMA LastOfMore ==
    ASSUME NEW ps, NEW k \in Nat \ {0}, NEW key, LastOf(ps, k - 1, key)
    PROVE  /\ IsEcm(ps[k]) => LastOf(ps, k, ps[k].key)
           /\ ~IsEcm(ps[k]) => LastOf(ps, k, key)
<1>1. \A j : j \in 1 .. k <=> j \in 1 .. k - 1 \/ j = k
  OBVIOUS
<1>2. k \in 1 .. k /\ ~ \E i \in 1 .. k : i > k
  OBVIOUS
<1>3. ASSUME IsEcm(ps[k]) PROVE LastOf(ps, k, ps[k].key)
  BY <1>2, <1>3 DEF LastOf
<1>4. ASSUME ~IsEcm(ps[k]) PROVE LastOf(ps, k, key)
  <2>1. CASE key = ecmSeen /\ \A j \in 1 .. k - 1 : ~IsEcm(ps[j])
    BY <1>1, <1>4, <2>1 DEF LastOf
  <2>2. CASE \E j \in 1 .. k - 1 : /\ IsEcm(ps[j]) /\ key = ps[j].key
                                   /\ \A i \in 1 .. k - 1 : i > j => ~IsEcm(ps[i])
    <3>1. PICK j \in 1 .. k - 1 : /\ IsEcm(ps[j]) /\ key = ps[j].key
                                  /\ \A i \in 1 .. k - 1 : i > j => ~IsEcm(ps[i])
      BY <2>2
    <3>2. j \in 1 .. k /\ \A i \in 1 .. k : i > j => ~IsEcm(ps[i])
      BY <1>1, <1>4, <3>1
    <3> QED
      BY <3>1, <3>2 DEF LastOf
  <2> QED
    BY <2>1, <2>2, <1>4 DEF LastOf
<1> QED
  BY <1>3, <1>4

(* A packet against the memory. *)
LEMMA PacketPassed ==
    ASSUME NEW n \in Nat, NEW ps \in [1 .. n -> Packets], NEW ok \in [1 .. n -> BOOLEAN],
           NEW j \in Nat, j + 1 \in 1 .. n, NEW st, Passed(st, ps, j),
           NEW p, p.pid = ps[j + 1].pid, p.key = ps[j + 1].key
    PROVE  /\ Passed(CheckPacket(st, p, ok), ps, j + 1)
           /\ CheckPacket(st, p, ok).at = st.at
<1> DEFINE k == j + 1
<1> DEFINE answer == ok[st.calls + 1]
           after == CheckPacket(st, p, ok)
<1>0. Passed(st, ps, k - 1) /\ k \in 1 .. n
  OBVIOUS
<1> HIDE DEF k
<1>1. st.calls \in 0 .. k - 1 /\ k \in Nat \ {0}
  BY <1>0 DEF Passed
<1>2. st.calls + 1 \in 1 .. n /\ answer \in BOOLEAN
  BY <1>0, <1>1
<1>3. IsEcm(ps[k]) <=> p.pid \in {ecmPid[1], ecmPid[2]}
  BY DEF IsEcm, k
<1>4. /\ IsEcm(ps[k]) => LastOf(ps, k, p.key)
      /\ ~IsEcm(ps[k]) => LastOf(ps, k, st.mem)
  BY <1>0, <1>1, LastOfMore DEF Passed, k
<1> HIDE DEF answer
<1>5. CASE Differs(st.mem, p)
  <2>1. after = [st EXCEPT !.mem = p.key, !.plug = Hand(@, p, answer), !.refused = ~answer,
                           !.calls = @ + 1]
    BY <1>5 DEF CheckPacket, answer
  <2>2. after = [at |-> st.at, calls |-> st.calls + 1, mem |-> p.key,
                 plug |-> Hand(st.plug, p, answer), refused |-> ~answer]
    BY <2>1 DEF Passed
  <2>3. LastOf(ps, k, p.key)
    BY <1>3, <1>4, <1>5 DEF Differs
  <2>4. /\ IsPlug(Hand(st.plug, p, answer)) /\ Hand(st.plug, p, answer).open = plug.open
        /\ HasKey(p.key, ~answer, Hand(st.plug, p, answer))
    BY <1>2, HandGives DEF Passed
  <2> HIDE DEF after
  <2>5. /\ after.at = st.at /\ after.calls = st.calls + 1 /\ after.mem = p.key
        /\ after.plug = Hand(st.plug, p, answer) /\ after.refused = ~answer
    BY <2>2
  <2>6. after.calls \in 0 .. k
    BY <1>1, <2>5
  <2>7. Passed(after, ps, k)
    BY <2>2, <2>3, <2>4, <2>5, <2>6 DEF Passed
  <2> QED
    BY <2>5, <2>7 DEF after, k
<1>6. CASE ~Differs(st.mem, p)
  <2>1. after = st
    BY <1>6 DEF CheckPacket
  <2>2. LastOf(ps, k, st.mem)
    BY <1>3, <1>4, <1>6 DEF Differs
  <2>3. st.calls \in 0 .. k
    BY <1>1
  <2> HIDE DEF after
  <2>4. Passed(st, ps, k)
    BY <2>2, <2>3 DEF Passed
  <2> QED
    BY <2>1, <2>4 DEF after, k
<1> QED
  BY <1>5, <1>6 DEF k

(* After r rounds k packets are passed, and no round but that of the byte    *)
(* before them was spent on anything else.                                  *)
Rounds(st, ps, l, n, r) ==
    \E k \in 0 .. n :
        /\ Passed(st, ps, k)
        /\ \/ st.at = l + 3 * k + 1 /\ (k = n \/ r <= k + l)
           \/ st.at = 1 /\ k = 0 /\ r = 0

LEMMA RoundPasses ==
    ASSUME NEW n \in Nat \ {0}, NEW ps \in [1 .. n -> Packets], NEW noise \in Noise,
           NEW ok \in [1 .. n -> BOOLEAN], NEW r \in Nat \ {0}, NEW st,
           Rounds(st, ps, Len(noise), n, r - 1)
    PROVE  Rounds(Scan(noise \o Bytes(ps), ok, st), ps, Len(noise), n, r)
<1> DEFINE b == noise \o Bytes(ps)
           l == Len(noise)
           after == Scan(b, ok, st)
<1>1. /\ Len(b) = l + 3 * n /\ l \in {0, 1} /\ (l = 1 => b[1] = 0)
      /\ \A k \in 1 .. n : \A i \in Int : i = l + 3 * (k - 1) + 1 =>
            /\ i + 2 <= l + 3 * n /\ b[i] = Sync
            /\ b[i + 1] = ps[k].pid /\ b[i + 2] = ps[k].key
  <2>1. InBytes(b, l, n, ps)
    BY PacketsInBytes
  <2> HIDE DEF b, l
  <2> QED
    BY <2>1 DEF InBytes
<1> HIDE DEF b, l
<1>2. PICK k \in 0 .. n :
         /\ Passed(st, ps, k)
         /\ \/ st.at = l + 3 * k + 1 /\ (k = n \/ r - 1 <= k + l)
            \/ st.at = 1 /\ k = 0 /\ r - 1 = 0
  BY DEF Rounds, l
<1>3. CASE st.at = l + 3 * k + 1 /\ k = n
  <2>1. st.at + PACKET - 1 > Len(b)
    BY <1>1, <1>3 DEF PACKET
  <2>2. after = st
    BY <2>1 DEF Scan
  <2> HIDE DEF after
  <2>3. Rounds(st, ps, l, n, r)
    BY <1>2, <1>3 DEF Rounds
  <2> QED
    BY <2>2, <2>3 DEF after, b, l
<1>4. CASE st.at = l + 3 * k + 1 /\ k # n /\ r - 1 <= k + l
  <2> DEFINE i == st.at
             passed == [st EXCEPT !.at = @ + PACKET]
             p == [pid |-> b[i + 1], key |-> b[i + 2]]
             done == CheckPacket(passed, p, ok)
  <2>1. k + 1 \in 1 .. n /\ i \in Int /\ i = l + 3 * ((k + 1) - 1) + 1
    BY <1>1, <1>4
  <2>2. /\ i + 2 <= l + 3 * n /\ b[i] = Sync
        /\ b[i + 1] = ps[k + 1].pid /\ b[i + 2] = ps[k + 1].key
    BY <1>1, <2>1
  <2>3. IsPacket(b, i)
    <3>1. CASE k + 1 = n
      BY <1>1, <2>1, <2>2, <3>1 DEF IsPacket, PACKET
    <3>2. CASE k + 1 # n
      <4>1. k + 2 \in 1 .. n /\ i + 3 \in Int /\ i + 3 = l + 3 * ((k + 2) - 1) + 1
        BY <1>1, <2>1, <3>2
      <4>2. b[i + 3] = Sync
        BY <1>1, <4>1
      <4> QED
        BY <2>2, <4>2 DEF IsPacket, PACKET
    <3> QED
      BY <3>1, <3>2
  <2>4. ~(i + PACKET - 1 > Len(b))
    BY <1>1, <2>1, <2>2 DEF PACKET
  <2>5. after = done
    BY <2>2, <2>3, <2>4 DEF Scan
  <2>6. /\ passed = [at |-> i + 3, calls |-> st.calls, mem |-> st.mem, plug |-> st.plug,
                     refused |-> st.refused]
    <3>1. st = [at |-> i, calls |-> st.calls, mem |-> st.mem, plug |-> st.plug,
                refused |-> st.refused]
      BY <1>2 DEF Passed
    <3>2. passed = [st EXCEPT !.at = i + 3]
      BY DEF PACKET
    <3> HIDE DEF passed, i
    <3> QED
      BY <3>1, <3>2
  <2>7. p.pid = ps[k + 1].pid /\ p.key = ps[k + 1].key
    BY <2>2
  <2> HIDE DEF passed, p, done, after
  <2>8. Passed(passed, ps, k) /\ passed.at = i + 3 /\ k \in Nat
    BY <1>2, <2>6 DEF Passed
  <2>9. Passed(CheckPacket(passed, p, ok), ps, k + 1)
        /\ CheckPacket(passed, p, ok).at = passed.at
    <3>1. n \in Nat
      OBVIOUS
    <3>2. k \in Nat /\ k + 1 \in 1 .. n /\ Passed(passed, ps, k)
      BY <2>1, <2>8
    <3>3. \A u : Passed(u, ps, k) => \A q : q.pid = ps[k + 1].pid /\ q.key = ps[k + 1].key
             => Passed(CheckPacket(u, q, ok), ps, k + 1) /\ CheckPacket(u, q, ok).at = u.at
      BY <3>1, <3>2, PacketPassed
    <3> QED
      BY <3>2, <3>3, <2>7
  <2>10. Passed(done, ps, k + 1) /\ done.at = i + 3
    BY <2>8, <2>9 DEF done
  <2>11. i + 3 = l + 3 * (k + 1) + 1 /\ r <= (k + 1) + l /\ k + 1 \in 0 .. n
    BY <1>1, <1>4, <2>1
  <2>12. Rounds(done, ps, l, n, r)
    BY <2>10, <2>11 DEF Rounds
  <2> QED
    BY <2>5, <2>12 DEF after, b, l
<1>5. CASE st.at = 1 /\ k = 0 /\ r - 1 = 0 /\ l = 1
  <2> DEFINE next == [st EXCEPT !.at = @ + 1]
  <2>1. b[st.at] # Sync /\ ~(st.at + PACKET - 1 > Len(b))
    BY <1>1, <1>5 DEF Sync, PACKET
  <2>2. after = next
    BY <2>1 DEF Scan
  <2>3. next = [at |-> 2, calls |-> st.calls, mem |-> st.mem, plug |-> st.plug,
                refused |-> st.refused]
    BY <1>2, <1>5 DEF Passed
  <2> HIDE DEF after, next
  <2>4. Passed(next, ps, 0) /\ next.at = l + 3 * 0 + 1 /\ r <= 0 + l
    BY <1>2, <1>5, <2>3 DEF Passed
  <2>5. Rounds(next, ps, l, n, r)
    BY <2>4 DEF Rounds
  <2> QED
    BY <2>2, <2>5 DEF after, b, l
<1> HIDE DEF after
<1> QED
  BY <1>1, <1>2, <1>3, <1>4, <1>5


(* The rounds of the loop, from the first to the m-th. *)
StartOfScan == [at |-> 1, calls |-> 0, mem |-> mEcmTsPacket, plug |-> plug, refused |-> refused]
ScansTo(f, m, b, ok) ==
    /\ f = [n \in 0 .. m |-> f[n]] /\ f[0] = StartOfScan
    /\ \A n \in 1 .. m : f[n] = Scan(b, ok, f[n - 1])

LEMMA ScansExist ==
    ASSUME NEW L \in Nat, NEW b, NEW ok PROVE \E f : ScansTo(f, L, b, ok)
<1> DEFINE T == {m \in 0 .. L : \E f : ScansTo(f, m, b, ok)}
<1>1. 0 \in T
  <2> DEFINE g == [n \in 0 .. 0 |-> StartOfScan]
  <2>1. ScansTo(g, 0, b, ok)
    BY DEF ScansTo
  <2> HIDE DEF g
  <2> QED
    BY <2>1
<1>2. ASSUME NEW m \in 1 .. L, m - 1 \in T PROVE m \in T
  <2>1. PICK f : ScansTo(f, m - 1, b, ok)
    BY <1>2
  <2> DEFINE last == Scan(b, ok, f[m - 1])
             g == [n \in 0 .. m |-> IF n = m THEN last ELSE f[n]]
  <2>2. f[0] = StartOfScan /\ \A n \in 1 .. m - 1 : f[n] = Scan(b, ok, f[n - 1])
    BY <2>1 DEF ScansTo
  <2>3. g = [n \in 0 .. m |-> g[n]] /\ \A n \in 0 .. m - 1 : g[n] = f[n]
    OBVIOUS
  <2>4. g[m] = last
    OBVIOUS
  <2> HIDE DEF g
  <2>5. ASSUME NEW n \in 1 .. m PROVE g[n] = Scan(b, ok, g[n - 1])
    <3>1. n - 1 \in 0 .. m - 1
      OBVIOUS
    <3>2. g[n - 1] = f[n - 1]
      BY <2>3, <3>1
    <3>3. CASE n = m
      BY <2>4, <3>2, <3>3
    <3>4. CASE n # m
      <4>1. n \in 1 .. m - 1 /\ n \in 0 .. m - 1
        BY <3>4
      <4>2. g[n] = f[n] /\ f[n] = Scan(b, ok, f[n - 1])
        BY <2>2, <2>3, <4>1
      <4> QED
        BY <3>2, <4>2
    <3> QED
      BY <3>3, <3>4
  <2>6. g[0] = StartOfScan
    <3>1. 0 \in 0 .. m - 1
      OBVIOUS
    <3> QED
      BY <2>2, <2>3, <3>1
  <2>7. ScansTo(g, m, b, ok)
    BY <2>3, <2>5, <2>6 DEF ScansTo
  <2> QED
    BY <2>7
<1>3. \A m \in 1 .. L : m - 1 \in T => m \in T
  BY <1>2
<1> HIDE DEF T
<1>4. \A m \in 0 .. L : m \in T
  BY <1>1, <1>3, InductionToLength
<1>5. L \in T
  BY <1>4
<1> QED
  BY <1>5 DEF T

LEMMA CheckIsScan ==
    ASSUME NEW b, NEW ok, Len(b) \in Nat
    PROVE  \E f : ScansTo(f, Len(b), b, ok) /\ checkEcmProcess(b, ok) = f[Len(b)]
<1> DEFINE L == Len(b)
           loop(f) == [n \in 0 .. L |-> IF n = 0 THEN StartOfScan ELSE Scan(b, ok, f[n - 1])]
           round == CHOOSE f : f = loop(f)
<1>1. \E f : f = loop(f)
  <2>1. PICK f : ScansTo(f, L, b, ok)
    BY ScansExist
  <2>2. f = [n \in 0 .. L |-> f[n]] /\ loop(f) = [n \in 0 .. L |-> loop(f)[n]]
    BY <2>1 DEF ScansTo
  <2>3. ASSUME NEW n \in 0 .. L PROVE f[n] = loop(f)[n]
    <3>1. CASE n = 0
      BY <2>1, <3>1 DEF ScansTo
    <3>2. CASE n # 0
      <4>1. n \in 1 .. L
        BY <3>2
      <4>2. f[n] = Scan(b, ok, f[n - 1])
        BY <2>1, <4>1 DEF ScansTo
      <4> QED
        BY <3>2, <4>2
    <3> QED
      BY <3>1, <3>2
  <2>4. f = loop(f)
    BY <2>2, <2>3, Zenon
  <2> QED
    BY <2>4
<1>2. round = loop(round)
  BY <1>1
<1>3. checkEcmProcess(b, ok) = round[L]
  BY DEF checkEcmProcess, StartOfScan
<1> HIDE DEF round
<1>4. \A n \in 0 .. L : round[n] = loop(round)[n]
  BY <1>2
<1>5. round = [n \in 0 .. L |-> round[n]]
  BY <1>2
<1>6. round[0] = StartOfScan /\ \A n \in 1 .. L : round[n] = Scan(b, ok, round[n - 1])
  BY <1>4
<1>7. ScansTo(round, L, b, ok)
  BY <1>5, <1>6 DEF ScansTo
<1> QED
  BY <1>3, <1>7

LEMMA BufferIsChecked ==
    ASSUME IsPlug(plug), refused \in BOOLEAN, HasKey(ecmSeen, refused, plug),
           mEcmTsPacket = ecmSeen,
           NEW n \in Nat \ {0}, NEW ps \in [1 .. n -> Packets], NEW noise \in Noise,
           NEW ok \in [1 .. n -> BOOLEAN]
    PROVE  Passed(checkEcmProcess(noise \o Bytes(ps), ok), ps, n)
<1> DEFINE b == noise \o Bytes(ps)
           l == Len(noise)
           L == Len(b)
<1>1. L = l + 3 * n /\ l \in {0, 1} /\ L \in Nat
  <2>1. InBytes(b, l, n, ps)
    BY PacketsInBytes
  <2> HIDE DEF b, l
  <2> QED
    BY <2>1 DEF InBytes
<1>2. PICK f : ScansTo(f, L, b, ok) /\ checkEcmProcess(b, ok) = f[L]
  BY <1>1, CheckIsScan
<1>3. f[0] = StartOfScan /\ \A r \in 1 .. L : f[r] = Scan(b, ok, f[r - 1])
  BY <1>2 DEF ScansTo
<1> DEFINE T == {r \in 0 .. L : Rounds(f[r], ps, l, n, r)}
<1>4. Rounds(f[0], ps, l, n, 0)
  <2>1. Passed(StartOfScan, ps, 0) /\ StartOfScan.at = 1
    BY DEF Passed, StartOfScan, LastOf
  <2> QED
    BY <1>3, <2>1 DEF Rounds
<1>5. ASSUME NEW r \in 1 .. L, Rounds(f[r - 1], ps, l, n, r - 1)
      PROVE  Rounds(f[r], ps, l, n, r)
  <2>1. r \in Nat \ {0} /\ f[r] = Scan(b, ok, f[r - 1])
    BY <1>1, <1>3
  <2> QED
    BY <1>5, <2>1, RoundPasses
<1>6. 0 \in T /\ \A r \in 1 .. L : r - 1 \in T => r \in T
  <2> HIDE DEF b, l
  <2> QED
    BY <1>1, <1>4, <1>5
<1> HIDE DEF T
<1>7. \A r \in 0 .. L : r \in T
  BY <1>1, <1>6, InductionToLength
<1>8. Rounds(f[L], ps, l, n, L)
  <2>1. L \in 0 .. L
    BY <1>1
  <2> HIDE DEF L, l, b
  <2> QED
    BY <2>1, <1>7 DEF T
<1> HIDE DEF L, l, b
<1>9. PICK k \in 0 .. n :
         /\ Passed(f[L], ps, k)
         /\ \/ f[L].at = l + 3 * k + 1 /\ (k = n \/ L <= k + l)
            \/ f[L].at = 1 /\ k = 0 /\ L = 0
  BY <1>8 DEF Rounds
<1>10. k = n
  BY <1>1, <1>9
<1>11. Passed(f[L], ps, n)
  BY <1>9, <1>10
<1> QED
  BY <1>2, <1>11 DEF b

(* What LastEcm chooses is the key the loop remembers.                     *)
LEMMA LastEcmIsLast ==
    ASSUME NEW n \in Nat, NEW ps \in [1 .. n -> Packets], NEW key, LastOf(ps, n, key)
    PROVE  LastEcm(ps) = key
<1> DEFINE ecm == {k \in DOMAIN ps : ps[k].pid \in {ecmPid[1], ecmPid[2]}}
           top(k) == \A j \in ecm : j <= k
<1>1. \A k : k \in ecm <=> k \in 1 .. n /\ IsEcm(ps[k])
  BY DEF IsEcm
<1>2. LastEcm(ps) = IF ecm = {} THEN ecmSeen ELSE ps[CHOOSE k \in ecm : top(k)].key
  BY DEF LastEcm
<1> HIDE DEF ecm
<1>3. CASE ecm = {}
  BY <1>1, <1>2, <1>3 DEF LastOf
<1>4. CASE ecm # {}
  <2>1. PICK j \in 1 .. n : /\ IsEcm(ps[j]) /\ key = ps[j].key
                            /\ \A i \in 1 .. n : i > j => ~IsEcm(ps[i])
    BY <1>1, <1>4 DEF LastOf
  <2>2. j \in ecm /\ top(j)
    BY <1>1, <2>1
  <2>3. \A k \in ecm : top(k) => k = j
    BY <1>1, <2>1, <2>2
  <2>4. (CHOOSE k \in ecm : top(k)) = j
    BY <2>2, <2>3
  <2> QED
    BY <1>2, <1>4, <2>1, <2>4
<1> QED
  BY <1>3, <1>4

LEMMA PacketsKeep ==
    ASSUME IptvInv, NEW kind \in HandsPackets, ProcessesPackets(kind) PROVE IptvInv'
<1> USE DEF IptvInv
<1>1. PICK n \in 1 .. MaxPackets, noise \in Noise :
        \E ps \in [1 .. n -> Packets], ok \in [1 .. n -> PlugOutcome("processEcm")] :
          LET r == checkEcmProcess(noise \o Bytes(ps), ok)
          IN /\ mEcmTsPacket' = r.mem /\ plug' = r.plug /\ refused' = r.refused
             /\ ecmSeen' = LastEcm(ps)
  BY DEF ProcessesPackets
<1>2. PICK ps \in [1 .. n -> Packets], ok \in [1 .. n -> PlugOutcome("processEcm")] :
          LET r == checkEcmProcess(noise \o Bytes(ps), ok)
          IN /\ mEcmTsPacket' = r.mem /\ plug' = r.plug /\ refused' = r.refused
             /\ ecmSeen' = LastEcm(ps)
  BY <1>1
<1> DEFINE r == checkEcmProcess(noise \o Bytes(ps), ok)
<1>3. n \in Nat \ {0} /\ ok \in [1 .. n -> BOOLEAN]
  BY Outcomes, IptvAssumption
<1>4. /\ iKind = kind /\ pIptvCas /\ Begun /\ ecmForm = "packet"
      /\ iKind' = iKind /\ pIptvCas' = pIptvCas /\ ecmPid' = ecmPid /\ ecmForm' = ecmForm
      /\ dscSource' = dscSource
  BY DEF ProcessesPackets, Begun
<1>5. Passed(r, ps, n)
  BY <1>3, <1>4, BufferIsChecked DEF IptvTypeOK, MemoryIsLast
<1>6. mEcmTsPacket' = r.mem /\ plug' = r.plug /\ refused' = r.refused /\ ecmSeen' = LastEcm(ps)
  BY <1>2
<1> HIDE DEF r
<1>7. LastEcm(ps) = r.mem
  BY <1>3, <1>5, LastEcmIsLast DEF Passed
<1>8. IptvTypeOK'
  BY <1>4, <1>5, <1>6 DEF IptvTypeOK, Passed
<1>9. SessionHasClient'
  BY <1>4, <1>5, <1>6 DEF SessionHasClient, Passed, Begun
<1>10. MemoryIsLast'
  BY <1>4, <1>5, <1>6, <1>7 DEF MemoryIsLast, Passed, Begun, HandsPackets
<1> QED
  BY <1>8, <1>9, <1>10

LEMMA SectionKeeps == IptvInv /\ processEcmSection => IptvInv'
<1> SUFFICES ASSUME IptvInv, processEcmSection PROVE IptvInv'
  OBVIOUS
<1> USE DEF IptvInv
<1>1. PICK pid \in {ecmPid[1], ecmPid[2]}, key \in Key, ok \in PlugOutcome("processEcm") :
         /\ plug' = Hand(plug, [pid |-> pid, key |-> key], ok)
         /\ ecmSeen' = key /\ refused' = ~ok
  BY DEF processEcmSection
<1>2. /\ iKind \in HandsPackets /\ Begun /\ ecmForm = "section"
      /\ iKind' = iKind /\ pIptvCas' = pIptvCas /\ ecmPid' = ecmPid /\ ecmForm' = ecmForm
      /\ mEcmTsPacket' = mEcmTsPacket /\ dscSource' = dscSource
  BY DEF processEcmSection, Begun
<1>3. ok \in BOOLEAN
  BY Outcomes
<1>4. IsPlug(plug') /\ plug'.open = plug.open /\ HasKey(key, ~ok, plug')
  BY <1>1, <1>3, HandGives DEF IptvTypeOK
<1>5. IptvTypeOK'
  BY <1>1, <1>2, <1>3, <1>4 DEF IptvTypeOK
<1>6. SessionHasClient'
  BY <1>2, <1>4 DEF SessionHasClient, Begun
<1>7. MemoryIsLast'
  BY <1>1, <1>2, <1>4 DEF MemoryIsLast, Begun, HandsPackets
<1> QED
  BY <1>5, <1>6, <1>7

LEMMA VmxKeeps == IptvInv /\ processEcmVmx => IptvInv'
<1> SUFFICES ASSUME IptvInv, processEcmVmx PROVE IptvInv'
  OBVIOUS
<1> USE DEF IptvInv
<1>1. PICK key : plug' = [plug EXCEPT !.video = key]
  BY DEF processEcmVmx
<1>2. /\ iKind = "vmx" /\ pIptvCas
      /\ iKind' = iKind /\ pIptvCas' = pIptvCas /\ ecmPid' = ecmPid /\ ecmForm' = ecmForm
      /\ mEcmTsPacket' = mEcmTsPacket /\ dscSource' = dscSource /\ ecmSeen' = ecmSeen
      /\ refused' = refused
  BY DEF processEcmVmx
<1>3. IsPlug(plug') /\ plug'.open = plug.open
  BY <1>1 DEF IptvTypeOK, IsPlug
<1>4. IptvTypeOK'
  BY <1>2, <1>3 DEF IptvTypeOK
<1>5. SessionHasClient'
  BY <1>2, <1>3 DEF SessionHasClient, Begun
<1>6. MemoryIsLast'
  BY <1>2 DEF MemoryIsLast, Begun, HasKey, HandsPackets
<1> QED
  BY <1>4, <1>5, <1>6

(* For every list of ECM pids, every stream of packets in buffers of any    *)
(* number of them, and every choice of plug-in functions that are missing   *)
(* or fail: the newest key of the stream is one the plug-in was given or    *)
(* refused, and a client that is dropped leaves neither a session nor the   *)
(* descrambler's source behind.                                             *)
THEOREM PlugInIsServed == IptvSpec => []PluginIsServed
<1>1. IptvInit => IptvInv
  <2> SUFFICES ASSUME IptvInit PROVE IptvInv
    OBVIOUS
  <2>1. ~Begun /\ ecmPid \in Int \X Int
    BY DEF IptvInit, Begun, NoEcm
  <2>2. IptvTypeOK
    BY <2>1 DEF IptvInit, IptvTypeOK, IsPlug, NewPlug
  <2>3. SessionHasClient
    BY DEF IptvInit, SessionHasClient, NewPlug, LoadsEarly
  <2>4. MemoryIsLast
    BY <2>1 DEF IptvInit, MemoryIsLast, HasKey
  <2> QED
    BY <2>2, <2>3, <2>4 DEF IptvInv
<1>2. IptvInv /\ [IptvNext]_ivars => IptvInv'
  <2> SUFFICES ASSUME IptvInv, [IptvNext]_ivars PROVE IptvInv'
    OBVIOUS
  <2>1. ASSUME ProcessEcmVmx2 \/ ProcessEcmWidevine PROVE IptvInv'
    BY <2>1, PacketsKeep DEF ProcessEcmVmx2, ProcessEcmWidevine, HandsPackets
  <2>2. CASE UNCHANGED ivars
    BY <2>2 DEF ivars, IptvInv, IptvTypeOK, SessionHasClient, MemoryIsLast, Begun
  <2> QED
    BY <2>1, <2>2, CreateKeeps, StartKeeps, StopKeeps, SectionKeeps, VmxKeeps
       DEF IptvNext, processEcm
<1>3. IptvInv => PluginIsServed
  <2> SUFFICES ASSUME IptvInv PROVE PluginIsServed
    OBVIOUS
  <2>1. NewestKeyIsKnown
    BY DEF IptvInv, MemoryIsLast, HasKey, NewestKeyIsKnown
  <2>2. NothingIsLeftOpen
    BY DEF IptvInv, IptvTypeOK, SessionHasClient, IsPlug, NothingIsLeftOpen, IptvKinds, SetsDsc
  <2> QED
    BY <2>1, <2>2 DEF PluginIsServed
<1> QED
  BY <1>1, <1>2, <1>3, PTL DEF IptvSpec
=============================================================================
