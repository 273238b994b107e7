-------------------------------- MODULE DvbCas --------------------------------
(***************************************************************************)
(* cas/AmlDvbCasHal.cpp and the process-wide half of cas/Aml_MP_CAS.cpp:   *)
(* CAS sessions of the DVB kind.  Each object opens a session of the CAS   *)
(* library; the library reports events by session, on a thread of its own, *)
(* and sCasHalCb looks up whose session it is in sCasHalSessionMap, which  *)
(* holds weak references.  The library is external: it numbers its         *)
(* sessions and never uses a number twice.                                 *)
(***************************************************************************)
EXTENDS Integers, FiniteSets

CONSTANTS
  CasObj,        \* the objects, each created once
  NoObj,         \* none of them
  HalFaults,     \* library calls that may fail
  MaxHalEvents   \* bound: events the library reports

Sessions == 1 .. Cardinality(CasObj)
NoSess == 0

VARIABLES
  gCas,          \* g_casHandle is set
  casOnce,       \* g_dvbCasInitFlag has run
  strong,        \* object -> its strong count, -1 before it exists
  casPc,         \* object -> what its constructor or destructor does next
  mCasSession,   \* object -> its session
  halMap,        \* sCasHalSessionMap: pairs <<session, object>>
  hal,           \* the library's sessions: [open, service, heard : BOOLEAN]
  flying,        \* the event being delivered: [session, object, at]
  notified,      \* the objects that heard their event
  halEvents

cvars == <<gCas, casOnce, strong, casPc, mCasSession, halMap, hal, flying,
           notified, halEvents>>

NoEvent == [session |-> NoSess, object |-> NoObj, at |-> "none"]

HalOutcome(call) == IF call \in HalFaults THEN BOOLEAN ELSE {TRUE}

CasInit ==
    /\ gCas = FALSE /\ casOnce = FALSE
    /\ strong = [o \in CasObj |-> 0 - 1]
    /\ casPc = [o \in CasObj |-> "none"]
    /\ mCasSession = [o \in CasObj |-> NoSess]
    /\ halMap = {}
    /\ hal = [s \in Sessions |-> [open |-> FALSE, service |-> "idle", cb |-> FALSE]]
    /\ flying = NoEvent /\ notified = {} /\ halEvents = 0

-----------------------------------------------------------------------------
(* Initialize runs once in the life of the process, and reports success    *)
(* every time; Terminate gives up the handle.                              *)
Aml_MP_CAS_Initialize ==
    /\ casOnce' = TRUE
    /\ gCas' = (gCas \/ ~casOnce)
    /\ UNCHANGED <<strong, casPc, mCasSession, halMap, hal, flying, notified, halEvents>>

Aml_MP_CAS_Terminate ==
    /\ gCas /\ \A o \in CasObj : strong[o] <= 0
    /\ gCas' = FALSE
    /\ UNCHANGED <<casOnce, strong, casPc, mCasSession, halMap, hal, flying,
                   notified, halEvents>>

(* The codes of the library: the session calls and the process-wide calls  *)
(* have a table each.                                                      *)
SessionErrorCode(r) ==
    CASE r = "SUCCESS" -> "OK"                  [] r = "NOT_LOAD" -> "NO_INIT"
      [] r = "NOT_SUPPORTED" -> "INVALID_OPERATION" [] r = "OVERFLOW" -> "BAD_INDEX"
      [] OTHER -> "ERROR"
GlobalErrorCode(r) ==
    CASE r = "SUCCESS" -> "OK"                  [] r = "NOT_LOAD" -> "BAD_INDEX"
      [] r = "NOT_SUPPORTED" -> "BAD_TYPE"      [] r = "OVERFLOW" -> "NO_MEMORY"
      [] OTHER -> "ERROR"

-----------------------------------------------------------------------------
(* OpenSession: the constructor opens a session, then enters it in the map; *)
(* only then does the caller take its reference.                           *)
HalOpenSession(o) ==
    /\ gCas /\ strong[o] = -1 /\ casPc[o] = "none"
    /\ \E ok \in HalOutcome("open") :
         IF ok
         THEN LET s == CHOOSE n \in Sessions :
                         /\ \A p \in CasObj : mCasSession[p] # n
                         /\ \A m \in Sessions : m < n => \E p \in CasObj : mCasSession[p] = m
              IN /\ mCasSession' = [mCasSession EXCEPT ![o] = s]
                 /\ hal' = [hal EXCEPT ![s].open = TRUE]
                 /\ casPc' = [casPc EXCEPT ![o] = "enter"]
         ELSE casPc' = [casPc EXCEPT ![o] = "refer"] /\ UNCHANGED <<mCasSession, hal>>
    /\ UNCHANGED <<gCas, casOnce, strong, halMap, flying, notified, halEvents>>

(* emplace: an entry that is there stays. *)
EnterSession(o) ==
    /\ casPc[o] = "enter"
    /\ halMap' = IF \E e \in halMap : e[1] = mCasSession[o] THEN halMap
                 ELSE halMap \union {<<mCasSession[o], o>>}
    /\ casPc' = [casPc EXCEPT ![o] = "refer"]
    /\ UNCHANGED <<gCas, casOnce, strong, mCasSession, hal, flying, notified, halEvents>>

Aml_MP_CAS_OpenSession(o) ==
    /\ casPc[o] = "refer"
    /\ strong' = [strong EXCEPT ![o] = 1]
    /\ casPc' = [casPc EXCEPT ![o] = "live"]
    /\ UNCHANGED <<gCas, casOnce, mCasSession, halMap, hal, flying, notified, halEvents>>

registerEventCallback(o) ==
    /\ casPc[o] = "live" /\ mCasSession[o] # NoSess
    /\ hal' = [hal EXCEPT ![mCasSession[o]].cb = TRUE]
    /\ UNCHANGED <<gCas, casOnce, strong, casPc, mCasSession, halMap, flying,
                   notified, halEvents>>

(* The services of a session: every call passes to the library.            *)
Services == {<<"idle", "descrambling">>, <<"descrambling", "idle">>,
             <<"idle", "recording">>, <<"recording", "idle">>,
             <<"idle", "replaying">>, <<"replaying", "idle">>}

HalCall(o) ==
    /\ casPc[o] = "live" /\ mCasSession[o] # NoSess
    /\ \E c \in Services, ok \in HalOutcome("service") :
         /\ ok /\ hal[mCasSession[o]].service = c[1]
         /\ hal' = [hal EXCEPT ![mCasSession[o]].service = c[2]]
    /\ UNCHANGED <<gCas, casOnce, strong, casPc, mCasSession, halMap, flying,
                   notified, halEvents>>

(* CloseSession gives the caller's reference back. *)
Release(o) ==
    /\ strong' = [strong EXCEPT ![o] = @ - 1]
    /\ casPc' = IF strong[o] = 1 THEN [casPc EXCEPT ![o] = "close"]
                ELSE [casPc EXCEPT ![o] = "released"]

Aml_MP_CAS_CloseSession(o) ==
    /\ casPc[o] = "live"
    /\ Release(o)
    /\ UNCHANGED <<gCas, casOnce, mCasSession, halMap, hal, flying, notified, halEvents>>

(* The destructor: the session is closed first, and leaves the map after.  *)
HalCloseSession(o) ==
    /\ casPc[o] = "close"
    /\ hal' = IF mCasSession[o] = NoSess THEN hal
              ELSE [hal EXCEPT ![mCasSession[o]].open = FALSE]
    /\ casPc' = [casPc EXCEPT ![o] = "leave"]
    /\ UNCHANGED <<gCas, casOnce, strong, mCasSession, halMap, flying, notified, halEvents>>

LeaveSession(o) ==
    /\ casPc[o] = "leave"
    /\ halMap' = {e \in halMap : e[1] # mCasSession[o]}
    /\ casPc' = [casPc EXCEPT ![o] = "gone"]
    /\ UNCHANGED <<gCas, casOnce, strong, mCasSession, hal, flying, notified, halEvents>>

-----------------------------------------------------------------------------
(* The library's thread: an event of an open session ... *)
HalEvent ==
    /\ halEvents < MaxHalEvents /\ flying = NoEvent
    /\ \E s \in Sessions :
         /\ hal[s].open /\ hal[s].cb
         /\ flying' = [session |-> s, object |-> NoObj, at |-> "lookup"]
    /\ halEvents' = halEvents + 1
    /\ UNCHANGED <<gCas, casOnce, strong, casPc, mCasSession, halMap, hal, notified>>

\* Mutant: the object is taken from the map without a reference.
sCasHalCbUnheld ==
    /\ flying.at = "lookup"
    /\ LET found == {e[2] : e \in {p \in halMap : p[1] = flying.session}}
       IN IF found = {} THEN flying' = NoEvent
          ELSE flying' = [flying EXCEPT !.object = CHOOSE o \in found : TRUE,
                                        !.at = "call"]
    /\ UNCHANGED <<gCas, casOnce, strong, casPc, mCasSession, halMap, hal,
                   notified, halEvents>>

(* ... whose object is held by a reference of the thread's own, if it can  *)
(* still be had ...                                                        *)
sCasHalCb ==
    /\ flying.at = "lookup"
    /\ LET found == {e[2] : e \in {p \in halMap : p[1] = flying.session}}
           held  == {o \in found : strong[o] > 0}
       IN IF held = {} THEN flying' = NoEvent /\ UNCHANGED strong
          ELSE LET o == CHOOSE o \in held : TRUE
               IN /\ strong' = [strong EXCEPT ![o] = @ + 1]
                  /\ flying' = [flying EXCEPT !.object = o, !.at = "call"]
    /\ UNCHANGED <<gCas, casOnce, casPc, mCasSession, halMap, hal, notified, halEvents>>

(* ... while the client is called ... *)
notifyListener ==
    /\ flying.at = "call"
    /\ notified' = notified \union {flying.object}
    /\ flying' = [flying EXCEPT !.at = "drop"]
    /\ UNCHANGED <<gCas, casOnce, strong, casPc, mCasSession, halMap, hal, halEvents>>

(* ... and let go: the last reference to go runs the destructor here.      *)
DropReference ==
    /\ flying.at = "drop"
    /\ LET o == flying.object
       IN /\ strong' = [strong EXCEPT ![o] = @ - 1]
          /\ casPc' = IF strong[o] = 1 /\ casPc[o] = "released"
                      THEN [casPc EXCEPT ![o] = "close"] ELSE casPc
    /\ flying' = NoEvent
    /\ UNCHANGED <<gCas, casOnce, mCasSession, halMap, hal, notified, halEvents>>

-----------------------------------------------------------------------------
CasObjSteps(o) ==
    \/ HalOpenSession(o) \/ EnterSession(o) \/ Aml_MP_CAS_OpenSession(o)
    \/ registerEventCallback(o) \/ HalCall(o)
    \/ Aml_MP_CAS_CloseSession(o) \/ HalCloseSession(o) \/ LeaveSession(o)

HalSteps == HalEvent \/ sCasHalCb \/ notifyListener \/ DropReference

CasNext ==
    \/ Aml_MP_CAS_Initialize \/ Aml_MP_CAS_Terminate
    \/ \E o \in CasObj : CasObjSteps(o)
    \/ HalSteps

CasSpec == CasInit /\ [][CasNext]_cvars
-----------------------------------------------------------------------------
(***************************************************************************)
(* Properties                                                              *)
(***************************************************************************)
(* The client is called for an object only while that object is alive, and *)
(* the map never names an object that is gone, whichever of the closing    *)
(* client and the library's thread lets go last.                           *)
CallbackHoldsItsObject ==
    /\ flying.at = "call" => /\ strong[flying.object] > 0
                             /\ casPc[flying.object] \in {"live", "released"}
    /\ \A e \in halMap : casPc[e[2]] # "gone"
=============================================================================
