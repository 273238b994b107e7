------------------------- MODULE MediaPlayerProofs -------------------------
(***************************************************************************)
(* What is proved of the media player: mState is right about the plug-in   *)
(* whenever nobody is inside a method, the window a client set is the one  *)
(* the plug-in has, and the plug-in is started and invoked only when it is *)
(* prepared, all of it but for an end of the stream that comes too late.   *)
(* The inductive invariant says, for the one client inside a method, how   *)
(* far the plug-in has come with it.                                       *)
(***************************************************************************)
EXTENDS MediaPlayer, TLAPS

(* mState and the plug-in say the same.                                    *)
Settled == phase \in PhasesOf(state) \/ Misled
Unprepared == {"idle", "inited", "stopped"}
Streaming == {"playing", "paused", "completed"}

(* A client that is about to take step n of op.                            *)
Midway(op, n) ==
    /\ op = "setDataSource" =>
          IF n = 1 THEN (state = "IDLE" \/ Misled) /\ phase = "idle" ELSE phase = "inited"
    /\ op \in {"prepare", "prepareAsync"} =>
          /\ n < 3 => phase \in Unprepared
          /\ n = 2 => state = "PREPARING" \/ Misled
          /\ n > 2 => phase \in {"preparing", "prepared"}
    /\ op = "start" =>
          IF n < 3 THEN Settled /\ state \in StartAccepts ELSE phase \in {"playing", "completed"}
    /\ op = "pause" => IF n = 1 THEN Settled ELSE phase = "paused"
    /\ op = "resume" => IF n = 1 THEN Settled ELSE phase \in {"playing", "completed"}
    /\ op = "stop" => IF n = 1 THEN Settled ELSE phase \in {"stopped", "idle"}
    /\ op = "reset" =>
          /\ IF n = 1 THEN Settled ELSE phase = "idle"
          /\ n = 3 => state = "STOPPED" \/ Misled
    /\ op = "invoke" => Settled /\ state \in Accepts["invoke"] \cup {"COMPLETED"}
    /\ op \in {"setVideoWindow", "setVolume"} => Settled

(* One client at a time is inside a method.                                *)
OneInside ==
    \A c, d \in Client : call[c].op \in Method /\ call[d].op \in Method => c = d

(* An event is on its way only while the plug-in has a stream, or late, and*)
(* nothing is late with a plug-in that waits for its event thread.         *)
EventOfStream ==
    /\ event # "none" /\ "event" \notin late => phase \in Streaming
    /\ waits => late = {}

AgreeInv ==
    /\ TypeOK /\ OneInside /\ EventOfStream
    /\ LockIsFree => Settled
    /\ \A c \in Client : call[c].op \in Method => Midway(call[c].op, call[c].at)

(* The window: the plug-in has the client's while the object is live, but  *)
(* for the call that is bringing it there.                                 *)
SameWindow == applied["window"] = stored["window"]
WindowInv ==
    /\ state \in Live /\ (\A c \in Client : call[c].op # "setVideoWindow") => SameWindow
    /\ \A c \in Client :
          call[c].op \in {"pause", "resume"} \/ (call[c].op = "start" /\ call[c].at > 1)
            => SameWindow

LEMMA Methods ==
    Method = {"setDataSource", "prepare", "prepareAsync", "start", "pause", "resume",
              "stop", "reset", "invoke", "setVideoWindow", "setVolume"}
BY DEF Method, Script

(* The steps of a method that call the plug-in, and the ones that set      *)
(* mState.                                                                 *)
LEMMA Asking ==
    ASSUME NEW op \in Method, NEW n \in 1 .. Len(Script[op]), Script[op][n].does = "ask"
    PROVE  \/ op = "setDataSource" /\ n = 1 /\ Len(Script[op]) = 2 /\ Script[op][n].what = op
           \/ /\ op \in {"prepare", "prepareAsync"} /\ n = 2 /\ Len(Script[op]) = 3
              /\ Script[op][n].what = op
           \/ op = "start" /\ n = 1 /\ Len(Script[op]) = 3 /\ Script[op][n].what = "window"
           \/ op = "start" /\ n = 2 /\ Len(Script[op]) = 3 /\ Script[op][n].what = "start"
           \/ /\ op \in {"pause", "resume", "stop"} /\ n = 1 /\ Len(Script[op]) = 2
              /\ Script[op][n].what = op
           \/ op = "reset" /\ n = 1 /\ Len(Script[op]) = 4 /\ Script[op][n].what = "reset"
           \/ op = "reset" /\ n = 3 /\ Len(Script[op]) = 4 /\ Script[op][n].what = "release"
           \/ op = "invoke" /\ n = 1 /\ Len(Script[op]) = 1 /\ Script[op][n].what = "invoke"
           \/ op = "setVideoWindow" /\ n = 1 /\ Len(Script[op]) = 1 /\ Script[op][n].what = "window"
           \/ op = "setVolume" /\ n = 1 /\ Len(Script[op]) = 1 /\ Script[op][n].what = "volume"
<1>1. CASE op = "setDataSource"
  BY <1>1 DEF Script, Ask, Set
<1>2. CASE op = "prepare"
  BY <1>2 DEF Script, Ask, Set
<1>3. CASE op = "prepareAsync"
  BY <1>3 DEF Script, Ask, Set
<1>4. CASE op = "start"
  BY <1>4 DEF Script, StartScript, Ask, Set
<1>5. CASE op = "pause"
  BY <1>5 DEF Script, Ask, Set
<1>6. CASE op = "resume"
  BY <1>6 DEF Script, Ask, Set
<1>7. CASE op = "stop"
  BY <1>7 DEF Script, Ask, Set
<1>8. CASE op = "reset"
  BY <1>8 DEF Script, ResetScript, Ask, Set
<1>9. CASE op \in {"invoke", "setVideoWindow", "setVolume"}
  BY <1>9 DEF Script, Ask, Set
<1> QED
  BY <1>1, <1>2, <1>3, <1>4, <1>5, <1>6, <1>7, <1>8, <1>9, Methods

LEMMA SettingState ==
    ASSUME NEW op \in Method, NEW n \in 1 .. Len(Script[op]), Script[op][n].does = "set"
    PROVE  \/ op = "setDataSource" /\ n = 2 /\ Len(Script[op]) = 2 /\ Script[op][n].what = "INITED"
           \/ /\ op \in {"prepare", "prepareAsync"} /\ n = 1 /\ Len(Script[op]) = 3
              /\ Script[op][n].what = "PREPARING"
           \/ /\ op \in {"prepare", "prepareAsync"} /\ n = 3 /\ Len(Script[op]) = 3
              /\ Script[op][n].what = "PREPARED"
           \/ op = "start" /\ n = 3 /\ Len(Script[op]) = 3 /\ Script[op][n].what = "RUNNING"
           \/ op = "pause" /\ n = 2 /\ Len(Script[op]) = 2 /\ Script[op][n].what = "PAUSED"
           \/ op = "resume" /\ n = 2 /\ Len(Script[op]) = 2 /\ Script[op][n].what = "RUNNING"
           \/ op = "stop" /\ n = 2 /\ Len(Script[op]) = 2 /\ Script[op][n].what = "STOPPED"
           \/ op = "reset" /\ n = 2 /\ Len(Script[op]) = 4 /\ Script[op][n].what = "STOPPED"
           \/ op = "reset" /\ n = 4 /\ Len(Script[op]) = 4 /\ Script[op][n].what = "IDLE"
<1>1. CASE op = "setDataSource"
  BY <1>1 DEF Script, Ask, Set
<1>2. CASE op = "prepare"
  BY <1>2 DEF Script, Ask, Set
<1>3. CASE op = "prepareAsync"
  BY <1>3 DEF Script, Ask, Set
<1>4. CASE op = "start"
  BY <1>4 DEF Script, StartScript, Ask, Set
<1>5. CASE op = "pause"
  BY <1>5 DEF Script, Ask, Set
<1>6. CASE op = "resume"
  BY <1>6 DEF Script, Ask, Set
<1>7. CASE op = "stop"
  BY <1>7 DEF Script, Ask, Set
<1>8. CASE op = "reset"
  BY <1>8 DEF Script, ResetScript, Ask, Set
<1>9. CASE op \in {"invoke", "setVideoWindow", "setVolume"}
  BY <1>9 DEF Script, Ask, Set
<1> QED
  BY <1>1, <1>2, <1>3, <1>4, <1>5, <1>6, <1>7, <1>8, <1>9, Methods

LEMMA ScriptsStart ==
    \A op \in Method : Len(Script[op]) \in 1 .. 4
<1> SUFFICES ASSUME NEW op \in Method PROVE Len(Script[op]) \in 1 .. 4
  OBVIOUS
<1>1. CASE op \in {"setDataSource", "prepare", "prepareAsync", "pause", "resume", "stop"}
  BY <1>1 DEF Script
<1>2. CASE op \in {"start", "reset", "invoke", "setVideoWindow", "setVolume"}
  BY <1>2 DEF Script, StartScript, ResetScript
<1> QED
  BY <1>1, <1>2, Methods

CallType == [op : Method \cup {"none", "registerEventCallBack"}, at : 0 .. 5]

(* A client moves, the others stay where they are; it is inside a method   *)
(* afterwards only if it was before or nobody was.                         *)
LEMMA ClientMoves ==
    ASSUME TypeOK, OneInside, NEW c \in Client, NEW x \in CallType,
           call' = [call EXCEPT ![c] = x],
           x.op \in Method => x.at \in 1 .. Len(Script[x.op]),
           x.op \in Method => LockIsFree \/ call[c].op \in Method
    PROVE  /\ call'[c] = x /\ \A d \in Client : d # c => call'[d] = call[d]
           /\ call' \in [Client -> CallType] /\ OneInside'
           /\ \A d \in Client : call'[d].op \in Method =>
                                   call'[d].at \in 1 .. Len(Script[call'[d].op])
<1>1. call \in [Client -> CallType]
  BY DEF TypeOK, CallType
<1>2. /\ call'[c] = x /\ \A d \in Client : d # c => call'[d] = call[d]
      /\ call' \in [Client -> CallType]
  BY <1>1
<1>3. OneInside'
  BY <1>2 DEF OneInside, LockIsFree
<1>4. \A d \in Client : call'[d].op \in Method => call'[d].at \in 1 .. Len(Script[call'[d].op])
  BY <1>2 DEF TypeOK
<1> QED
  BY <1>2, <1>3, <1>4

(* The client inside a method takes a step of it or returns.               *)
LEMMA Inside ==
    ASSUME AgreeInv, NEW c \in Client, call[c].op \in Method, NEW x \in CallType,
           call' = [call EXCEPT ![c] = x],
           x.op \in Method => x.at \in 1 .. Len(Script[x.op]),
           UNCHANGED <<cb, stored, event, waits>>, applied' \in [Setting -> 0 .. 1],
           state' \in State, phase' \in Phase, late' \subseteq {"event", "state"},
           EventOfStream',
           x.op \in Method => Midway(x.op, x.at)', x.op \notin Method => Settled'
    PROVE  AgreeInv'
<1>1. TypeOK /\ OneInside
  BY DEF AgreeInv
<1>2. /\ call'[c] = x /\ \A d \in Client : d # c => call'[d] = call[d]
      /\ call' \in [Client -> CallType] /\ OneInside'
      /\ \A d \in Client : call'[d].op \in Method =>
                              call'[d].at \in 1 .. Len(Script[call'[d].op])
  BY <1>1, ClientMoves
<1>3. TypeOK'
  BY <1>1, <1>2 DEF TypeOK, CallType
<1>4. \A d \in Client : d # c => call'[d].op \notin Method
  BY <1>1, <1>2 DEF OneInside
<1>5. LockIsFree' => Settled'
  BY <1>2 DEF LockIsFree
<1>6. \A d \in Client : call'[d].op \in Method => Midway(call[d].op, call[d].at)'
  BY <1>2, <1>4
<1> QED
  BY <1>2, <1>3, <1>5, <1>6 DEF AgreeInv

(* A client outside comes in when nobody is inside, begins to register a   *)
(* callback or ends to.                                                    *)
LEMMA Outside ==
    ASSUME AgreeInv, NEW c \in Client, call[c].op \notin Method, NEW x \in CallType,
           call' = [call EXCEPT ![c] = x],
           x.op \in Method => LockIsFree /\ x.at = 1 /\ Midway(x.op, x.at),
           UNCHANGED <<state, applied, phase, event, waits, late>>, cb' \in BOOLEAN,
           stored' \in [Setting -> 0 .. 1]
    PROVE  AgreeInv'
<1>1. TypeOK /\ OneInside
  BY DEF AgreeInv
<1>2. x.op \in Method => x.at \in 1 .. Len(Script[x.op])
  <2> SUFFICES ASSUME x.op \in Method PROVE x.at \in 1 .. Len(Script[x.op])
    OBVIOUS
  <2>1. Len(Script[x.op]) \in 1 .. 4 /\ x.at = 1
    BY ScriptsStart
  <2> QED
    BY <2>1
<1>3. /\ call'[c] = x /\ \A d \in Client : d # c => call'[d] = call[d]
      /\ call' \in [Client -> CallType] /\ OneInside'
      /\ \A d \in Client : call'[d].op \in Method =>
                              call'[d].at \in 1 .. Len(Script[call'[d].op])
  BY <1>1, <1>2, ClientMoves
<1>4. TypeOK'
  BY <1>1, <1>3 DEF TypeOK, CallType
<1>5. EventOfStream' /\ (Settled' <=> Settled)
  BY DEF AgreeInv, EventOfStream, Settled, Misled
<1>6. LockIsFree' => Settled'
  BY <1>3, <1>5 DEF LockIsFree, AgreeInv
<1>7. ASSUME NEW op, NEW n, Midway(op, n) PROVE Midway(op, n)'
  BY <1>7, <1>5 DEF Midway, Misled
<1>8. \A d \in Client : call'[d].op \in Method => Midway(call[d].op, call[d].at)'
  BY <1>3, <1>7 DEF AgreeInv
<1> QED
  BY <1>3, <1>4, <1>5, <1>6, <1>8 DEF AgreeInv

LEMMA EnterKeepsAgreeInv ==
    ASSUME AgreeInv, NEW c \in Client, NEW op, Enter(c, op) PROVE AgreeInv'
<1>1. /\ call[c] = None /\ LockIsFree /\ op \in DOMAIN Accepts /\ state \in Accepts[op]
      /\ call' = [call EXCEPT ![c] = [op |-> op, at |-> 1]]
      /\ UNCHANGED <<state, cb, stored, applied, phase, event, waits, late>>
  BY DEF Enter
<1>2. call[c].op \notin Method /\ op \in Method
      /\ op \in {"setDataSource", "prepare", "prepareAsync", "start", "pause", "resume",
                 "stop", "reset", "invoke"}
  BY <1>1, Methods DEF None, Accepts
<1>3. [op |-> op, at |-> 1] \in CallType
  BY <1>2 DEF CallType
<1>4. Settled
  BY <1>1 DEF AgreeInv
<1>5. Midway(op, 1)
  <2>1. CASE op \in {"setDataSource", "prepare", "prepareAsync"}
    BY <1>1, <1>4, <2>1 DEF Midway, Settled, Misled, PhasesOf, Accepts, Unprepared
  <2>2. CASE op \in {"start", "pause", "resume", "stop", "reset", "invoke"}
    BY <1>1, <1>4, <2>2 DEF Midway, Accepts
  <2> QED
    BY <1>2, <2>1, <2>2
<1>6. cb' \in BOOLEAN /\ stored' \in [Setting -> 0 .. 1]
      /\ UNCHANGED <<state, applied, phase, event, waits, late>>
  BY <1>1 DEF AgreeInv, TypeOK
<1> QED
  BY <1>1, <1>2, <1>3, <1>5, <1>6, Outside

LEMMA ConfigureKeepsAgreeInv ==
    ASSUME AgreeInv, NEW c \in Client, NEW op \in {"setVideoWindow", "setVolume"},
           NEW s \in Setting, NEW v \in 0 .. 1, Configure(c, op, s, v)
    PROVE  AgreeInv'
<1> DEFINE x == IF state \in Live THEN [op |-> op, at |-> 1] ELSE None
<1>1. /\ call[c] = None /\ LockIsFree /\ stored' = [stored EXCEPT ![s] = v]
      /\ call' = [call EXCEPT ![c] = x]
      /\ UNCHANGED <<state, cb, applied, phase, event, waits, late>>
  BY DEF Configure
<1>2. call[c].op \notin Method /\ x \in CallType
      /\ (x.op \in Method => x.op \in {"setVideoWindow", "setVolume"} /\ x.at = 1)
  BY <1>1, Methods DEF None, CallType
<1> HIDE DEF x
<1>3. Settled
  BY <1>1 DEF AgreeInv
<1>4. x.op \in Method => LockIsFree /\ x.at = 1 /\ Midway(x.op, x.at)
  BY <1>1, <1>2, <1>3 DEF Midway
<1>5. cb' \in BOOLEAN /\ stored' \in [Setting -> 0 .. 1]
      /\ UNCHANGED <<state, applied, phase, event, waits, late>>
  BY <1>1 DEF AgreeInv, TypeOK
<1> QED
  BY <1>1, <1>2, <1>4, <1>5, Outside

LEMMA RegisterKeepsAgreeInv ==
    ASSUME AgreeInv, NEW c \in Client, BeginRegister(c) \/ EndRegister(c) PROVE AgreeInv'
<1>1. /\ None \in CallType /\ None.op \notin Method
      /\ [op |-> "registerEventCallBack", at |-> 0] \in CallType
      /\ "registerEventCallBack" \notin Method
  BY Methods DEF None, CallType
<1>2. /\ call[c].op \notin Method /\ cb' \in BOOLEAN /\ stored' \in [Setting -> 0 .. 1]
      /\ UNCHANGED <<state, applied, phase, event, waits, late>>
  BY <1>1 DEF BeginRegister, EndRegister, AgreeInv, TypeOK, None
<1>3. CASE BeginRegister(c)
  <2> DEFINE x == [op |-> "registerEventCallBack", at |-> 0]
  <2>1. call' = [call EXCEPT ![c] = x]
    BY <1>3 DEF BeginRegister
  <2>2. x.op \notin Method /\ x \in CallType
    BY <1>1
  <2> HIDE DEF x
  <2> QED
    BY <1>2, <2>1, <2>2, Outside
<1>4. CASE EndRegister(c)
  <2>1. call' = [call EXCEPT ![c] = None]
    BY <1>4 DEF EndRegister, Return
  <2> QED
    BY <1>1, <1>2, <2>1, Outside
<1> QED
  BY <1>3, <1>4

(* The plug-in's threads.                                                  *)
LEMMA PluginKeepsAgreeInv ==
    ASSUME AgreeInv,
           PluginPrepared \/ PluginCompletes \/ EventThread \/ UNCHANGED vars
    PROVE  AgreeInv'
<1>1. TypeOK /\ OneInside /\ EventOfStream /\ (LockIsFree => Settled)
      /\ \A c \in Client : call[c].op \in Method => Midway(call[c].op, call[c].at)
  BY DEF AgreeInv
<1>2. call' = call /\ applied' = applied /\ stored' = stored /\ (cb' <=> cb)
  BY DEF PluginPrepared, PluginCompletes, EventThread, Listen, Complete, CallbackReturns, vars
<1>3. /\ phase' \in Phase /\ event' \in {"none", "found", "listening", "telling"}
      /\ state' \in State /\ cb' \in BOOLEAN /\ waits' = waits
      /\ late' \subseteq {"event", "state"} /\ EventOfStream'
  <2>1. CASE PluginPrepared \/ PluginCompletes
    <3>1. /\ phase' \in {"prepared", "completed"} /\ event' \in {event, "found"}
          /\ (event' = event /\ phase = "preparing") \/ phase' = "completed"
          /\ UNCHANGED <<state, cb, waits, late>>
      BY <2>1 DEF PluginPrepared, PluginCompletes
    <3> QED
      BY <1>1, <3>1 DEF TypeOK, Phase, EventOfStream, Streaming
  <2>2. CASE Listen
    <3>1. /\ event = "found" /\ event' \in {"listening", "none"}
          /\ event' = "listening" => late' = late
          /\ late' = late \/ late' = late \ {"event"}
          /\ UNCHANGED <<state, cb, phase, waits>>
      BY <2>2 DEF Listen
    <3> QED
      BY <1>1, <3>1 DEF TypeOK, EventOfStream
  <2>3. CASE Complete
    BY <1>1, <2>3 DEF Complete, TypeOK, State, EventOfStream
  <2>4. CASE CallbackReturns
    BY <1>1, <2>4 DEF CallbackReturns, TypeOK, EventOfStream
  <2>5. CASE UNCHANGED vars
    BY <1>1, <2>5 DEF vars, TypeOK, EventOfStream
  <2> QED
    BY <2>1, <2>2, <2>3, <2>4, <2>5 DEF EventThread
<1>4. TypeOK' /\ OneInside'
  BY <1>1, <1>2, <1>3 DEF TypeOK, OneInside
<1>5. Settled => Settled'
  BY <1>1 DEF PluginPrepared, PluginCompletes, EventThread, Listen, Complete, CallbackReturns,
              vars, TypeOK, State, EventOfStream, Streaming, Settled, Misled, PhasesOf
<1>51. ~Complete /\ Misled => Misled'
  BY DEF PluginPrepared, PluginCompletes, EventThread, Listen, CallbackReturns, vars, Misled
<1>6. ASSUME NEW op, NEW n, Midway(op, n) PROVE Midway(op, n)'
  <2>1. CASE phase' = phase /\ state' = state /\ ~Complete
    BY <1>5, <1>51, <1>6, <2>1 DEF Midway
  <2>2. CASE PluginPrepared \/ PluginCompletes
    <3>1. ~Complete
      BY <2>2 DEF Complete, PluginPrepared, PluginCompletes
    <3> QED
      BY <1>5, <1>51, <1>6, <2>2, <3>1 DEF Midway, PluginPrepared, PluginCompletes, Unprepared
  <2>3. CASE Complete
    <3>1. \/ phase \in Streaming /\ Settled'
          \/ Misled' /\ Settled'
      BY <1>1, <2>3 DEF Complete, EventOfStream, Streaming, Settled, Misled, PhasesOf
    <3>2. phase' = phase /\ state' = "COMPLETED"
      BY <2>3 DEF Complete
    <3> QED
      BY <1>5, <1>6, <3>1, <3>2
      DEF Midway, Streaming, Unprepared, StartAccepts, Accepts
  <2> QED
    BY <2>1, <2>2, <2>3 DEF EventThread, Listen, CallbackReturns, vars
<1>7. \A c \in Client : call'[c].op \in Method => Midway(call[c].op, call[c].at)'
  BY <1>1, <1>2, <1>6
<1>8. LockIsFree' => Settled'
  BY <1>1, <1>2, <1>5 DEF LockIsFree
<1> QED
  BY <1>3, <1>4, <1>7, <1>8 DEF AgreeInv

(* Where the client inside is after a step: one step on, or out.           *)
LEMMA Advances ==
    ASSUME AgreeInv, NEW c \in Client, call[c].op \in Method, Advance(c)
    PROVE  \E x \in CallType :
              /\ call' = [call EXCEPT ![c] = x]
              /\ IF call[c].at = Len(Script[call[c].op]) THEN x = None
                 ELSE /\ x.op = call[c].op /\ x.at = call[c].at + 1
                      /\ call[c].at < Len(Script[call[c].op])
<1> DEFINE n == call[c].at
           top == Len(Script[call[c].op])
           on == [op |-> call[c].op, at |-> n + 1]
<1>1. call[c] \in CallType /\ n \in 1 .. top /\ top \in 1 .. 4
  BY ScriptsStart DEF AgreeInv, TypeOK, CallType
<1>2. None \in CallType
  BY DEF None, CallType
<1>3. call' = [call EXCEPT ![c] = IF n = top THEN None ELSE on]
  BY DEF Advance
<1>4. CASE n = top
  <2>1. call' = [call EXCEPT ![c] = None]
    BY <1>3, <1>4
  <2> QED
    BY <1>2, <1>4, <2>1
<1>5. CASE n # top
  <2>1. call' = [call EXCEPT ![c] = on]
    BY <1>3, <1>5
  <2>2. on.op = call[c].op /\ on.at = n + 1
    BY <1>1 DEF CallType
  <2> HIDE DEF top
  <2>3. n + 1 \in 0 .. 5 /\ n < top
    BY <1>1, <1>5
  <2>4. on \in CallType
    BY <1>1, <2>3 DEF CallType
  <2> HIDE DEF on
  <2>5. call[c].at # Len(Script[call[c].op]) /\ call[c].at < Len(Script[call[c].op])
    BY <1>5, <2>3 DEF top
  <2> QED
    BY <2>1, <2>2, <2>4, <2>5
<1> QED
  BY <1>4, <1>5

LEMMA ObeyKeepsAgreeInv ==
    ASSUME AgreeInv, NEW c \in Client, PluginObeys(c) PROVE AgreeInv'
<1> DEFINE op == call[c].op
           n == call[c].at
           top == Len(Script[op])
           f == Script[op][n].what
<1>1. /\ op \in Method /\ n \in 1 .. top /\ Script[op][n].does = "ask"
      /\ Midway(op, n) /\ TypeOK /\ EventOfStream
  BY DEF PluginObeys, Step, AgreeInv, TypeOK
<1>2. /\ (waits /\ f \in {"stop", "reset", "release"} => event = "none")
      /\ CanSucceed(f) /\ phase' = After(f) /\ Apply(f) /\ Outlives(f) /\ Advance(c)
      /\ UNCHANGED <<state, cb, stored, event, waits>>
  BY DEF PluginObeys, Step, Waits, Ends
<1>3. PICK x \in CallType :
              /\ call' = [call EXCEPT ![c] = x]
              /\ n = top => x = None
              /\ n # top => x.op = op /\ x.at = n + 1 /\ n < top
  BY <1>1, <1>2, Advances
<1>4. applied' \in [Setting -> 0 .. 1]
  BY <1>1, <1>2 DEF Apply, TypeOK
<1>5. \/ op = "setDataSource" /\ n = 1 /\ top = 2 /\ f = op
      \/ op \in {"prepare", "prepareAsync"} /\ n = 2 /\ top = 3 /\ f = op
      \/ op = "start" /\ n = 1 /\ top = 3 /\ f = "window"
      \/ op = "start" /\ n = 2 /\ top = 3 /\ f = "start"
      \/ op \in {"pause", "resume", "stop"} /\ n = 1 /\ top = 2 /\ f = op
      \/ op = "reset" /\ n = 1 /\ top = 4 /\ f = "reset"
      \/ op = "reset" /\ n = 3 /\ top = 4 /\ f = "release"
      \/ op = "invoke" /\ n = 1 /\ top = 1 /\ f = "invoke"
      \/ op = "setVideoWindow" /\ n = 1 /\ top = 1 /\ f = "window"
      \/ op = "setVolume" /\ n = 1 /\ top = 1 /\ f = "volume"
  BY <1>1, Asking
<1>6. n \in Nat /\ top \in 1 .. 4
  BY <1>1, ScriptsStart
<1>0. None.op \notin Method
  BY Methods DEF None
<1> HIDE DEF op, n, f, top
<1>7. x.op \in Method => x.at \in 1 .. Len(Script[x.op])
  BY <1>0, <1>3, <1>6 DEF top
<1>8. state' \in State /\ phase' \in Phase /\ late' \subseteq {"event", "state"}
  BY <1>1, <1>2, <1>5 DEF After, Outlives, TypeOK, Phase
<1>81. Misled => Misled'
  BY <1>2 DEF Misled, Outlives
<1>9. EventOfStream'
  BY <1>1, <1>2, <1>5
  DEF EventOfStream, Streaming, Midway, After, Unprepared, Outlives, Ends, CanSucceed
<1>10. x.op \in Method => Midway(x.op, x.at)'
  <2>1. CASE op \in {"setDataSource", "prepare", "prepareAsync"}
    BY <1>0, <1>1, <1>2, <1>3, <1>5, <2>1 DEF Midway, After
  <2>2. CASE op = "start"
    <3>1. n = 1 => Settled'
      BY <1>1, <1>2, <1>5, <1>81, <2>2 DEF Midway, After, Settled
    <3> QED
      BY <1>0, <1>1, <1>2, <1>3, <1>5, <2>2, <3>1 DEF Midway, After
  <2>3. CASE op \in {"pause", "resume", "stop", "reset"}
    BY <1>0, <1>1, <1>2, <1>3, <1>5, <2>3 DEF Midway, After
  <2>4. CASE op \in {"invoke", "setVideoWindow", "setVolume"}
    BY <1>0, <1>3, <1>5, <2>4
  <2> QED
    BY <1>5, <2>1, <2>2, <2>3, <2>4
<1>11. x.op \notin Method => Settled'
  <2>1. CASE op = "reset" /\ n = 3
    BY <1>1, <1>3, <1>5, <2>1
  <2>2. CASE op \in {"invoke", "setVideoWindow", "setVolume"}
    <3>1. phase' = phase /\ state' = state /\ Settled
      BY <1>1, <1>2, <1>5, <2>2 DEF Midway, After
    <3> QED
      BY <1>81, <3>1 DEF Settled
  <2> QED
    BY <1>1, <1>3, <1>5, <2>1, <2>2
<1> QED
  <2>1. call[c].op \in Method
    BY <1>1 DEF op
  <2> QED
    BY <1>2, <1>3, <1>4, <1>7, <1>8, <1>9, <1>10, <1>11, <2>1, Inside

LEMMA RefuseKeepsAgreeInv ==
    ASSUME AgreeInv, NEW c \in Client, PluginRefuses(c) PROVE AgreeInv'
<1> DEFINE op == call[c].op
           n == call[c].at
           top == Len(Script[op])
           f == Script[op][n].what
<1>1. /\ op \in Method /\ n \in 1 .. top /\ Script[op][n].does = "ask"
      /\ Midway(op, n) /\ TypeOK /\ EventOfStream
  BY DEF PluginRefuses, Step, AgreeInv, TypeOK
<1>2. /\ f # "window" => Return(c)
      /\ f = "window" => Advance(c)
      /\ Apply(f) /\ UNCHANGED <<state, cb, stored, phase, event, waits, late>>
  BY DEF PluginRefuses, Step
<1>3. /\ applied' \in [Setting -> 0 .. 1] /\ state' \in State /\ phase' \in Phase
      /\ late' \subseteq {"event", "state"} /\ EventOfStream' /\ (Settled => Settled')
  BY <1>1, <1>2 DEF TypeOK, EventOfStream, Settled, Misled, Apply
<1>4. None \in CallType /\ None.op \notin Method
  BY Methods DEF None, CallType
<1>5. \/ op \in {"prepare", "prepareAsync"} /\ n = 2 /\ f # "window"
      \/ op = "start" /\ n = 1 /\ top = 3
      \/ op = "start" /\ n = 2 /\ f = "start"
      \/ op = "reset" /\ n = 3 /\ f = "release"
      \/ op = "setVideoWindow" /\ n = 1 /\ top = 1
      \/ /\ op \in {"setDataSource", "pause", "resume", "stop", "reset", "invoke", "setVolume"}
         /\ n = 1 /\ f # "window"
  BY <1>1, Asking
<1> HIDE DEF op, n, f, top
<1>6. Settled
  <2>1. CASE op \in {"prepare", "prepareAsync"} /\ n = 2
    BY <1>1, <2>1 DEF Midway, Settled, Misled, PhasesOf, Unprepared
  <2>2. CASE op = "reset" /\ n = 3
    BY <1>1, <2>2 DEF Midway, Settled, Misled, PhasesOf
  <2>3. CASE (op = "start" /\ n \in {1, 2}) \/ op = "setVideoWindow"
    BY <1>1, <2>3 DEF Midway
  <2>4. CASE op = "setDataSource" /\ n = 1
    BY <1>1, <2>4 DEF Midway, Settled, Misled, PhasesOf
  <2>5. CASE op \in {"pause", "resume", "stop", "reset", "invoke", "setVolume"} /\ n = 1
    BY <1>1, <2>5 DEF Midway
  <2> QED
    BY <1>5, <2>1, <2>2, <2>3, <2>4, <2>5
<1>7. CASE Return(c)
  <2>1. call' = [call EXCEPT ![c] = None]
    BY <1>7 DEF Return
  <2> QED
    BY <1>1, <1>2, <1>3, <1>4, <1>6, <2>1, Inside DEF op
<1>8. CASE f = "window"
  <2>1. PICK x \in CallType :
              /\ call' = [call EXCEPT ![c] = x]
              /\ n = top => x = None
              /\ n # top => x.op = op /\ x.at = n + 1 /\ n < top
    BY <1>1, <1>2, <1>8, Advances DEF op, n, top
  <2>0. \/ op = "start" /\ n = 1 /\ top = 3
        \/ op = "setVideoWindow" /\ n = 1 /\ top = 1
    BY <1>5, <1>8
  <2>2. \/ op = "start" /\ x.op = "start" /\ n = 1 /\ x.at = 2 /\ top = 3
        \/ x.op \notin Method
    BY <1>4, <2>0, <2>1
  <2>3. CASE op = "start" /\ x.op = "start" /\ n = 1 /\ x.at = 2 /\ top = 3
    <3>1. Settled' /\ state' \in StartAccepts
      BY <1>1, <1>2, <1>3, <2>3 DEF Midway
    <3>2. Midway(x.op, x.at)'
      BY <2>3, <3>1 DEF Midway
    <3>3. x.at \in 1 .. Len(Script[x.op])
      BY <2>3 DEF top
    <3> QED
      BY <1>1, <1>2, <1>3, <1>6, <2>1, <3>2, <3>3, Inside DEF op
  <2>4. CASE x.op \notin Method
    BY <1>1, <1>2, <1>3, <1>6, <2>1, <2>4, Inside DEF op
  <2> QED
    BY <2>2, <2>3, <2>4
<1> QED
  BY <1>2, <1>7, <1>8

LEMMA SetKeepsAgreeInv ==
    ASSUME AgreeInv, NEW c \in Client, SetState(c) PROVE AgreeInv'
<1> DEFINE op == call[c].op
           n == call[c].at
           top == Len(Script[op])
           s == Script[op][n].what
<1>1. /\ op \in Method /\ n \in 1 .. top /\ Script[op][n].does = "set"
      /\ Midway(op, n) /\ TypeOK /\ EventOfStream
  BY DEF SetState, Step, AgreeInv, TypeOK
<1>2. /\ state' = s /\ late' = late \ {"state"} /\ Advance(c)
      /\ UNCHANGED <<cb, stored, applied, phase, event, waits>>
  BY DEF SetState, Step
<1>3. PICK x \in CallType :
              /\ call' = [call EXCEPT ![c] = x]
              /\ n = top => x = None
              /\ n # top => x.op = op /\ x.at = n + 1 /\ n < top
  BY <1>1, <1>2, Advances
<1>4. /\ applied' \in [Setting -> 0 .. 1] /\ phase' \in Phase /\ EventOfStream'
      /\ late' \subseteq {"event", "state"}
  BY <1>1, <1>2 DEF TypeOK, EventOfStream
<1>5. \/ op = "setDataSource" /\ n = 2 /\ top = 2 /\ s = "INITED"
      \/ op \in {"prepare", "prepareAsync"} /\ n = 1 /\ top = 3 /\ s = "PREPARING"
      \/ op \in {"prepare", "prepareAsync"} /\ n = 3 /\ top = 3 /\ s = "PREPARED"
      \/ op = "start" /\ n = 3 /\ top = 3 /\ s = "RUNNING"
      \/ op = "pause" /\ n = 2 /\ top = 2 /\ s = "PAUSED"
      \/ op = "resume" /\ n = 2 /\ top = 2 /\ s = "RUNNING"
      \/ op = "stop" /\ n = 2 /\ top = 2 /\ s = "STOPPED"
      \/ op = "reset" /\ n = 2 /\ top = 4 /\ s = "STOPPED"
      \/ op = "reset" /\ n = 4 /\ top = 4 /\ s = "IDLE"
  BY <1>1, SettingState
<1>6. n \in Nat /\ top \in 1 .. 4
  BY <1>1, ScriptsStart
<1>0. None.op \notin Method
  BY Methods DEF None
<1> HIDE DEF op, n, s, top
<1>7. x.op \in Method => x.at \in 1 .. Len(Script[x.op])
  BY <1>0, <1>3, <1>6 DEF top
<1>8. state' \in State
  BY <1>2, <1>5 DEF State
<1>9. x.op \in Method => Midway(x.op, x.at)'
  BY <1>0, <1>1, <1>2, <1>3, <1>5 DEF Midway
<1>10. ASSUME x.op \notin Method PROVE Settled'
  <2>1. n = top /\ (phase \in PhasesOf(s) => Settled')
    BY <1>1, <1>2, <1>3, <1>10 DEF Settled
  <2>2. CASE op = "setDataSource" \/ op \in {"prepare", "prepareAsync"}
    BY <1>1, <1>5, <2>1, <2>2 DEF Midway, PhasesOf
  <2>3. CASE op \in {"start", "pause", "resume"}
    BY <1>1, <1>5, <2>1, <2>3 DEF Midway, PhasesOf
  <2>4. CASE op \in {"stop", "reset"}
    BY <1>1, <1>5, <2>1, <2>4 DEF Midway, PhasesOf
  <2> QED
    BY <1>5, <2>2, <2>3, <2>4
<1> QED
  BY <1>1, <1>2, <1>3, <1>4, <1>7, <1>8, <1>9, <1>10, Inside DEF op

LEMMA AgreeInitial == Init => AgreeInv
<1> SUFFICES ASSUME Init PROVE AgreeInv
  OBVIOUS
<1>1. /\ state = "IDLE" /\ phase = "idle" /\ event = "none"
      /\ waits \in BOOLEAN /\ late = {}
      /\ \A c \in Client : call[c].op = "none"
      /\ "none" \notin Method
  BY Methods DEF Init, None
<1>2. TypeOK
  <2>1. call \in [Client -> [op : Method \cup {"none", "registerEventCallBack"}, at : 0 .. 5]]
    <3>1. None \in [op : Method \cup {"none", "registerEventCallBack"}, at : 0 .. 5]
      BY DEF None
    <3>2. call = [c \in Client |-> None]
      BY DEF Init
    <3> QED
      BY <3>1, <3>2
  <2>2. /\ stored \in [Setting -> 0 .. 1] /\ applied \in [Setting -> 0 .. 1]
        /\ cb \in BOOLEAN
    <3>1. 0 \in 0 .. 1
      OBVIOUS
    <3>2. /\ stored = [s \in Setting |-> 0] /\ applied = [s \in Setting |-> 0]
          /\ ~cb /\ (cb = FALSE)
      BY DEF Init
    <3> QED
      BY <3>1, <3>2
  <2> QED
    BY <1>1, <2>1, <2>2 DEF TypeOK, State, Phase
<1> QED
  BY <1>1, <1>2 DEF AgreeInv, OneInside, EventOfStream, Settled, PhasesOf

LEMMA StepKeepsAgreeInv ==
    ASSUME AgreeInv, [Next]_vars PROVE AgreeInv'
<1>1. ASSUME NEW c \in Client, ClientCalls(c) PROVE AgreeInv'
  <2>1. CASE \E op \in Calls \cap DOMAIN Accepts : Enter(c, op)
    BY <2>1, EnterKeepsAgreeInv
  <2>2. CASE \E v \in 0 .. 1 : Configure(c, "setVideoWindow", "window", v)
    BY <2>2, ConfigureKeepsAgreeInv DEF Setting
  <2>3. CASE \E v \in 0 .. 1 : Configure(c, "setVolume", "volume", v)
    BY <2>3, ConfigureKeepsAgreeInv DEF Setting
  <2>4. CASE BeginRegister(c)
    BY <2>4, RegisterKeepsAgreeInv
  <2> QED
    BY <1>1, <2>1, <2>2, <2>3, <2>4 DEF ClientCalls
<1>2. ASSUME NEW c \in Client, Proceeds(c) PROVE AgreeInv'
  BY <1>2, ObeyKeepsAgreeInv, RefuseKeepsAgreeInv, SetKeepsAgreeInv, RegisterKeepsAgreeInv
  DEF Proceeds
<1>3. CASE PluginPrepared \/ PluginCompletes \/ EventThread \/ UNCHANGED vars
  BY <1>3, PluginKeepsAgreeInv
<1> QED
  BY <1>1, <1>2, <1>3 DEF Next

(* Where the plug-in has the window afterwards, nothing else is asked.     *)
LEMMA WindowThere == SameWindow => WindowInv
BY DEF WindowInv

LEMMA EnterKeepsWindowInv ==
    ASSUME AgreeInv, WindowInv, NEW c \in Client, ClientCalls(c) PROVE WindowInv'
<1>1. call \in [Client -> CallType] /\ call[c].op \notin Method /\ LockIsFree
      /\ stored \in [Setting -> 0 .. 1]
  BY Methods DEF AgreeInv, TypeOK, CallType, ClientCalls, Enter, Configure, BeginRegister, None
<1>2. \A d \in Client : call[d].op \notin Method
  BY <1>1 DEF LockIsFree
<1>3. state \in Live => SameWindow
  BY <1>2, Methods DEF WindowInv
<1>4. ASSUME NEW op \in DOMAIN Accepts, Enter(c, op) PROVE WindowInv'
  <2>1. /\ state \in Accepts[op] /\ call'[c].op = op /\ call'[c].at = 1
        /\ \A d \in Client : d # c => call'[d] = call[d]
        /\ op # "setVideoWindow" /\ state' = state /\ (SameWindow' <=> SameWindow)
    BY <1>1, <1>4 DEF Enter, Accepts, SameWindow
  <2>2. op \in {"pause", "resume"} => SameWindow
    BY <1>3, <2>1 DEF Accepts, Live
  <2>3. \A d \in Client : d # c => call'[d].op \notin Method
    BY <1>2, <2>1
  <2> QED
    BY <1>3, <2>1, <2>2, <2>3, Methods DEF WindowInv
<1>5. ASSUME NEW v \in 0 .. 1, Configure(c, "setVideoWindow", "window", v) PROVE WindowInv'
  <2>1. /\ state \in Live => call'[c].op = "setVideoWindow"
        /\ state \notin Live => call'[c].op = "none"
        /\ \A d \in Client : d # c => call'[d] = call[d]
        /\ state' = state
    BY <1>1, <1>5 DEF Configure, None
  <2> QED
    BY <1>2, <2>1, Methods DEF WindowInv
<1>6. ASSUME NEW v \in 0 .. 1, Configure(c, "setVolume", "volume", v) PROVE WindowInv'
  <2>1. /\ call'[c].op \in {"setVolume", "none"}
        /\ \A d \in Client : d # c => call'[d] = call[d]
        /\ state' = state
    BY <1>1, <1>6 DEF Configure, None
  <2>2. stored'["window"] = stored["window"] /\ applied' = applied
    BY <1>1, <1>6 DEF Configure, Setting
  <2>3. SameWindow' <=> SameWindow
    BY <2>2 DEF SameWindow
  <2> QED
    BY <1>2, <1>3, <2>1, <2>3, Methods DEF WindowInv
<1>7. CASE BeginRegister(c)
  <2>1. /\ call'[c].op = "registerEventCallBack"
        /\ \A d \in Client : d # c => call'[d] = call[d]
        /\ state' = state /\ (SameWindow' <=> SameWindow)
    BY <1>1, <1>7 DEF BeginRegister, SameWindow
  <2> QED
    BY <1>2, <1>3, <2>1, Methods DEF WindowInv
<1> QED
  BY <1>4, <1>5, <1>6, <1>7 DEF ClientCalls

LEMMA ProceedKeepsWindowInv ==
    ASSUME AgreeInv, WindowInv, NEW c \in Client, Proceeds(c)
    PROVE  WindowInv'
<1> DEFINE op == call[c].op
           n == call[c].at
           f == Script[op][n].what
<1>1. /\ call \in [Client -> CallType] /\ applied \in [Setting -> 0 .. 1] /\ OneInside
      /\ "window" \in Setting
  BY DEF AgreeInv, TypeOK, CallType, Setting
<1>2. \A d \in Client : d # c => call'[d] = call[d]
  BY <1>1 DEF Proceeds, PluginObeys, PluginRefuses, SetState, EndRegister, Advance, Return
<1>3. CASE EndRegister(c)
  <2>1. op = "registerEventCallBack" /\ call'[c].op = "none" /\ state' = state
        /\ (SameWindow' <=> SameWindow)
    BY <1>1, <1>3 DEF EndRegister, Return, None, SameWindow
  <2> QED
    BY <1>2, <2>1 DEF WindowInv
<1>4. CASE PluginObeys(c) \/ PluginRefuses(c) \/ SetState(c)
  <2>1. op \in Method /\ n \in 1 .. Len(Script[op]) /\ n \in Nat
    BY <1>4, ScriptsStart DEF PluginObeys, PluginRefuses, SetState, AgreeInv, TypeOK
  <2>2. call'[c].op \in {op, "none"}
    BY <1>1, <1>4 DEF PluginObeys, PluginRefuses, SetState, Advance, Return, None
  <2>3. \A d \in Client : d # c => call[d].op \notin Method /\ call'[d].op \notin Method
    BY <1>1, <1>2, <2>1 DEF OneInside
  <2> HIDE DEF op, n, f
  <2>4. CASE (PluginObeys(c) \/ PluginRefuses(c)) /\ f = "window"
    <3>1. applied'["window"] = stored["window"] /\ stored' = stored
      BY <1>1, <2>4 DEF PluginObeys, PluginRefuses, Apply, Step, op, n, f
    <3>2. SameWindow'
      BY <3>1 DEF SameWindow
    <3> QED
      BY <3>2 DEF WindowInv
  <2>5. CASE (PluginObeys(c) \/ PluginRefuses(c)) /\ f # "window"
    <3>1. f # "window"
      BY <2>5
    <3>2. applied'["window"] = applied["window"] /\ stored' = stored /\ state' = state
      BY <1>1, <2>5, <3>1 DEF PluginObeys, PluginRefuses, Apply, Step, op, n, f
    <3>3. SameWindow' <=> SameWindow
      BY <3>2 DEF SameWindow
    <3>4. Script[op][n].does = "ask"
      BY <2>5 DEF PluginObeys, PluginRefuses, Step, op, n
    <3>5. op # "setVideoWindow" /\ (op = "start" => n > 1)
      BY <2>1, <3>1, <3>4, Asking DEF f
    <3>6. state' \in Live => SameWindow
      BY <2>3, <3>2, <3>5, Methods DEF WindowInv, op
    <3>7. op \in {"pause", "resume", "start"} => SameWindow
      BY <3>5 DEF WindowInv, op, n
    <3>8. \A d \in Client : call'[d].op \in {"pause", "resume", "start"} => SameWindow
      BY <2>2, <2>3, <3>7, Methods
    <3> QED
      BY <3>3, <3>6, <3>8 DEF WindowInv
  <2>6. CASE SetState(c)
    <3>1. state' = f /\ Script[op][n].does = "set" /\ (SameWindow' <=> SameWindow)
      BY <2>6 DEF SetState, Step, SameWindow, op, n, f
    <3>2. \/ op \in {"pause", "resume"}
          \/ op = "start" /\ n > 1
          \/ op \notin {"start", "pause", "resume"} /\ f \notin Live
      <4>1. \/ op \in {"setDataSource", "prepare", "prepareAsync", "stop", "reset"}
               /\ f \in {"INITED", "PREPARING", "PREPARED", "STOPPED", "IDLE"}
            \/ op = "start" /\ n = 3
            \/ op \in {"pause", "resume"}
        BY <2>1, <3>1, SettingState DEF f
      <4> QED
        BY <4>1 DEF Live
    <3>3. op \in {"pause", "resume"} \/ (op = "start" /\ n > 1) => SameWindow
      BY DEF WindowInv, op, n
    <3>4. state' \in Live => SameWindow
      BY <3>1, <3>2, <3>3
    <3>5. \A d \in Client : call'[d].op \in {"pause", "resume", "start"} => SameWindow
      BY <2>2, <2>3, <3>2, <3>3, Methods
    <3> QED
      BY <3>1, <3>4, <3>5 DEF WindowInv
  <2> QED
    BY <1>4, <2>4, <2>5, <2>6
<1> QED
  BY <1>3, <1>4 DEF Proceeds

LEMMA StepKeepsWindowInv ==
    ASSUME AgreeInv, WindowInv, [Next]_vars PROVE WindowInv'
<1>1. CASE PluginPrepared \/ PluginCompletes \/ EventThread \/ UNCHANGED vars
  <2>1. /\ call' = call /\ applied' = applied /\ stored' = stored
        /\ state' = state \/ state' = "COMPLETED"
    BY <1>1 DEF PluginPrepared, PluginCompletes, EventThread, Listen, Complete,
                CallbackReturns, vars
  <2>2. (SameWindow' <=> SameWindow) /\ (state' \in Live => state \in Live)
    BY <2>1 DEF SameWindow, Live
  <2> QED
    BY <2>1, <2>2 DEF WindowInv
<1> QED
  BY <1>1, EnterKeepsWindowInv, ProceedKeepsWindowInv DEF Next

(* mState agrees with the plug-in whenever no method is running and no     *)
(* event is on its way, for any number of clients, any set of calls and    *)
(* any of the plug-in's calls failing; where the plug-in does not wait for *)
(* its event thread, but for the COMPLETED of an end that came too late.   *)
(* A stream that has ended can be started again, and the window the client *)
(* set is what the plug-in was told, in either case.                       *)
THEOREM StateFollowsPlugin == Spec => []ObjectAndPluginAgree
<1>1. Init => AgreeInv /\ WindowInv
  <2>1. Init => WindowInv
    BY DEF Init, WindowInv, SameWindow, Setting
  <2> QED
    BY <2>1, AgreeInitial
<1>2. AgreeInv /\ WindowInv /\ [Next]_vars => AgreeInv' /\ WindowInv'
  BY StepKeepsAgreeInv, StepKeepsWindowInv
<1>3. ASSUME AgreeInv, WindowInv PROVE ObjectAndPluginAgree
  <2>1. TypeOK /\ StateMatchesPlugin
    BY <1>3 DEF AgreeInv, StateMatchesPlugin, Settled, Quiet
  <2>2. EndedCanRestart
    BY <2>1
    DEF EndedCanRestart, StateMatchesPlugin, Misled, PhasesOf, Accepts, StartAccepts, TypeOK, State
  <2>3. WindowTakesEffect
    BY <1>3, Methods DEF WindowInv, SameWindow, Live, WindowTakesEffect, Quiet, LockIsFree
  <2> QED
    BY <2>1, <2>2, <2>3 DEF ObjectAndPluginAgree
<1> QED
  BY <1>1, <1>2, <1>3, PTL DEF Spec

(* The plug-in is started and invoked only when it is prepared, whatever   *)
(* fails and whether it waits for its event thread or not, unless a late   *)
(* end of a playback before was the last to set mState: mState lets a      *)
(* start or invoke in, and no other method can have moved the plug-in      *)
(* since.                                                                  *)
THEOREM StartsPrepared == Spec => PreparedUnlessLate
<1>1. Init => AgreeInv
  BY AgreeInitial
<1>2. AgreeInv /\ [Next]_vars => AgreeInv'
  BY StepKeepsAgreeInv
<1> DEFINE Used == \A c \in Client : Asks(c, "start") \/ Asks(c, "invoke")
                     => Prepared \/ "state" \in late
<1>3. AgreeInv /\ [Next]_vars => [Used]_vars
  <2> SUFFICES ASSUME AgreeInv, NEW c \in Client, Asks(c, "start") \/ Asks(c, "invoke")
      PROVE Prepared \/ "state" \in late
    OBVIOUS
  <2> DEFINE op == call[c].op
             n == call[c].at
             f == Script[op][n].what
  <2>1. /\ op \in Method /\ n \in 1 .. Len(Script[op]) /\ Script[op][n].does = "ask"
        /\ f \in {"start", "invoke"} /\ Midway(op, n)
    BY DEF Asks, Ask, Step, AgreeInv, TypeOK
  <2>2. (op = "start" /\ n = 2) \/ op = "invoke"
    BY <2>1, Asking
  <2> HIDE DEF op, n, f
  <2>3. Settled /\ state \in {"PREPARED", "RUNNING", "PAUSED", "COMPLETED"}
    BY <2>1, <2>2 DEF Midway, StartAccepts, Accepts
  <2> QED
    BY <2>3 DEF Settled, Misled, Prepared, PhasesOf
<1> QED
  BY <1>1, <1>2, <1>3, PTL DEF Spec, PreparedUnlessLate, Used
=============================================================================
