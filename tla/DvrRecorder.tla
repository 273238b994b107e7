----------------------------- MODULE DvrRecorder -----------------------------
(***************************************************************************)
(* dvr/AmlDVRRecorder.cpp behind the Aml_MP_DVRRecorder_ functions of      *)
(* dvr/Aml_MP_DVR.cpp: a recorder keeps the list of the pids it asked for  *)
(* and tells libDVR the difference when the list changes during a          *)
(* recording.  libDVR is external and records the pids of tape; a call     *)
(* named in RecFaults may fail, and then changes nothing.                  *)
(***************************************************************************)
EXTENDS Integers, Sequences

CONSTANTS
  RecPids,       \* pids of the stream
  RecFaults,     \* library calls that may fail
  Unrecorded,    \* pids whose stream type is not recorded
  Repeats,       \* a list may name a pid twice
  STREAMS_COUNT, \* AML_MP_DVR_STREAMS_COUNT
  MaxAsked       \* bound: streams in one call of setStreams

ASSUME TableAssumption == STREAMS_COUNT \in Nat /\ MaxAsked \in Nat

VARIABLES
  rState,        \* "none" | "opened" | "STARTED" | "PAUSED" | "STOPPED": libDVR's
  mStarted,
  mRecordPids,   \* the pids told to libDVR last
  startPids,     \* mRecStartParams.pids_info
  tape           \* the pids libDVR records

rvars == <<rState, mStarted, mRecordPids, startPids, tape>>

RecOutcome(call) == IF call \in RecFaults THEN BOOLEAN ELSE {TRUE}

RecInit ==
    /\ rState = "none" /\ mStarted = FALSE
    /\ mRecordPids = <<>> /\ startPids = <<>>
    /\ tape = {}

(* The requests.  Main audio and audio description may share a pid: where  *)
(* Repeats holds, a list may name a pid twice.                             *)
NoneTwice(pids) == \A i, j \in DOMAIN pids : pids[i] = pids[j] => i = j
Asked == UNION {{p \in [1 .. n -> RecPids] : Repeats \/ NoneTwice(p)}
                  : n \in 0 .. MaxAsked}

-----------------------------------------------------------------------------
RecCreate ==
    /\ rState = "none"
    /\ rState' = "opened"
    /\ UNCHANGED <<mStarted, mRecordPids, startPids, tape>>

RecDestroy ==
    /\ rState # "none"
    /\ rState' = "none" /\ mStarted' = FALSE
    /\ mRecordPids' = <<>> /\ startPids' = <<>> /\ tape' = {}

(* Streams of another type are left out of the list. *)
Recorded(streams) ==
    LET kept[n \in 0 .. Len(streams)] ==
          IF n = 0 THEN <<>>
          ELSE IF streams[n] \in Unrecorded THEN kept[n - 1]
          ELSE Append(kept[n - 1], streams[n])
    IN  kept[Len(streams)]

Entry(p, action) == [pid |-> p, action |-> action]

(* Compare(u, p): what becomes of pid p of the old list.  It is looked for *)
(* among the new pids and among those already found to be unwanted; an     *)
(* unwanted pid is listed only while the table has room.                   *)
Compare(u, p) ==
    LET same == {j \in DOMAIN u : u[j].pid = p}
        At(j) == [u EXCEPT ![j].action = "KEEP"]
    IN  IF same # {} THEN At(CHOOSE j \in same : \A k \in same : j <= k)
        ELSE IF Len(u) < STREAMS_COUNT - 1 THEN Append(u, Entry(p, "CLOSE"))
        ELSE u

Created(new) == [i \in DOMAIN new |-> Entry(new[i], "CREATE")]

\* Mutant: the last pid of the old list is not compared.
updatePidParamsShort(old, new) ==
    LET after[n \in 0 .. Len(old)] ==
          IF n = 0 THEN Created(new) ELSE Compare(after[n - 1], old[n])
    IN  after[IF old = <<>> THEN 0 ELSE Len(old) - 1]

\* after[n]: when n pids of the old list are compared.
updatePidParams(old, new) ==
    LET after[n \in 0 .. Len(old)] ==
          IF n = 0 THEN Created(new) ELSE Compare(after[n - 1], old[n])
    IN  after[Len(old)]

(* libDVR: what an update leaves on the tape. *)
Update(t, u) ==
    (t \union {u[i].pid : i \in {k \in DOMAIN u : u[k].action = "CREATE"}})
       \ {u[i].pid : i \in {k \in DOMAIN u : u[k].action = "CLOSE"}}

RecSetStreams ==
    /\ rState # "none"
    /\ \E streams \in Asked, ok \in RecOutcome("update") :
         LET new == Recorded(streams)
             u   == updatePidParams(mRecordPids, new)
         IN /\ tape' = IF mStarted /\ ok THEN Update(tape, u) ELSE tape
            /\ IF mStarted /\ ~ok
               THEN UNCHANGED <<mRecordPids, startPids>>
               ELSE mRecordPids' = new /\ startPids' = new
    /\ UNCHANGED <<rState, mStarted>>

(* A recording without pids is not started, and 0 is returned. *)
RecStart ==
    /\ rState \notin {"none", "STARTED", "PAUSED"} /\ startPids # <<>>
    /\ \E ok \in RecOutcome("start") :
         IF ok THEN /\ rState' = "STARTED" /\ mStarted' = TRUE
                    /\ tape' = {startPids[i] : i \in DOMAIN startPids}
         ELSE UNCHANGED <<rState, mStarted, tape>>
    /\ UNCHANGED <<mRecordPids, startPids>>

RecStop ==
    /\ rState \in {"STARTED", "PAUSED"}
    /\ \E ok \in RecOutcome("stop") :
         IF ok THEN rState' = "STOPPED" /\ mStarted' = FALSE /\ tape' = {}
         ELSE UNCHANGED <<rState, mStarted, tape>>
    /\ UNCHANGED <<mRecordPids, startPids>>

RecPause ==
    /\ rState = "STARTED"
    /\ rState' = "PAUSED"
    /\ UNCHANGED <<mStarted, mRecordPids, startPids, tape>>

RecResume ==
    /\ rState = "PAUSED"
    /\ rState' = "STARTED"
    /\ UNCHANGED <<mStarted, mRecordPids, startPids, tape>>

(* What getStatus and the events say of the state. *)
convertToMpDVRRecordState(state) ==
    IF state \in {"STARTED", "STOPPED"} THEN state
    ELSE IF state = "opened" THEN "OPENED" ELSE "CLOSED"

Aml_MP_DVRRecorder ==
    \/ RecCreate \/ RecDestroy \/ RecSetStreams
    \/ RecStart \/ RecPause \/ RecResume \/ RecStop

RecNext == Aml_MP_DVRRecorder

RecSpec == RecInit /\ [][RecNext]_rvars
-----------------------------------------------------------------------------
(***************************************************************************)
(* Properties                                                              *)
(***************************************************************************)
(* While a recording runs libDVR records exactly the pids of the last list *)
(* it accepted, whatever the lists before it were and whichever updates it *)
(* refused, as long as the old and the new list fit its table together:    *)
(* setStreams keeps its own record and libDVR only hears of differences.   *)
TapeIsTheList ==
    mStarted => tape = {mRecordPids[i] : i \in DOMAIN mRecordPids}
=============================================================================
