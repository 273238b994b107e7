----------------------------- MODULE WritePath -----------------------------
(***************************************************************************)
(* The way of the client's data through the player object                  *)
(* (player/Aml_MP_PlayerImpl.cpp): writeData puts it into mTsBuffer while  *)
(* the player prepares or waits for the first ECM, and afterwards hands it *)
(* on, first what is buffered, by way of mWriteBuffer, and then what the   *)
(* call brings.  All of it runs under mLock, except the calls into the     *)
(* codec layer: there start, stop, flush and the end of a preparation come *)
(* in between.                                                             *)
(*                                                                         *)
(* Data is counted in packets, each known by its place in the client's     *)
(* stream; what is written consists of whole packets.                      *)
(***************************************************************************)
EXTENDS Integers, Sequences

CONSTANTS Last,        \* the stream is 1 .. Last
          Ecms,        \* its packets that are ECMs
          Sizes,       \* how many packets a call of writeData brings
          Modes,       \* the kinds of session, see below
          TsSize,      \* the capacity of mTsBuffer
          BufferSize,  \* the capacity of mWriteBuffer
          Word,        \* 2 to the width of size_t
          MaxResets    \* bound on the calls of stop and flush

(* "sync": the client descrambles, and mWaitingEcmMode is synchronous;     *)
(* "async": it is asynchronous, PREPARING waits for an ECM;                *)
(* "plain": no ECM is waited for, PREPARING waits for codecs only.         *)
ASSUME StreamAssumption ==
    /\ Last \in Nat /\ Ecms \subseteq 1 .. Last /\ Sizes \subseteq Nat \ {0}
    /\ Modes \subseteq {"sync", "async", "plain"}
    /\ TsSize \in Nat \ {0} /\ BufferSize \in Nat \ {0}
    /\ Word \in Nat /\ Word > BufferSize /\ MaxResets \in Nat

MaxRetry == 4  \* drainDataFromBuffer_l gives up after as many

VARIABLES mode,    \* mCasHandle, drmMode and mWaitingEcmMode
          state,   \* mState; "idle" means that mPlayer is null
          ts,      \* mTsBuffer
          base,    \* the memory of mWriteBuffer
          offset,  \* its mRangeOffset
          length,  \* its mRangeLength
          firstEcm, \* mFirstEcmWritten
          call,    \* the call of writeData under way
          next,    \* the packet the client writes next
          resets,  \* the number of stops and flushes
          session  \* what was done with the data since the last of them

buffers == <<ts, base, offset, length>>
vars == <<mode, state, buffers, firstEcm, call, next, resets, session>>

(* The locals of writeData, drainDataFromBuffer_l and doWriteData_l:       *)
(*   at       where it stands                                              *)
(*   chunk    what the client brought                                      *)
(*   drains   whether the data is from mWriteBuffer                        *)
(*   data     buffer and size: what doWriteData_l has still to write       *)
(*   part     how much of it comes before the next ECM                     *)
(*   ecm      whether that ECM was found                                   *)
(*   then     where it goes on when it has mLock back                      *)
(*   written  what doWriteData_l returns                                   *)
(*   retry    the retries of drainDataFromBuffer_l                         *)
(* At "fault" a null mPlayer was used, at "wild" memory outside            *)
(* mWriteBuffer; nothing is said of what follows.                          *)
NoCall == [at |-> "none", chunk |-> <<>>, drains |-> FALSE, data |-> <<>>,
           part |-> 0, ecm |-> FALSE, then |-> "done", written |-> 0,
           retry |-> 0]

(* out: the packets that left for the codec layer or, ECMs, for the CAS    *)
(* client, in order; from: the first packet since the buffers were reset;  *)
(* keyed: the CAS client has seen an ECM; clean: the reset met no call in  *)
(* its window, and the parser took all it was given since; missed: the     *)
(* search for the first ECM overlooked one.                                *)
NewSession(c) == [out |-> <<>>, from |-> next, keyed |-> FALSE, clean |-> c,
                  missed |-> FALSE]

Places == {"none", "drain", "split", "part", "window", "back", "done",
           "fault", "wild"}

TypeOK ==
    /\ mode \in Modes /\ state \in {"idle", "preparing", "running"}
    /\ ts \in Seq(1 .. Last) /\ Len(ts) <= TsSize
    /\ base \in Seq(0 .. Last) /\ Len(base) = BufferSize
    /\ offset \in 0 .. Word - 1 /\ length \in 0 .. Word - 1
    /\ firstEcm \in BOOLEAN
    /\ call \in [at : Places, chunk : Seq(1 .. Last), drains : BOOLEAN,
                 data : Seq(0 .. Last), part : Nat, ecm : BOOLEAN,
                 then : {"part", "done"}, written : Nat, retry : 0 .. MaxRetry]
    /\ next \in 1 .. Last + 1 /\ resets \in 0 .. MaxResets
    /\ session \in [out : Seq(0 .. Last), from : 1 .. Last + 1,
                    keyed : BOOLEAN, clean : BOOLEAN, missed : BOOLEAN]

Init ==
    /\ mode \in Modes /\ state = "idle"
    /\ ts = <<>> /\ base = [i \in 1 .. BufferSize |-> 0]
    /\ offset = 0 /\ length = 0
    /\ firstEcm = FALSE /\ call = NoCall /\ next = 1 /\ resets = 0
    /\ session = [out |-> <<>>, from |-> 1, keyed |-> FALSE, clean |-> TRUE,
                  missed |-> FALSE]

-----------------------------------------------------------------------------
Least(m, n) == IF m <= n THEN m ELSE n

(* findEcmPacket reads one byte behind the packet it looks at, so whether  *)
(* it sees an ECM in the last packet of the buffer hangs on what lies      *)
(* there.  The result is what precedes the ECM, and whether there is one.  *)
Found(data) ==
    LET at == {i \in 1 .. Len(data) : data[i] \in Ecms}
        First(A) == CHOOSE i \in A : \A j \in A : i <= j
        Of(A) == IF A = {} THEN [part |-> Len(data), ecm |-> FALSE]
                 ELSE [part |-> First(A) - 1, ecm |-> TRUE]
    IN  {Of(at), Of(at \ {Len(data)})}

(* Mutant: what comes later queues up behind what is buffered. *)
BuffersBehind(first) ==
    state = "preparing" \/ (mode = "sync" /\ ~first) \/ ts # <<>>

Buffers(first) == state = "preparing" \/ (mode = "sync" /\ ~first)

(* The first lines of writeData: whether the call brings the first ECM,    *)
(* which is then processed at once.                                        *)
FirstEcm(chunk) ==
    IF mode = "sync" /\ ~firstEcm THEN {f.ecm : f \in Found(chunk)}
    ELSE {firstEcm}

Looked(chunk, first) ==
    [session EXCEPT
        !.keyed = @ \/ (first /\ ~firstEcm),
        !.missed = @ \/ (mode = "sync" /\ ~first /\ chunk[Len(chunk)] \in Ecms)]

(* writeData with data for mTsBuffer, and for the parser if the player     *)
(* prepares.  The parser says how much of it the demux took, and so does   *)
(* the call, though all of it is in mTsBuffer.                             *)
WriteBuffered ==
    /\ call.at = "none" /\ state # "idle" /\ next <= Last
    /\ \E n \in Sizes :
       LET chunk == [i \in 1 .. Least(n, Last + 1 - next) |-> next + i - 1]
       IN  \E first \in FirstEcm(chunk) :
           /\ Buffers(first)
           /\ firstEcm' = first
           /\ IF TsSize - Len(ts) < Len(chunk)
              THEN /\ session' = Looked(chunk, first)
                   /\ UNCHANGED <<ts, next>>
              ELSE /\ ts' = ts \o chunk
                   /\ \E took \in IF state = "preparing" THEN 0 .. Len(chunk)
                                  ELSE {Len(chunk)} :
                      /\ next' = next + took
                      /\ session' = [Looked(chunk, first) EXCEPT
                                         !.clean = @ /\ took = Len(chunk)]
    /\ UNCHANGED <<mode, state, base, offset, length, call, resets>>

MustDrain == ts # <<>> \/ length # 0

(* writeData with data for the codec layer. *)
WriteThrough ==
    /\ call.at = "none" /\ state # "idle" /\ next <= Last
    /\ \E n \in Sizes :
       LET chunk == [i \in 1 .. Least(n, Last + 1 - next) |-> next + i - 1]
       IN  \E first \in FirstEcm(chunk) :
           /\ ~Buffers(first)
           /\ firstEcm' = first
           /\ session' = Looked(chunk, first)
           /\ call' = [NoCall EXCEPT !.chunk = chunk, !.data = chunk,
                           !.at = IF MustDrain THEN "drain" ELSE "split",
                           !.drains = MustDrain]
    /\ UNCHANGED <<mode, state, buffers, next, resets>>

(* The loop of drainDataFromBuffer_l as far as doWriteData_l: mWriteBuffer *)
(* is filled when it is empty.                                             *)
Fill ==
    LET n == Least(BufferSize, Len(ts))
    IN  /\ call.at = "drain" /\ length = 0
        /\ base' = SubSeq(ts, 1, n) \o SubSeq(base, n + 1, BufferSize)
        /\ ts' = SubSeq(ts, n + 1, Len(ts))
        /\ offset' = 0 /\ length' = n
        /\ call' = [call EXCEPT !.at = "split", !.written = 0,
                        !.data = SubSeq(ts, 1, n)]
        /\ UNCHANGED <<mode, state, firstEcm, next, resets, session>>

Unwritten == SubSeq(base, offset + 1, offset + length)

Refill ==
    /\ call.at = "drain" /\ length # 0
    /\ call' = IF offset + length <= BufferSize
               THEN [call EXCEPT !.at = "split", !.written = 0, !.data = Unwritten]
               ELSE [call EXCEPT !.at = "wild"]
    /\ UNCHANGED <<mode, state, buffers, firstEcm, next, resets, session>>

(* doWriteData_l looks for the next ECM if it descrambles.                 *)
Split ==
    /\ call.at = "split"
    /\ IF call.data = <<>> THEN call' = [call EXCEPT !.at = "done"]
       ELSE \E f \in IF mode = "sync" THEN Found(call.data)
                     ELSE {[part |-> Len(call.data), ecm |-> FALSE]} :
            call' = [call EXCEPT !.at = "part", !.part = f.part, !.ecm = f.ecm]
    /\ UNCHANGED <<mode, state, buffers, firstEcm, next, resets, session>>

(* mLock is given up for the call into the codec layer. *)
Unlock ==
    /\ call.at = "part" /\ call.part > 0
    /\ call' = [call EXCEPT !.at = "window"]
    /\ UNCHANGED <<mode, state, buffers, firstEcm, next, resets, session>>

(* The packets before the ECM are written: the ECM goes to the CAS client. *)
ProcessEcm ==
    /\ call.at = "part" /\ call.part = 0
    /\ call.ecm => state # "idle"
    /\ IF call.ecm
       THEN /\ call' = [call EXCEPT !.at = "split", !.data = Tail(@),
                            !.written = @ + 1]
            /\ session' = [session EXCEPT !.out = Append(@, Head(call.data)),
                               !.keyed = TRUE]
       ELSE call' = [call EXCEPT !.at = "split"] /\ UNCHANGED session
    /\ UNCHANGED <<mode, state, buffers, firstEcm, next, resets>>

(* The codec layer takes n packets: all of them, or fewer if it is the CTC *)
(* player's library.                                                       *)
Take ==
    /\ call.at = "window" /\ state # "idle"
    /\ \E n \in 1 .. call.part :
       /\ session' = [session EXCEPT !.out = @ \o SubSeq(call.data, 1, n)]
       /\ call' = [call EXCEPT
              !.at = "back", !.then = IF mode = "sync" THEN "part" ELSE "done",
              !.data = SubSeq(@, n + 1, Len(@)),
              !.part = @ - n, !.written = @ + n]
    /\ UNCHANGED <<mode, state, buffers, firstEcm, next, resets>>

GivesUp == mode # "sync" \/ call.written = 0

(* The codec layer takes nothing: the loop over the ECMs goes on trying    *)
(* once it has written something.                                          *)
Refuse ==
    /\ call.at = "window" /\ state # "idle"
    /\ call' = [call EXCEPT !.at = "back",
                    !.then = IF GivesUp THEN "done" ELSE "part"]
    /\ UNCHANGED <<mode, state, buffers, firstEcm, next, resets, session>>

Relock ==
    /\ call.at = "back"
    /\ call' = [call EXCEPT !.at = call.then]
    /\ UNCHANGED <<mode, state, buffers, firstEcm, next, resets, session>>

(* mPlayer or mCasHandle was cleared while mLock was free. *)
Fault ==
    /\ state = "idle"
    /\ call.at = "window" \/ (call.at = "part" /\ call.part = 0 /\ call.ecm)
    /\ call' = [call EXCEPT !.at = "fault"]
    /\ UNCHANGED <<mode, state, buffers, firstEcm, next, resets, session>>

-----------------------------------------------------------------------------

NewOffset(n) == (offset + n) % Word
NewLength(n) == (length + Word - n) % Word

(* doWriteData_l returns to drainDataFromBuffer_l: the range moves on, the *)
(* loop goes round, gives up, or ends and makes way for the client's data. *)
Drained ==
    LET n == call.written
        left == ts # <<>> \/ NewLength(n) # 0
    IN  /\ call.at = "done" /\ call.drains
        /\ offset' = NewOffset(n) /\ length' = NewLength(n)
        /\ call' = IF ~left
                   THEN [call EXCEPT !.at = "split", !.drains = FALSE,
                             !.data = call.chunk, !.written = 0]
                   ELSE IF n > 0 THEN [call EXCEPT !.at = "drain"]
                   ELSE IF call.retry >= MaxRetry THEN NoCall
                   ELSE [call EXCEPT !.at = "drain", !.retry = @ + 1]
        /\ UNCHANGED <<mode, state, ts, base, firstEcm, next, resets, session>>

(* writeData returns what doWriteData_l wrote, or -1. *)
Return ==
    /\ call.at = "done" /\ ~call.drains
    /\ next' = next + call.written
    /\ call' = NoCall
    /\ UNCHANGED <<mode, state, buffers, firstEcm, resets, session>>

-----------------------------------------------------------------------------
LockIsFree == call.at \in {"none", "window", "back"}

(* prepare_l: the parser is open in PREPARING. *)
Start ==
    /\ LockIsFree /\ state = "idle"
    /\ state' \in IF mode = "async" THEN {"preparing"}
                  ELSE {"preparing", "running"}
    /\ UNCHANGED <<mode, buffers, firstEcm, call, next, resets, session>>

(* programEventCallback, finishPreparingIfNeeded_l: an ECM comes out of    *)
(* the data the parser was given.                                          *)
Prepared ==
    /\ LockIsFree /\ state = "preparing"
    /\ mode = "async" => \E i \in 1 .. Len(ts) : ts[i] \in Ecms
    /\ state' = "running"
    /\ UNCHANGED <<mode, buffers, firstEcm, call, next, resets, session>>

(* Mutant: the range of mWriteBuffer survives. *)
ResetTsBuffer ==
    /\ ts' = <<>> /\ firstEcm' = FALSE
    /\ UNCHANGED <<base, offset, length>>

(* Mutant: the next session does not wait for an ECM. *)
ResetBuffersOnly ==
    /\ ts' = <<>> /\ offset' = 0 /\ length' = 0
    /\ UNCHANGED <<base, firstEcm>>

ResetDrmVariables ==
    /\ ts' = <<>> /\ offset' = 0 /\ length' = 0 /\ firstEcm' = FALSE
    /\ UNCHANGED base

(* stop: reset_l. *)
Stop ==
    /\ LockIsFree /\ state # "idle" /\ resets < MaxResets
    /\ state' = "idle" /\ resets' = resets + 1
    /\ ResetDrmVariables
    /\ session' = NewSession(call.at = "none")
    /\ UNCHANGED <<mode, call, next>>

(* flush of a codec layer that cannot: the player waits for an ECM again.  *)
(* (A codec layer that can flush leaves all this alone.)                   *)
Flush ==
    /\ LockIsFree /\ state = "running" /\ mode # "plain" /\ resets < MaxResets
    /\ state' = IF mode = "async" THEN "preparing" ELSE "running"
    /\ resets' = resets + 1
    /\ ResetDrmVariables
    /\ session' = NewSession(call.at = "none")
    /\ UNCHANGED <<mode, call, next>>

Writer ==
    \/ WriteBuffered \/ WriteThrough \/ Fill \/ Refill \/ Split \/ Unlock
    \/ ProcessEcm \/ Take \/ Refuse \/ Relock \/ Fault \/ Drained
    \/ Return

Next == Writer \/ Start \/ Prepared \/ Stop \/ Flush

(* The client writes on, starts a stopped player and has a parser that     *)
(* ends its search; the codec layer takes data again and again.            *)
Spec ==
    /\ Init /\ [][Next]_vars
    /\ WF_vars(Writer) /\ WF_vars(Start) /\ WF_vars(Prepared) /\ SF_vars(Take)

-----------------------------------------------------------------------------
(* What of mWriteBuffer has not left yet: doWriteData_l is ahead of the    *)
(* range that drainDataFromBuffer_l will set when it returns.              *)
Held ==
    IF call.drains /\ call.at # "drain"
    THEN SubSeq(base, offset + 1 + call.written, offset + length)
    ELSE Unwritten

(* What the client has been told was taken, and what has left of the data  *)
(* of the call that has not returned yet.                                  *)
Progress == IF call.drains THEN 0 ELSE call.written

(* However the codec layer and the client cut it, the data accepted leaves *)
(* once and in order, what is buffered before what is not: what is out, in *)
(* mWriteBuffer and in mTsBuffer is the stream since the last reset up to  *)
(* what the client was told, and a call that returns -1 has taken nothing. *)
(* No range outside mWriteBuffer is read.  Both need that no stop or flush *)
(* met a call that had given up mLock.                                     *)
InOrderOnce ==
    session.clean =>
        /\ session.out \o Held \o ts =
               [i \in 1 .. next + Progress - session.from |->
                    session.from + i - 1]
        /\ call.at \notin {"wild", "fault"}

(* With the synchronous ECM mode no data goes to the codec layer before    *)
(* the CAS client has seen an ECM, after a flush as after a start.         *)
KeyedBeforeData ==
    mode = "sync" /\ session.clean /\ session.out # <<>> => session.keyed

DataLeavesRight == TypeOK /\ InOrderOnce /\ KeyedBeforeData

(* A client that writes on gets rid of its stream, whatever stops and      *)
(* flushes it goes through, unless one met a call in its window: neither   *)
(* the wait for an ECM nor the retries of the two loops go on for ever     *)
(* when ECMs are closer to each other than mTsBuffer is long and none is   *)
(* overlooked.                                                             *)
StreamIsAccepted == <>(next > Last \/ ~session.clean \/ session.missed)
=============================================================================
