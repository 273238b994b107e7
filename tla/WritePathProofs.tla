-------------------------- MODULE WritePathProofs --------------------------
(***************************************************************************)
(* What is proved of the client's data on its way through the player: it   *)
(* leaves once and in order, and with the synchronous ECM mode none of it  *)
(* before an ECM was seen.  The proofs hold for a stream of any length     *)
(* with its ECMs anywhere, for any sizes of the writes and the buffers and *)
(* any number of stops and flushes.                                        *)
(***************************************************************************)
EXTENDS WritePath, WellFoundedInduction, TLAPS

(* The packets of s are those of the stream from packet a on.              *)
IsRun(s, a) == \A i \in 1 .. Len(s) : s[i] = a + i - 1

Busy == call.at # "none"
Active == call.at \notin {"none", "drain"}

(* How far doWriteData_l is ahead of the range of mWriteBuffer.            *)
Ahead == IF call.drains /\ Active THEN call.written ELSE 0

(* The first packet that has not left.                                     *)
Front == session.from + Len(session.out)

(* What a call has in hand, met by a reset or not.                         *)
CallInv ==
    /\ Busy => IsRun(call.chunk, next) /\ next + Len(call.chunk) <= Last + 1
    /\ call.at \in {"part", "window", "back"} =>
           /\ call.part <= Len(call.data)
           /\ call.ecm => call.part < Len(call.data)
    /\ Busy /\ ~call.drains => Len(call.data) + call.written = Len(call.chunk)
    /\ call.at = "drain" => call.drains
    /\ ~Busy => ~call.drains /\ call.written = 0
    /\ mode = "sync" /\ firstEcm => session.keyed

(* The buffers hold the stream from the front on, one behind the other;    *)
(* what doWriteData_l has still to write begins there too.                 *)
Contents ==
    /\ offset + length <= BufferSize /\ Ahead <= length
    /\ IsRun(session.out, session.from)
    /\ \A i \in 1 .. length - Ahead : base[offset + Ahead + i] = Front + i - 1
    /\ IsRun(ts, Front + length - Ahead)
    /\ Front + length - Ahead + Len(ts) = next + Progress
    /\ Active => IsRun(call.data, Front)
    /\ call.drains /\ Active => Len(call.data) + call.written = length
    /\ Busy /\ ~call.drains => ts = <<>> /\ length = 0

(* No call in hand has lost its player, and none began without an ECM.     *)
Served ==
    /\ Busy => state # "idle" /\ call.at \notin {"wild", "fault"}
    /\ mode = "sync" /\ Busy => firstEcm
    /\ mode = "sync" /\ session.out # <<>> => session.keyed

PathInv == TypeOK /\ CallInv /\ (session.clean => Contents /\ Served)

-----------------------------------------------------------------------------
(* Arithmetic of size_t, where it does not wrap.                           *)
LEMMA ModSmall == ASSUME NEW w \in Nat \ {0}, NEW x \in 0 .. w - 1 PROVE x % w = x
  OBVIOUS

LEMMA ModWraps == ASSUME NEW w \in Nat \ {0}, NEW x \in 0 .. w - 1 PROVE (x + w) % w = x
  OBVIOUS

LEMMA ModRange == ASSUME NEW w \in Nat \ {0}, NEW x \in Nat PROVE x % w \in 0 .. w - 1
  OBVIOUS

(* Sequences cut in two, and put together.                                 *)
LEMMA Cut ==
    ASSUME NEW T, NEW s \in Seq(T), NEW n \in 0 .. Len(s)
    PROVE  /\ SubSeq(s, 1, n) \in Seq(T) /\ Len(SubSeq(s, 1, n)) = n
           /\ SubSeq(s, n + 1, Len(s)) \in Seq(T) /\ Len(SubSeq(s, n + 1, Len(s))) = Len(s) - n
           /\ \A i \in 1 .. n : SubSeq(s, 1, n)[i] = s[i]
           /\ \A i \in 1 .. Len(s) - n : SubSeq(s, n + 1, Len(s))[i] = s[n + i]
  OBVIOUS

LEMMA Slice ==
    ASSUME NEW T, NEW s \in Seq(T), NEW a \in Nat, NEW n \in Nat, a + n <= Len(s)
    PROVE  /\ SubSeq(s, a + 1, a + n) \in Seq(T) /\ Len(SubSeq(s, a + 1, a + n)) = n
           /\ \A i \in 1 .. n : SubSeq(s, a + 1, a + n)[i] = s[a + i]
  OBVIOUS

LEMMA FunctionIsSequence ==
    ASSUME NEW T, NEW n \in Nat, NEW f \in [1 .. n -> T]
    PROVE  f \in Seq(T) /\ Len(f) = n
  OBVIOUS

LEMMA RunCut ==
    ASSUME NEW T, NEW s \in Seq(T), NEW a \in Int, IsRun(s, a), NEW n \in 0 .. Len(s)
    PROVE  IsRun(SubSeq(s, 1, n), a) /\ IsRun(SubSeq(s, n + 1, Len(s)), a + n)
<1>1. Len(s) \in Nat /\ n \in Nat /\ n <= Len(s)
  OBVIOUS
<1>2. \A i \in 1 .. n : SubSeq(s, 1, n)[i] = a + i - 1
  BY <1>1, Cut DEF IsRun
<1>3. \A i \in 1 .. Len(s) - n : SubSeq(s, n + 1, Len(s))[i] = a + n + i - 1
  <2> SUFFICES ASSUME NEW i \in 1 .. Len(s) - n
               PROVE  SubSeq(s, n + 1, Len(s))[i] = a + n + i - 1
    OBVIOUS
  <2>1. n + i \in 1 .. Len(s)
    BY <1>1
  <2>2. s[n + i] = a + (n + i) - 1
    BY <2>1 DEF IsRun
  <2> QED
    BY <1>1, <2>2, Cut
<1> QED
  BY <1>2, <1>3, Cut DEF IsRun

LEMMA RunJoin ==
    ASSUME NEW T, NEW s \in Seq(T), NEW t \in Seq(T), NEW a \in Int,
           IsRun(s, a), IsRun(t, a + Len(s))
    PROVE  s \o t \in Seq(T) /\ Len(s \o t) = Len(s) + Len(t) /\ IsRun(s \o t, a)
<1>1. /\ s \o t \in Seq(T) /\ Len(s \o t) = Len(s) + Len(t)
      /\ \A i \in 1 .. Len(s) + Len(t) :
            (s \o t)[i] = IF i <= Len(s) THEN s[i] ELSE t[i - Len(s)]
  OBVIOUS
<1>2. Len(s) \in Nat /\ Len(t) \in Nat
  OBVIOUS
<1>3. ASSUME NEW i \in 1 .. Len(s) + Len(t) PROVE (s \o t)[i] = a + i - 1
  <2>1. CASE i <= Len(s)
    BY <1>1, <1>2, <2>1 DEF IsRun
  <2>2. CASE i > Len(s)
    <3>1. i - Len(s) \in 1 .. Len(t)
      BY <1>2, <2>2
    <3>2. t[i - Len(s)] = a + Len(s) + (i - Len(s)) - 1
      BY <3>1 DEF IsRun
    <3> QED
      BY <1>1, <1>2, <2>2, <3>2
  <2> QED
    BY <1>2, <2>1, <2>2
<1> QED
  BY <1>1, <1>3 DEF IsRun

-----------------------------------------------------------------------------
Calls == [at : Places, chunk : Seq(1 .. Last), drains : BOOLEAN,
          data : Seq(0 .. Last), part : Nat, ecm : BOOLEAN,
          then : {"part", "done"}, written : Nat, retry : 0 .. MaxRetry]

Sessions == [out : Seq(0 .. Last), from : 1 .. Last + 1,
             keyed : BOOLEAN, clean : BOOLEAN, missed : BOOLEAN]

(* The types, field by field.                                              *)
LEMMA Types ==
    ASSUME PathInv
    PROVE  /\ Last \in Nat /\ BufferSize \in Nat \ {0} /\ TsSize \in Nat \ {0}
           /\ Word \in Nat \ {0} /\ Word > BufferSize
           /\ ts \in Seq(1 .. Last) /\ Len(ts) \in Nat /\ Len(ts) <= TsSize
           /\ base \in Seq(0 .. Last) /\ Len(base) = BufferSize
           /\ offset \in Nat /\ length \in Nat
           /\ call \in Calls /\ call.chunk \in Seq(1 .. Last) /\ call.data \in Seq(0 .. Last)
           /\ Len(call.chunk) \in Nat /\ Len(call.data) \in Nat
           /\ call.part \in Nat /\ call.written \in Nat
           /\ next \in 1 .. Last + 1
           /\ session \in Sessions /\ session.out \in Seq(0 .. Last)
           /\ Len(session.out) \in Nat /\ session.from \in 1 .. Last + 1
           /\ call.at \in Places
           /\ call.drains \in BOOLEAN /\ call.ecm \in BOOLEAN
           /\ session.clean \in BOOLEAN /\ session.keyed \in BOOLEAN
<1>1. TypeOK
  BY DEF PathInv
<1>2. call \in Calls /\ session \in Sessions
  BY <1>1 DEF TypeOK, Calls, Sessions
<1>3. /\ call.chunk \in Seq(1 .. Last) /\ call.data \in Seq(0 .. Last)
      /\ call.part \in Nat /\ call.written \in Nat /\ call.at \in Places
      /\ call.drains \in BOOLEAN /\ call.ecm \in BOOLEAN
  BY <1>2 DEF Calls
<1>4. /\ session.out \in Seq(0 .. Last) /\ session.from \in 1 .. Last + 1
      /\ session.clean \in BOOLEAN /\ session.keyed \in BOOLEAN
  BY <1>2 DEF Sessions
<1>5. /\ Last \in Nat /\ BufferSize \in Nat \ {0} /\ TsSize \in Nat \ {0}
      /\ Word \in Nat \ {0} /\ Word > BufferSize
  BY StreamAssumption
<1>6. /\ ts \in Seq(1 .. Last) /\ Len(ts) <= TsSize
      /\ base \in Seq(0 .. Last) /\ Len(base) = BufferSize
      /\ offset \in Nat /\ length \in Nat /\ next \in 1 .. Last + 1
  BY <1>1, <1>5 DEF TypeOK
<1> QED
  BY <1>2, <1>3, <1>4, <1>5, <1>6

LEMMA InitPath == Init => PathInv
<1> SUFFICES ASSUME Init PROVE PathInv
  OBVIOUS
<1>1. /\ Last \in Nat /\ BufferSize \in Nat \ {0} /\ TsSize \in Nat \ {0}
      /\ Word \in Nat \ {0} /\ Word > BufferSize /\ MaxResets \in Nat
      /\ Modes \subseteq {"sync", "async", "plain"}
  BY StreamAssumption
<1>2. call = NoCall /\ NoCall \in Calls
  BY DEF Init, NoCall, Calls, Places, MaxRetry
<1>3. session \in Sessions /\ session.out = <<>> /\ session.from = 1 /\ session.keyed = FALSE
  BY <1>1 DEF Init, Sessions
<1>4. /\ ts = <<>> /\ base = [i \in 1 .. BufferSize |-> 0] /\ offset = 0 /\ length = 0
      /\ firstEcm = FALSE /\ next = 1 /\ resets = 0 /\ mode \in Modes /\ state = "idle"
  BY DEF Init
<1>5. TypeOK
  <2>1. base \in Seq(0 .. Last) /\ Len(base) = BufferSize
    BY <1>1, <1>4
  <2>2. ts \in Seq(1 .. Last) /\ Len(ts) <= TsSize
    BY <1>1, <1>4
  <2>3. /\ offset \in 0 .. Word - 1 /\ length \in 0 .. Word - 1
        /\ next \in 1 .. Last + 1 /\ resets \in 0 .. MaxResets
        /\ state \in {"idle", "preparing", "running"} /\ firstEcm \in BOOLEAN
    <3>1. 0 \in 0 .. Word - 1 /\ 1 \in 1 .. Last + 1 /\ 0 \in 0 .. MaxResets
      BY <1>1
    <3> QED
      BY <1>4, <3>1
  <2>4. call \in Calls
    BY <1>2
  <2> QED
    BY <1>3, <1>4, <2>1, <2>2, <2>3, <2>4 DEF TypeOK, Calls, Sessions
<1>6. call.at = "none" /\ call.drains = FALSE /\ call.written = 0
  BY <1>2 DEF NoCall
<1>7. CallInv
  BY <1>4, <1>6 DEF CallInv, Busy
<1>8. Ahead = 0 /\ Front = 1 /\ Progress = 0
  BY <1>3, <1>6 DEF Ahead, Front, Progress
<1>9. Contents
  BY <1>1, <1>3, <1>4, <1>6, <1>8 DEF Contents, Busy, Active, IsRun
<1>10. Served
  BY <1>3, <1>6 DEF Served, Busy
<1> QED
  BY <1>5, <1>7, <1>9, <1>10 DEF PathInv

(* A step of the call that touches nothing but where it stands and how its *)
(* data falls into parts.                                                  *)
LEMMA MoveKeeps ==
    ASSUME PathInv, Active, UNCHANGED <<mode, state, buffers, firstEcm, next, resets, session>>,
           call' \in Calls, Active', call'.chunk = call.chunk, call'.drains = call.drains,
           call'.data = call.data, call'.written = call.written,
           call'.at \in {"part", "window", "back"} =>
               /\ call'.part <= Len(call.data)
               /\ call'.ecm => call'.part < Len(call.data),
           session.clean => call'.at \notin {"wild", "fault"}
    PROVE  PathInv'
<1>1. /\ mode' = mode /\ state' = state /\ ts' = ts /\ base' = base /\ offset' = offset
      /\ length' = length /\ firstEcm' = firstEcm /\ next' = next /\ resets' = resets
      /\ session' = session
  BY DEF buffers
<1>2. TypeOK'
  <2>1. TypeOK
    BY DEF PathInv
  <2>2. call' \in Calls
    OBVIOUS
  <2> QED
    BY <1>1, <2>1, <2>2 DEF TypeOK, Calls
<1>3. Busy /\ Busy' /\ call'.at # "drain" /\ call.at # "drain"
  BY DEF Active, Busy
<1>4. CallInv'
  BY <1>1, <1>3 DEF PathInv, CallInv, IsRun
<1>5. Ahead' = Ahead /\ Front' = Front /\ Progress' = Progress
  BY <1>1 DEF Ahead, Front, Progress
<1>6. ASSUME session.clean PROVE Contents' /\ Served'
  <2>1. Contents /\ Served
    BY <1>6 DEF PathInv
  <2>2. Contents'
    BY <1>1, <1>3, <1>5, <2>1 DEF Contents, IsRun
  <2>3. Served'
    BY <1>1, <1>3, <1>6, <2>1 DEF Served
  <2> QED
    BY <2>2, <2>3
<1> QED
  BY <1>1, <1>2, <1>4, <1>6 DEF PathInv

(* A set of positions has a first one.                                     *)
LEMMA FirstOf ==
    ASSUME NEW S \in SUBSET Nat, S # {}
    PROVE  \E i \in S : \A j \in S : i <= j
<1> DEFINE R == OpToRel(<, Nat)
<1>1. IsWellFoundedOn(R, Nat)
  BY NatLessThanWellFounded
<1>2. \A i, j \in Nat : <<i, j>> \in R <=> i < j
  BY DEF OpToRel
<1> HIDE DEF R
<1>3. S \subseteq Nat /\ S # {}
  OBVIOUS
<1>4. \E i \in S : \A j \in S : ~ (<<j, i>> \in R)
  BY <1>1, <1>3, WFMin
<1> QED
  <2>1. PICK i \in S : \A j \in S : ~ (<<j, i>> \in R)
    BY <1>4
  <2>2. \A j \in S : i \in Nat /\ j \in Nat /\ ~(j < i)
    BY <1>2, <1>3, <2>1
  <2>3. \A j \in S : i <= j
    BY <2>2
  <2> QED
    BY <2>3

(* The search for an ECM finds none, or one behind what precedes it.       *)
LEMMA FoundFits ==
    ASSUME NEW data \in Seq(0 .. Last), data # <<>>, NEW f \in Found(data)
    PROVE  /\ f.part \in Nat /\ f.ecm \in BOOLEAN /\ f.part <= Len(data)
           /\ f.ecm => f.part < Len(data)
<1> DEFINE at == {i \in 1 .. Len(data) : data[i] \in Ecms}
           First(A) == CHOOSE i \in A : \A j \in A : i <= j
           Of(A) == IF A = {} THEN [part |-> Len(data), ecm |-> FALSE]
                    ELSE [part |-> First(A) - 1, ecm |-> TRUE]
<1>1. f = Of(at) \/ f = Of(at \ {Len(data)})
  BY DEF Found
<1>2. ASSUME NEW A \in SUBSET (1 .. Len(data)), f = Of(A)
      PROVE  /\ f.part \in Nat /\ f.ecm \in BOOLEAN /\ f.part <= Len(data)
             /\ f.ecm => f.part < Len(data)
  <2>1. CASE A = {}
    BY <1>2, <2>1
  <2>2. CASE A # {}
    <3>1. A \in SUBSET Nat
      OBVIOUS
    <3>2. \E i \in A : \A j \in A : i <= j
      BY <2>2, <3>1, FirstOf
    <3>3. First(A) \in A
      BY <3>2
    <3>4. First(A) \in 1 .. Len(data)
      BY <3>3
    <3>5. f = [part |-> First(A) - 1, ecm |-> TRUE]
      BY <1>2, <2>2
    <3> HIDE DEF First
    <3> QED
      BY <3>4, <3>5
  <2> QED
    BY <2>1, <2>2
<1>3. at \in SUBSET (1 .. Len(data)) /\ at \ {Len(data)} \in SUBSET (1 .. Len(data))
  OBVIOUS
<1> HIDE DEF at, First, Of
<1> QED
  BY <1>1, <1>2, <1>3

LEMMA SplitKeeps == ASSUME PathInv, Split PROVE PathInv'
<1>1. /\ call.at = "split"
      /\ UNCHANGED <<mode, state, buffers, firstEcm, next, resets, session>>
  BY DEF Split
<1>2. call \in Calls /\ call.data \in Seq(0 .. Last) /\ Len(call.data) \in Nat
  BY Types
<1>3. CASE call' = [call EXCEPT !.at = "done"]
  <2>1. /\ call' \in Calls /\ call'.at = "done" /\ call'.chunk = call.chunk
        /\ call'.drains = call.drains /\ call'.data = call.data /\ call'.written = call.written
    BY <1>2, <1>3 DEF Calls, Places
  <2>2. Active /\ Active'
    BY <1>1, <2>1 DEF Active
  <2> QED
    BY <1>1, <2>1, <2>2, MoveKeeps
<1>4. ASSUME NEW p \in Nat, NEW e \in BOOLEAN, p <= Len(call.data), e => p < Len(call.data),
             call' = [call EXCEPT !.at = "part", !.part = p, !.ecm = e]
      PROVE  PathInv'
  <2>1. /\ call' \in Calls /\ call'.at = "part" /\ call'.chunk = call.chunk
        /\ call'.drains = call.drains /\ call'.data = call.data /\ call'.written = call.written
        /\ call'.part = p /\ call'.ecm = e
    BY <1>2, <1>4 DEF Calls, Places
  <2>2. Active /\ Active'
    BY <1>1, <2>1 DEF Active
  <2> QED
    BY <1>1, <1>4, <2>1, <2>2, MoveKeeps
<1>5. CASE call.data # <<>>
  <2>1. PICK f \in IF mode = "sync" THEN Found(call.data)
                   ELSE {[part |-> Len(call.data), ecm |-> FALSE]} :
             call' = [call EXCEPT !.at = "part", !.part = f.part, !.ecm = f.ecm]
    BY <1>5 DEF Split
  <2>2. /\ f.part \in Nat /\ f.ecm \in BOOLEAN /\ f.part <= Len(call.data)
        /\ f.ecm => f.part < Len(call.data)
    <3>1. CASE mode = "sync"
      <4>1. f \in Found(call.data)
        BY <2>1, <3>1
      <4> QED
        BY <1>2, <1>5, <4>1, FoundFits
    <3>2. CASE mode # "sync"
      <4>1. f = [part |-> Len(call.data), ecm |-> FALSE]
        BY <2>1, <3>2
      <4> QED
        BY <1>2, <4>1
    <3> QED
      BY <3>1, <3>2
  <2> QED
    BY <1>4, <2>1, <2>2
<1>6. CASE call.data = <<>>
  BY <1>3, <1>6 DEF Split
<1> QED
  BY <1>5, <1>6

LEMMA LockKeeps == ASSUME PathInv, Unlock \/ Refuse \/ Relock PROVE PathInv'
<1>1. /\ call.at \in {"part", "window", "back"}
      /\ UNCHANGED <<mode, state, buffers, firstEcm, next, resets, session>>
  BY DEF Unlock, Refuse, Relock
<1>2. call \in Calls /\ call.then \in {"part", "done"}
  BY Types DEF Calls
<1>3. PICK a \in {"part", "window", "back", "done"}, b \in {"part", "done"} :
        call' = [call EXCEPT !.at = a, !.then = b]
  <2>1. CASE Unlock
    <3>1. call' = [call EXCEPT !.at = "window"]
      BY <2>1 DEF Unlock
    <3>2. call' = [call EXCEPT !.at = "window", !.then = call.then]
      BY <1>2, <3>1 DEF Calls
    <3> QED
      BY <1>2, <3>2
  <2>2. CASE Refuse
    BY <2>2 DEF Refuse
  <2>3. CASE Relock
    <3>1. call' = [call EXCEPT !.at = call.then]
      BY <2>3 DEF Relock
    <3>2. call' = [call EXCEPT !.at = call.then, !.then = call.then]
      BY <1>2, <3>1 DEF Calls
    <3> QED
      BY <1>2, <3>2
  <2> QED
    BY <2>1, <2>2, <2>3
<1>4. /\ call' \in Calls /\ call'.at = a /\ call'.chunk = call.chunk
      /\ call'.drains = call.drains /\ call'.data = call.data /\ call'.written = call.written
      /\ call'.part = call.part /\ call'.ecm = call.ecm
  BY <1>2, <1>3 DEF Calls, Places
<1>5. /\ call.part <= Len(call.data)
      /\ call.ecm => call.part < Len(call.data)
  BY <1>1 DEF PathInv, CallInv
<1>6. Active /\ Active' /\ call'.at \notin {"wild", "fault"}
  BY <1>1, <1>4 DEF Active
<1> QED
  BY <1>1, <1>4, <1>5, <1>6, MoveKeeps

LEMMA FaultKeeps == ASSUME PathInv, Fault PROVE PathInv'
<1>1. /\ call.at \in {"window", "part"} /\ state = "idle"
      /\ call' = [call EXCEPT !.at = "fault"]
      /\ UNCHANGED <<mode, state, buffers, firstEcm, next, resets, session>>
  BY DEF Fault
<1>2. call \in Calls
  BY Types
<1>3. /\ call' \in Calls /\ call'.at = "fault" /\ call'.chunk = call.chunk
      /\ call'.drains = call.drains /\ call'.data = call.data /\ call'.written = call.written
  BY <1>1, <1>2 DEF Calls, Places
<1>4. ~session.clean
  BY <1>1 DEF PathInv, Served, Busy
<1>5. Active /\ Active'
  BY <1>1, <1>3 DEF Active
<1> QED
  BY <1>1, <1>3, <1>4, <1>5, MoveKeeps

(* The contents after a step, piece by piece.                              *)
LEMMA ContentsThen ==
    ASSUME offset' + length' <= BufferSize, Ahead' <= length',
           IsRun(session'.out, session'.from),
           \A i \in 1 .. length' - Ahead' : base'[offset' + Ahead' + i] = Front' + i - 1,
           IsRun(ts', Front' + length' - Ahead'),
           Front' + length' - Ahead' + Len(ts') = next' + Progress',
           Active' => IsRun(call'.data, Front'),
           call'.drains /\ Active' => Len(call'.data) + call'.written = length',
           Busy' /\ ~call'.drains => ts' = <<>> /\ length' = 0
    PROVE  Contents'
  BY DEF Contents, IsRun

(* n packets of the data in hand leave.                                    *)
LEMMA LeaveKeeps ==
    ASSUME PathInv, call.at \in {"part", "window"}, NEW n \in 1 .. Len(call.data),
           UNCHANGED <<mode, state, buffers, firstEcm, next, resets>>,
           session' \in Sessions, session'.from = session.from,
           session'.clean = session.clean, session.keyed => session'.keyed,
           Len(session'.out) = Len(session.out) + n,
           \A i \in 1 .. Len(session.out) : session'.out[i] = session.out[i],
           \A i \in 1 .. n : session'.out[Len(session.out) + i] = call.data[i],
           call' \in Calls, call'.at \in {"split", "back"}, call'.chunk = call.chunk,
           call'.drains = call.drains, call'.data = SubSeq(call.data, n + 1, Len(call.data)),
           call'.written = call.written + n,
           call'.at = "back" => /\ call'.part <= Len(call.data) - n
                                /\ call'.ecm => call'.part < Len(call.data) - n
    PROVE  PathInv'
<1>1. /\ mode' = mode /\ state' = state /\ ts' = ts /\ base' = base /\ offset' = offset
      /\ length' = length /\ firstEcm' = firstEcm /\ next' = next /\ resets' = resets
  BY DEF buffers
<1>2. TypeOK'
  <2>1. TypeOK
    BY DEF PathInv
  <2>2. call' \in Calls /\ session' \in Sessions
    OBVIOUS
  <2> QED
    BY <1>1, <2>1, <2>2 DEF TypeOK, Calls, Sessions
<1>3. /\ Busy /\ Busy' /\ Active /\ Active'
      /\ call.at # "drain" /\ call'.at # "drain"
      /\ call'.at \notin {"part", "window", "wild", "fault"}
  BY DEF Active, Busy
<1>4. /\ call.data \in Seq(0 .. Last) /\ Len(call.data) \in Nat /\ n \in Nat
      /\ n <= Len(call.data) /\ n > 0
      /\ call.written \in Nat /\ length \in Nat /\ offset \in Nat
      /\ session.from \in Int /\ Len(session.out) \in Nat /\ next \in Int
      /\ Len(ts) \in Nat /\ Len(call.chunk) \in Nat
  BY Types
<1>5. /\ call'.data \in Seq(0 .. Last) /\ Len(call'.data) = Len(call.data) - n
  <2>1. n \in 0 .. Len(call.data)
    BY <1>4
  <2> DEFINE d == call.data
  <2>2. d \in Seq(0 .. Last) /\ n \in 0 .. Len(d) /\ call'.data = SubSeq(d, n + 1, Len(d))
    BY <1>4, <2>1
  <2>3. Len(d) = Len(call.data)
    OBVIOUS
  <2> HIDE DEF d
  <2>4. SubSeq(d, n + 1, Len(d)) \in Seq(0 .. Last) /\ Len(SubSeq(d, n + 1, Len(d))) = Len(d) - n
    BY <2>2, Cut
  <2> QED
    BY <2>2, <2>3, <2>4
<1>6. CallInv'
  <2>1. /\ IsRun(call.chunk, next) /\ next + Len(call.chunk) <= Last + 1
        /\ ~call.drains => Len(call.data) + call.written = Len(call.chunk)
        /\ mode = "sync" /\ firstEcm => session.keyed
    BY <1>3 DEF PathInv, CallInv
  <2>2. ~call'.drains => Len(call'.data) + call'.written = Len(call'.chunk)
    BY <1>4, <1>5, <2>1
  <2> QED
    BY <1>1, <1>3, <1>5, <2>1, <2>2 DEF CallInv, IsRun
<1>7. ASSUME session.clean PROVE Contents' /\ Served'
  <2>1. Contents /\ Served
    BY <1>7 DEF PathInv
  <2>2. Front' = Front + n /\ Front \in Int
    BY <1>4 DEF Front
  <2>3. IsRun(session.out, session.from) /\ IsRun(call.data, Front)
    BY <1>3, <2>1 DEF Contents
  <2>4. IsRun(session'.out, session.from)
    <3> SUFFICES ASSUME NEW i \in 1 .. Len(session.out) + n
                 PROVE  session'.out[i] = session.from + i - 1
      BY DEF IsRun
    <3>1. CASE i <= Len(session.out)
      BY <1>4, <2>3, <3>1 DEF IsRun
    <3>2. CASE i > Len(session.out)
      <4> DEFINE j == i - Len(session.out)
      <4>1. j \in 1 .. n /\ j \in 1 .. Len(call.data) /\ i = Len(session.out) + j
        BY <1>4, <3>2
      <4>2. call.data[j] = Front + j - 1
        BY <2>3, <4>1 DEF IsRun
      <4>3. session'.out[i] = call.data[j]
        BY <4>1
      <4> HIDE DEF j
      <4> QED
        BY <1>4, <4>1, <4>2, <4>3 DEF Front
    <3> QED
      BY <1>4, <3>1, <3>2
  <2>5. IsRun(call'.data, Front')
    BY <1>4, <2>2, <2>3, RunCut
  <2>6. ASSUME call.drains PROVE Contents'
    <3>1. /\ Ahead = call.written /\ Ahead' = call.written + n
          /\ Progress = 0 /\ Progress' = 0
      BY <1>3, <2>6 DEF Ahead, Progress
    <3>2. /\ offset + length <= BufferSize
          /\ \A i \in 1 .. length - call.written :
                base[offset + call.written + i] = Front + i - 1
          /\ IsRun(ts, Front + length - call.written)
          /\ Front + length - call.written + Len(ts) = next
          /\ Len(call.data) + call.written = length /\ call.written <= length
      <4>1. offset + length <= BufferSize /\ Len(call.data) + call.written = length
        BY <1>3, <2>1, <2>6 DEF Contents
      <4>2. IsRun(ts, Front + length - call.written)
        BY <2>1, <3>1 DEF Contents
      <4>3. Front + length - call.written + Len(ts) = next
        <5>1. Front + length - call.written + Len(ts) = next + 0
          BY <2>1, <3>1 DEF Contents
        <5> QED
          BY <1>4, <5>1
      <4>4. \A i \in 1 .. length - call.written :
               base[offset + call.written + i] = Front + i - 1
        BY <2>1, <3>1 DEF Contents
      <4>5. call.written <= length
        BY <2>1, <3>1 DEF Contents
      <4> QED
        BY <4>1, <4>2, <4>3, <4>4, <4>5
    <3>3. call.written + n <= length /\ Len(call'.data) + call'.written = length
      <4>1. Len(call.data) + call.written = length
        BY <3>2
      <4>2. call.written + n <= length
        BY <1>4, <4>1
      <4>3. call'.written = call.written + n
        OBVIOUS
      <4>4. Len(call'.data) = Len(call.data) - n
        BY <1>5
      <4> DEFINE w == call.written
                 m == Len(call.data)
      <4>5. w \in Nat /\ m \in Nat /\ n \in Nat /\ m + w = length
        BY <1>4, <4>1
      <4>6. (m - n) + (w + n) = m + w
        <5> HIDE DEF w, m
        <5> QED
          BY <4>5
      <4> QED
        BY <4>2, <4>3, <4>4, <4>5, <4>6
    <3>4. \A i \in 1 .. length - (call.written + n) :
             base[offset + (call.written + n) + i] = (Front + n) + i - 1
      <4> SUFFICES ASSUME NEW i \in 1 .. length - (call.written + n)
                   PROVE  base[offset + (call.written + n) + i] = (Front + n) + i - 1
        OBVIOUS
      <4>1. n + i \in 1 .. length - call.written
        BY <1>4, <3>3
      <4>2. base[offset + call.written + (n + i)] = Front + (n + i) - 1
        BY <3>2, <4>1
      <4> DEFINE w == call.written
      <4>3. w \in Nat /\ offset \in Nat /\ n \in Nat /\ i \in Int /\ Front \in Int
        BY <1>4, <2>2
      <4>4. offset + w + (n + i) = offset + (w + n) + i /\ Front + (n + i) - 1 = (Front + n) + i - 1
        <5> HIDE DEF w
        <5> QED
          BY <4>3
      <4> QED
        BY <4>2, <4>4
    <3>5. Front + n + length - (call.written + n) = Front + length - call.written
      BY <1>4, <2>2
    <3>6. Front + n + length - (call.written + n) + Len(ts) = next + 0
      BY <1>4, <3>2, <3>5
    <3>7. IsRun(ts, Front + n + length - (call.written + n))
      BY <3>2, <3>5
    <3>8. /\ call.written + n \in Nat /\ Front + n \in Int /\ Ahead' = call.written + n
          /\ Front' = Front + n /\ IsRun(call'.data, Front + n) /\ call'.drains
      BY <1>4, <2>2, <2>5, <2>6, <3>1
    <3>9. offset' + length' <= BufferSize /\ Ahead' <= length'
      BY <1>1, <3>2, <3>3, <3>8
    <3>10. \A i \in 1 .. length' - Ahead' : base'[offset' + Ahead' + i] = Front' + i - 1
      BY <1>1, <3>4, <3>8
    <3>11. /\ IsRun(ts', Front' + length' - Ahead') /\ IsRun(call'.data, Front')
           /\ Front' + length' - Ahead' + Len(ts') = next' + Progress'
      BY <1>1, <3>1, <3>6, <3>7, <3>8
    <3>12. IsRun(session'.out, session'.from) /\ Len(call'.data) + call'.written = length'
      BY <1>1, <2>4, <3>3
    <3> QED
      BY <3>8, <3>9, <3>10, <3>11, <3>12, ContentsThen
  <2>7. ASSUME ~call.drains PROVE Contents'
    <3>1. /\ Ahead = 0 /\ Ahead' = 0
          /\ Progress = call.written /\ Progress' = call.written + n
      BY <1>3, <2>7 DEF Ahead, Progress
    <3>2. ts = <<>> /\ length = 0 /\ offset <= BufferSize /\ Front = next + call.written
      <4>1. ts = <<>> /\ length = 0
        BY <1>3, <2>1, <2>7 DEF Contents
      <4>2. offset + 0 <= BufferSize
        BY <2>1, <4>1 DEF Contents
      <4>3. Front + length - 0 + Len(ts) = next + call.written
        BY <2>1, <3>1 DEF Contents
      <4>4. Len(ts) = 0
        BY <4>1
      <4> QED
        BY <1>4, <2>2, <4>1, <4>2, <4>3, <4>4, Types
    <3>3. /\ 0 \in Nat /\ Front + n \in Int /\ Ahead' = 0 /\ Front' = Front + n
          /\ IsRun(call'.data, Front + n) /\ ~call'.drains
      BY <2>2, <2>5, <2>7, <3>1
    <3>4. /\ ts' = <<>> /\ length' = 0 /\ offset' + length' <= BufferSize /\ 0 <= length'
          /\ Front + n + length' - 0 + Len(ts') = next' + Progress'
      BY <1>1, <1>4, <2>2, <3>1, <3>2
    <3>5. /\ \A i \in 1 .. length' - 0 : base'[offset' + 0 + i] = Front + n + i - 1
          /\ IsRun(ts', Front + n + length' - 0)
      BY <3>4 DEF IsRun
    <3>6. offset' + length' <= BufferSize /\ Ahead' <= length'
      BY <3>3, <3>4
    <3>7. \A i \in 1 .. length' - Ahead' : base'[offset' + Ahead' + i] = Front' + i - 1
      BY <3>3, <3>5
    <3>8. /\ IsRun(ts', Front' + length' - Ahead') /\ IsRun(call'.data, Front')
          /\ Front' + length' - Ahead' + Len(ts') = next' + Progress'
      BY <3>3, <3>4, <3>5
    <3>9. IsRun(session'.out, session'.from)
      BY <2>4
    <3> QED
      BY <3>3, <3>4, <3>6, <3>7, <3>8, <3>9, ContentsThen
  <2>8. Served'
    <3>1. state # "idle" /\ (mode = "sync" => firstEcm)
      BY <1>3, <2>1 DEF Served
    <3>2. mode = "sync" => session.keyed
      BY <3>1 DEF PathInv, CallInv
    <3> QED
      BY <1>1, <1>3, <3>1, <3>2 DEF Served
  <2> QED
    BY <1>4, <2>6, <2>7, <2>8
<1> QED
  BY <1>2, <1>6, <1>7 DEF PathInv

LEMMA TakeKeeps == ASSUME PathInv, Take PROVE PathInv'
<1>1. /\ call.at = "window"
      /\ UNCHANGED <<mode, state, buffers, firstEcm, next, resets>>
  BY DEF Take
<1>2. PICK n \in 1 .. call.part :
        /\ session' = [session EXCEPT !.out = session.out \o SubSeq(call.data, 1, n)]
        /\ call' = [call EXCEPT
               !.at = "back", !.then = IF mode = "sync" THEN "part" ELSE "done",
               !.data = SubSeq(call.data, n + 1, Len(call.data)),
               !.part = call.part - n, !.written = call.written + n]
  BY DEF Take
<1>3. /\ call \in Calls /\ session \in Sessions
      /\ call.data \in Seq(0 .. Last) /\ Len(call.data) \in Nat
      /\ call.part \in Nat /\ call.written \in Nat
      /\ session.out \in Seq(0 .. Last) /\ Len(session.out) \in Nat
  BY Types
<1>4. /\ call.part <= Len(call.data)
      /\ call.ecm => call.part < Len(call.data)
  BY <1>1 DEF PathInv, CallInv
<1>5. n \in 1 .. Len(call.data) /\ n \in Nat
  BY <1>3, <1>4
<1> DEFINE s == SubSeq(call.data, 1, n)
           d == SubSeq(call.data, n + 1, Len(call.data))
<1>6. /\ s \in Seq(0 .. Last) /\ Len(s) = n /\ \A i \in 1 .. n : s[i] = call.data[i]
      /\ d \in Seq(0 .. Last)
  <2>1. n \in 0 .. Len(call.data)
    BY <1>3, <1>5
  <2> QED
    BY <1>3, <2>1, Cut
<1> DEFINE b == IF mode = "sync" THEN "part" ELSE "done"
<1>7. call.part - n \in Nat /\ call.written + n \in Nat /\ b \in {"part", "done"}
  BY <1>2, <1>3
<1>8. /\ session' = [session EXCEPT !.out = session.out \o s]
      /\ call' = [call EXCEPT !.at = "back", !.then = b, !.data = d,
                              !.part = call.part - n, !.written = call.written + n]
  BY <1>2
<1> HIDE DEF s, b
<1>9. /\ session.out \o s \in Seq(0 .. Last)
      /\ Len(session.out \o s) = Len(session.out) + n
      /\ \A i \in 1 .. Len(session.out) : (session.out \o s)[i] = session.out[i]
      /\ \A i \in 1 .. n : (session.out \o s)[Len(session.out) + i] = call.data[i]
  <2>1. /\ session.out \o s \in Seq(0 .. Last)
        /\ Len(session.out \o s) = Len(session.out) + n
        /\ \A i \in 1 .. Len(session.out) + n : (session.out \o s)[i] =
               IF i <= Len(session.out) THEN session.out[i] ELSE s[i - Len(session.out)]
    <3> DEFINE o == session.out
    <3>1. o \in Seq(0 .. Last) /\ s \in Seq(0 .. Last) /\ Len(s) = n
      BY <1>3, <1>6
    <3> HIDE DEF o
    <3>2. /\ o \o s \in Seq(0 .. Last) /\ Len(o \o s) = Len(o) + n
          /\ \A i \in 1 .. Len(o) + n : (o \o s)[i] = IF i <= Len(o) THEN o[i] ELSE s[i - Len(o)]
      BY <3>1
    <3> QED
      BY <3>2 DEF o
  <2>2. \A i \in 1 .. Len(session.out) : (session.out \o s)[i] = session.out[i]
    BY <1>3, <1>5, <2>1
  <2>3. ASSUME NEW i \in 1 .. n
        PROVE  (session.out \o s)[Len(session.out) + i] = call.data[i]
    <3>1. Len(session.out) + i \in 1 .. Len(session.out) + n
          /\ ~(Len(session.out) + i <= Len(session.out))
          /\ Len(session.out) + i - Len(session.out) = i
      BY <1>3, <1>5
    <3> QED
      BY <1>6, <2>1, <3>1
  <2> QED
    BY <2>1, <2>2, <2>3
<1>10. /\ session' \in Sessions /\ session'.out = session.out \o s
       /\ session'.from = session.from /\ session'.clean = session.clean
       /\ session'.keyed = session.keyed
  BY <1>3, <1>8, <1>9 DEF Sessions
<1>11. /\ call' \in Calls /\ call'.at = "back" /\ call'.chunk = call.chunk
       /\ call'.drains = call.drains /\ call'.data = d
       /\ call'.written = call.written + n /\ call'.part = call.part - n
       /\ call'.ecm = call.ecm
  <2> HIDE DEF d
  <2> QED
    BY <1>3, <1>6, <1>7, <1>8 DEF Calls, Places
<1>12. /\ call.part - n <= Len(call.data) - n
       /\ call.ecm => call.part - n < Len(call.data) - n
  BY <1>3, <1>4, <1>5
<1> QED
  BY <1>1, <1>5, <1>9, <1>10, <1>11, <1>12, LeaveKeeps

LEMMA EcmKeeps == ASSUME PathInv, ProcessEcm PROVE PathInv'
<1>1. /\ call.at = "part"
      /\ UNCHANGED <<mode, state, buffers, firstEcm, next, resets>>
  BY DEF ProcessEcm
<1>2. /\ call \in Calls /\ session \in Sessions
      /\ call.data \in Seq(0 .. Last) /\ Len(call.data) \in Nat
      /\ call.part \in Nat /\ call.written \in Nat
      /\ session.out \in Seq(0 .. Last) /\ Len(session.out) \in Nat
  BY Types
<1>3. CASE call.ecm
  <2>1. call.part < Len(call.data)
    BY <1>1, <1>3 DEF PathInv, CallInv
  <2> DEFINE s == call.data
             o == session.out
  <2>2. /\ s \in Seq(0 .. Last) /\ o \in Seq(0 .. Last) /\ 1 \in 1 .. Len(s) /\ s # <<>>
    BY <1>2, <2>1
  <2>3. /\ session' = [session EXCEPT !.out = Append(o, Head(s)), !.keyed = TRUE]
        /\ call' = [call EXCEPT !.at = "split", !.data = Tail(s), !.written = call.written + 1]
    BY <1>3 DEF ProcessEcm
  <2> HIDE DEF s, o
  <2>4. /\ Append(o, Head(s)) \in Seq(0 .. Last) /\ Len(Append(o, Head(s))) = Len(o) + 1
        /\ \A i \in 1 .. Len(o) : Append(o, Head(s))[i] = o[i]
        /\ Append(o, Head(s))[Len(o) + 1] = s[1]
    <3> DEFINE x == Head(s)
    <3>1. x \in 0 .. Last /\ x = s[1] /\ o \in Seq(0 .. Last)
      <4>1. s[1] \in 0 .. Last
        BY <2>2, StreamAssumption
      <4>2. Head(s) = s[1]
        BY <2>2
      <4> QED
        BY <2>2, <4>1, <4>2
    <3> HIDE DEF x
    <3>2. /\ Append(o, x) \in Seq(0 .. Last) /\ Len(Append(o, x)) = Len(o) + 1
          /\ \A i \in 1 .. Len(o) : Append(o, x)[i] = o[i]
          /\ Append(o, x)[Len(o) + 1] = x
      BY <3>1
    <3> QED
      BY <3>1, <3>2 DEF x
  <2>5. Tail(s) = SubSeq(s, 1 + 1, Len(s)) /\ Tail(s) \in Seq(0 .. Last)
    BY <2>2
  <2>6. /\ session' \in Sessions /\ session'.out = Append(o, Head(s))
        /\ session'.from = session.from /\ session'.clean = session.clean
        /\ session'.keyed = TRUE
    BY <1>2, <2>3, <2>4 DEF Sessions
  <2>7. /\ call' \in Calls /\ call'.at = "split" /\ call'.chunk = call.chunk
        /\ call'.drains = call.drains /\ call'.data = Tail(s)
        /\ call'.written = call.written + 1
    <3> DEFINE t == Tail(s)
               w == call.written + 1
    <3>1. /\ call' = [call EXCEPT !.at = "split", !.data = t, !.written = w]
          /\ t \in Seq(0 .. Last) /\ w \in Nat
      BY <1>2, <2>3, <2>5
    <3> HIDE DEF t, w
    <3>2. /\ call' \in Calls /\ call'.at = "split" /\ call'.chunk = call.chunk
          /\ call'.drains = call.drains /\ call'.data = t /\ call'.written = w
      BY <1>2, <3>1 DEF Calls, Places
    <3> QED
      BY <3>2 DEF t, w
  <2>8. \A i \in 1 .. 1 : Append(o, Head(s))[Len(o) + i] = s[i]
    BY <2>4
  <2>9. /\ 1 \in 1 .. Len(call.data) /\ Len(session'.out) = Len(session.out) + 1
        /\ \A i \in 1 .. Len(session.out) : session'.out[i] = session.out[i]
        /\ \A i \in 1 .. 1 : session'.out[Len(session.out) + i] = call.data[i]
        /\ call'.data = SubSeq(call.data, 1 + 1, Len(call.data))
    BY <2>2, <2>4, <2>5, <2>6, <2>7, <2>8 DEF s, o
  <2> QED
    BY <1>1, <2>6, <2>7, <2>9, LeaveKeeps
<1>4. CASE ~call.ecm
  <2>1. call' = [call EXCEPT !.at = "split"] /\ session' = session
    BY <1>4 DEF ProcessEcm
  <2>2. /\ call' \in Calls /\ call'.at = "split" /\ call'.chunk = call.chunk
        /\ call'.drains = call.drains /\ call'.data = call.data /\ call'.written = call.written
    BY <1>2, <2>1 DEF Calls, Places
  <2>3. Active /\ Active' /\ call'.at \notin {"wild", "fault", "part", "window", "back"}
    BY <1>1, <2>2 DEF Active
  <2>4. UNCHANGED <<mode, state, buffers, firstEcm, next, resets, session>>
    BY <1>1, <2>1
  <2> QED
    BY <2>2, <2>3, <2>4, MoveKeeps
<1> QED
  BY <1>2, <1>3, <1>4 DEF Calls

(* The drain goes on with what is left of mWriteBuffer.                    *)
LEMMA RefillKeeps == ASSUME PathInv, Refill PROVE PathInv'
<1>1. /\ call.at = "drain" /\ length # 0
      /\ mode' = mode /\ state' = state /\ ts' = ts /\ base' = base /\ offset' = offset
      /\ length' = length /\ firstEcm' = firstEcm /\ next' = next /\ resets' = resets
      /\ session' = session
  BY DEF Refill, buffers
<1>2. /\ call \in Calls /\ base \in Seq(0 .. Last) /\ Len(base) = BufferSize
      /\ offset \in Nat /\ length \in Nat /\ BufferSize \in Nat
  BY Types
<1>3. TypeOK
  BY DEF PathInv
<1>4. call.drains /\ IsRun(call.chunk, next) /\ next + Len(call.chunk) <= Last + 1
  BY <1>1 DEF PathInv, CallInv, Busy
<1>5. CASE offset + length <= BufferSize
  <2> DEFINE d == Unwritten
  <2>1. call' = [call EXCEPT !.at = "split", !.written = 0, !.data = d]
    BY <1>5 DEF Refill
  <2>2. d \in Seq(0 .. Last) /\ Len(d) = length /\ \A i \in 1 .. length : d[i] = base[offset + i]
    <3>1. /\ base \in Seq(0 .. Last) /\ offset \in Nat /\ length \in Nat
          /\ offset + length <= Len(base)
      BY <1>2, <1>5
    <3> QED
      BY <3>1, Slice DEF Unwritten
  <2> HIDE DEF d
  <2>3. /\ call' \in Calls /\ call'.at = "split" /\ call'.chunk = call.chunk
        /\ call'.drains = call.drains /\ call'.data = d /\ call'.written = 0
    BY <1>2, <2>1, <2>2 DEF Calls, Places
  <2>4. TypeOK'
    BY <1>1, <1>3, <2>3 DEF TypeOK, Calls
  <2>5. Busy' /\ Active' /\ Busy
    BY <1>1, <2>3 DEF Busy, Active
  <2>6. mode = "sync" /\ firstEcm => session.keyed
    BY DEF PathInv, CallInv
  <2>7. CallInv'
    BY <1>1, <1>4, <2>3, <2>5, <2>6 DEF CallInv, IsRun
  <2>8. ASSUME session.clean PROVE Contents' /\ Served'
    <3>1. Contents /\ Served
      BY <2>8 DEF PathInv
    <3>2. Ahead = 0 /\ Ahead' = 0 /\ Front' = Front /\ Progress' = 0 /\ Progress = 0
      BY <1>1, <1>4, <2>3 DEF Ahead, Front, Progress, Active
    <3>3. Served'
      BY <1>1, <2>3, <2>5, <3>1 DEF Served
    <3>4. \A i \in 1 .. length : base[offset + i] = Front + i - 1
      <4>1. \A i \in 1 .. length - 0 : base[offset + 0 + i] = Front + i - 1
        BY <3>1, <3>2 DEF Contents
      <4> QED
        BY <1>2, <4>1
    <3>5. IsRun(call'.data, Front') /\ Len(call'.data) + call'.written = length'
      BY <1>1, <1>2, <2>2, <2>3, <3>2, <3>4 DEF IsRun
    <3>6. /\ offset' + length' <= BufferSize /\ Ahead' <= length'
          /\ IsRun(session'.out, session'.from)
          /\ \A i \in 1 .. length' - Ahead' : base'[offset' + Ahead' + i] = Front' + i - 1
          /\ IsRun(ts', Front' + length' - Ahead')
          /\ Front' + length' - Ahead' + Len(ts') = next' + Progress'
      BY <1>1, <3>1, <3>2 DEF Contents
    <3> QED
      BY <1>4, <2>3, <3>3, <3>5, <3>6, ContentsThen
  <2> QED
    BY <1>1, <2>4, <2>7, <2>8 DEF PathInv
<1>6. CASE ~(offset + length <= BufferSize)
  <2>1. call' = [call EXCEPT !.at = "wild"]
    BY <1>6 DEF Refill
  <2>2. /\ call' \in Calls /\ call'.at = "wild" /\ call'.chunk = call.chunk
        /\ call'.drains = call.drains
    BY <1>2, <2>1 DEF Calls, Places
  <2>3. TypeOK'
    BY <1>1, <1>3, <2>2 DEF TypeOK, Calls
  <2>4. mode = "sync" /\ firstEcm => session.keyed
    BY DEF PathInv, CallInv
  <2>5. Busy'
    BY <2>2 DEF Busy
  <2>6. CallInv'
    BY <1>1, <1>4, <2>2, <2>4, <2>5 DEF CallInv, IsRun
  <2>7. ~session.clean
    BY <1>6 DEF PathInv, Contents
  <2> QED
    BY <1>1, <2>3, <2>6, <2>7 DEF PathInv
<1> QED
  BY <1>5, <1>6

(* mWriteBuffer is filled with the beginning of mTsBuffer.                 *)
LEMMA FillKeeps == ASSUME PathInv, Fill PROVE PathInv'
<1> DEFINE n == Least(BufferSize, Len(ts))
           d == SubSeq(ts, 1, n)
           r == SubSeq(ts, n + 1, Len(ts))
           b == d \o SubSeq(base, n + 1, BufferSize)
<1>1. /\ call.at = "drain" /\ length = 0
      /\ mode' = mode /\ state' = state /\ firstEcm' = firstEcm /\ next' = next
      /\ resets' = resets /\ session' = session
      /\ base' = b /\ ts' = r /\ offset' = 0 /\ length' = n
      /\ call' = [call EXCEPT !.at = "split", !.written = 0, !.data = d]
  BY DEF Fill
<1>2. /\ call \in Calls /\ base \in Seq(0 .. Last) /\ Len(base) = BufferSize
      /\ ts \in Seq(1 .. Last) /\ Len(ts) \in Nat /\ Len(ts) <= TsSize
      /\ BufferSize \in Nat /\ Word \in Nat /\ Word > BufferSize
      /\ Last \in Nat /\ session.from \in Int /\ Len(session.out) \in Nat
      /\ TsSize \in Nat
  BY Types
<1>3. n \in Nat /\ n <= BufferSize /\ n <= Len(ts)
  BY <1>2 DEF Least
<1> HIDE DEF n
<1>4. n \in 0 .. Len(ts) /\ n \in 0 .. Len(base)
  BY <1>2, <1>3
<1>5. /\ d \in Seq(1 .. Last) /\ Len(d) = n /\ \A i \in 1 .. n : d[i] = ts[i]
      /\ r \in Seq(1 .. Last) /\ Len(r) = Len(ts) - n
  <2>1. ts \in Seq(1 .. Last) /\ n \in 0 .. Len(ts)
    BY <1>2, <1>4
  <2> QED
    BY <2>1, Cut
<1>6. /\ SubSeq(base, n + 1, BufferSize) \in Seq(0 .. Last)
      /\ Len(SubSeq(base, n + 1, BufferSize)) = BufferSize - n
  BY <1>2, <1>4, Cut
<1>7. d \in Seq(0 .. Last)
  <2>1. d \in Seq(1 .. Last) /\ Last \in Nat
    BY <1>2, <1>5
  <2> HIDE DEF d
  <2>2. \A i \in 1 .. Len(d) : d[i] \in 0 .. Last
    BY <2>1
  <2> QED
    BY <2>1, <2>2
<1>8. /\ b \in Seq(0 .. Last) /\ Len(b) = BufferSize
      /\ \A i \in 1 .. n : b[i] = d[i]
  <2> DEFINE e == SubSeq(base, n + 1, BufferSize)
  <2>1. e \in Seq(0 .. Last) /\ Len(e) = BufferSize - n
    BY <1>6
  <2> HIDE DEF d, e
  <2>2. /\ d \o e \in Seq(0 .. Last) /\ Len(d \o e) = Len(d) + Len(e)
        /\ \A i \in 1 .. Len(d) : (d \o e)[i] = d[i]
    BY <1>7, <2>1
  <2>3. b = d \o e
    BY DEF e
  <2>4. Len(d) + Len(e) = BufferSize /\ \A i \in 1 .. n : i \in 1 .. Len(d)
    BY <1>2, <1>3, <1>5, <2>1
  <2> HIDE DEF b
  <2> QED
    BY <2>2, <2>3, <2>4
<1> HIDE DEF b, r, d
<1>9. /\ call' \in Calls /\ call'.at = "split" /\ call'.chunk = call.chunk
      /\ call'.drains = call.drains /\ call'.data = d /\ call'.written = 0
  BY <1>1, <1>2, <1>7 DEF Calls, Places
<1>10. TypeOK'
  <2>1. TypeOK
    BY DEF PathInv
  <2>2. /\ offset' \in 0 .. Word - 1 /\ length' \in 0 .. Word - 1 /\ Len(ts') <= TsSize
        /\ ts' \in Seq(1 .. Last) /\ base' \in Seq(0 .. Last) /\ Len(base') = BufferSize
    BY <1>1, <1>2, <1>3, <1>5, <1>8
  <2> QED
    BY <1>1, <1>9, <2>1, <2>2 DEF TypeOK, Calls
<1>11. /\ call.drains /\ IsRun(call.chunk, next) /\ next + Len(call.chunk) <= Last + 1
       /\ mode = "sync" /\ firstEcm => session.keyed
  BY <1>1 DEF PathInv, CallInv, Busy
<1>12. Busy' /\ Active' /\ Busy
  BY <1>1, <1>9 DEF Busy, Active
<1>13. CallInv'
  BY <1>1, <1>9, <1>11, <1>12 DEF CallInv, IsRun
<1>14. ASSUME session.clean PROVE Contents' /\ Served'
  <2>1. Contents /\ Served
    BY <1>14 DEF PathInv
  <2>2. /\ Ahead = 0 /\ Ahead' = 0 /\ Front' = Front /\ Progress' = 0 /\ Progress = 0
        /\ Front \in Int
    BY <1>1, <1>2, <1>9, <1>11 DEF Ahead, Front, Progress, Active
  <2>3. Served'
    BY <1>1, <1>9, <1>12, <2>1 DEF Served
  <2>4. IsRun(ts, Front) /\ Front + Len(ts) = next + 0
    <3>1. IsRun(ts, Front + 0 - 0) /\ Front + 0 - 0 + Len(ts) = next + 0
      BY <1>1, <2>1, <2>2 DEF Contents
    <3>2. Front + 0 - 0 = Front
      BY <2>2
    <3> QED
      BY <3>1, <3>2
  <2>5. IsRun(d, Front) /\ IsRun(r, Front + n)
    BY <1>2, <1>4, <2>2, <2>4, RunCut DEF d, r
  <2>6. \A i \in 1 .. n : b[0 + 0 + i] = Front + i - 1
    BY <1>3, <1>5, <1>8, <2>5 DEF IsRun
  <2>7. Front + n - 0 = Front + n /\ Front + n - 0 + Len(r) = next + 0
    BY <1>2, <1>3, <1>5, <2>2, <2>4
  <2>8. /\ offset' + length' <= BufferSize /\ Ahead' <= length'
        /\ IsRun(session'.out, session'.from)
        /\ Len(call'.data) + call'.written = length'
    BY <1>1, <1>2, <1>3, <1>5, <1>9, <2>1, <2>2 DEF Contents
  <2>9. \A i \in 1 .. length' - Ahead' : base'[offset' + Ahead' + i] = Front' + i - 1
    BY <1>1, <1>3, <2>2, <2>6
  <2>10. /\ IsRun(ts', Front' + length' - Ahead') /\ IsRun(call'.data, Front')
         /\ Front' + length' - Ahead' + Len(ts') = next' + Progress'
    BY <1>1, <1>9, <2>2, <2>5, <2>7
  <2>11. call'.drains
    BY <1>9, <1>11
  <2>12. Contents'
    BY <2>8, <2>9, <2>10, <2>11, ContentsThen
  <2> QED
    BY <2>3, <2>12
<1> QED
  BY <1>1, <1>10, <1>13, <1>14 DEF PathInv

(* What was written leaves the range of mWriteBuffer, and the call drains  *)
(* on, gives up, or goes on with the client's data.                        *)
LEMMA DrainedKeeps == ASSUME PathInv, Drained PROVE PathInv'
<1> DEFINE n == call.written
<1>1. /\ call.at = "done" /\ call.drains
      /\ mode' = mode /\ state' = state /\ ts' = ts /\ base' = base /\ firstEcm' = firstEcm
      /\ next' = next /\ resets' = resets /\ session' = session
      /\ offset' = NewOffset(n) /\ length' = NewLength(n)
  BY DEF Drained
<1>2. /\ call \in Calls /\ n \in Nat /\ offset \in Nat /\ length \in Nat
      /\ BufferSize \in Nat /\ Word \in Nat \ {0} /\ Word > BufferSize
      /\ session.from \in Int /\ Len(session.out) \in Nat /\ Len(ts) \in Nat
      /\ call.chunk \in Seq(1 .. Last) /\ Last \in Nat /\ next \in Int
      /\ Len(call.chunk) \in Nat
  BY Types
<1>3. IsRun(call.chunk, next) /\ next + Len(call.chunk) <= Last + 1
  BY <1>1 DEF PathInv, CallInv, Busy
<1>4. call.chunk \in Seq(0 .. Last)
  <2>1. \A i \in 1 .. Len(call.chunk) : call.chunk[i] \in 0 .. Last
    BY <1>2
  <2> QED
    BY <1>2, <2>1
<1>5. call.retry \in 0 .. MaxRetry
  BY <1>2 DEF Calls
<1>6. \/ /\ ts = <<>> /\ length' = 0
         /\ call' = [call EXCEPT !.at = "split", !.drains = FALSE, !.data = call.chunk, !.written = 0]
      \/ \E k \in 0 .. MaxRetry : call' = [call EXCEPT !.at = "drain", !.retry = k]
      \/ call' = NoCall
  <2>1. CASE ~(ts # <<>> \/ NewLength(n) # 0)
    BY <1>1, <2>1 DEF Drained
  <2>2. CASE (ts # <<>> \/ NewLength(n) # 0) /\ n > 0
    <3>1. call' = [call EXCEPT !.at = "drain"]
      BY <2>2 DEF Drained
    <3>2. call' = [call EXCEPT !.at = "drain", !.retry = call.retry]
      BY <1>2, <3>1 DEF Calls
    <3> QED
      BY <1>5, <3>2
  <2>3. CASE (ts # <<>> \/ NewLength(n) # 0) /\ ~(n > 0)
    <3>1. CASE call.retry >= MaxRetry
      BY <2>3, <3>1 DEF Drained
    <3>2. CASE ~(call.retry >= MaxRetry)
      <4>1. call' = [call EXCEPT !.at = "drain", !.retry = call.retry + 1]
        BY <2>3, <3>2 DEF Drained
      <4>2. call.retry + 1 \in 0 .. MaxRetry
        BY <1>5, <3>2 DEF MaxRetry
      <4> QED
        BY <4>1, <4>2
    <3> QED
      BY <3>1, <3>2
  <2> QED
    BY <2>1, <2>2, <2>3
<1>7. /\ call' \in Calls /\ call'.at \in {"split", "drain", "none"}
      /\ call'.at # "none" => call'.chunk = call.chunk
      /\ call'.at = "split" => /\ ts = <<>> /\ length' = 0 /\ ~call'.drains
                               /\ call'.data = call.chunk /\ call'.written = 0
      /\ call'.at = "drain" => call'.drains
      /\ call'.at = "none" => ~call'.drains /\ call'.written = 0
  <2>1. CASE /\ ts = <<>> /\ length' = 0
             /\ call' = [call EXCEPT !.at = "split", !.drains = FALSE, !.data = call.chunk,
                                     !.written = 0]
    BY <1>2, <1>4, <2>1 DEF Calls, Places
  <2>2. CASE \E k \in 0 .. MaxRetry : call' = [call EXCEPT !.at = "drain", !.retry = k]
    BY <1>1, <1>2, <2>2 DEF Calls, Places
  <2>3. CASE call' = NoCall
    <3>1. NoCall \in Calls /\ NoCall.at = "none" /\ ~NoCall.drains /\ NoCall.written = 0
      BY DEF NoCall, Calls, Places, MaxRetry
    <3> QED
      BY <2>3, <3>1
  <2> QED
    BY <1>6, <2>1, <2>2, <2>3
<1>8. offset' \in 0 .. Word - 1 /\ length' \in 0 .. Word - 1
  <2>1. offset + n \in Nat
    BY <1>2
  <2>2. offset' \in 0 .. Word - 1
    BY <1>1, <1>2, <2>1, ModRange DEF NewOffset
  <2> QED
    BY <1>1, <1>2, <2>2 DEF NewLength
<1>9. TypeOK'
  BY <1>1, <1>7, <1>8 DEF PathInv, TypeOK, Calls
<1>10. mode = "sync" /\ firstEcm => session.keyed
  BY DEF PathInv, CallInv
<1>11. CallInv'
  BY <1>1, <1>2, <1>3, <1>7, <1>10 DEF CallInv, IsRun, Busy
<1>12. ASSUME session.clean PROVE Contents' /\ Served'
  <2>1. Contents /\ Served
    BY <1>12 DEF PathInv
  <2>2. /\ Ahead = n /\ Ahead' = 0 /\ Front' = Front /\ Progress' = 0 /\ Progress = 0
        /\ Front \in Int
    BY <1>1, <1>2, <1>7 DEF Ahead, Front, Progress, Active
  <2>3. Served'
    BY <1>1, <1>7, <2>1 DEF Served, Busy
  <2>4. n <= length /\ offset + length <= BufferSize
    BY <2>1, <2>2 DEF Contents
  <2>5. offset' = offset + n
    <3>1. offset + n \in 0 .. Word - 1
      BY <1>2, <2>4
    <3> QED
      BY <1>1, <1>2, <3>1, ModSmall DEF NewOffset
  <2>6. length' = length - n
    <3>1. length - n \in 0 .. Word - 1 /\ length + Word - n = (length - n) + Word
      BY <1>2, <2>4
    <3>2. ((length - n) + Word) % Word = length - n
      BY <1>2, <3>1, ModWraps
    <3> QED
      BY <1>1, <3>1, <3>2 DEF NewLength
  <2>7. /\ \A i \in 1 .. length - n : base[offset + n + i] = Front + i - 1
        /\ IsRun(ts, Front + length - n) /\ Front + length - n + Len(ts) = next + 0
        /\ IsRun(session.out, session.from)
    BY <2>1, <2>2 DEF Contents
  <2> HIDE DEF n
  <2>8. Front + (length - n) - 0 = Front + length - n
    BY <1>2, <2>2
  <2>9. offset' + length' <= BufferSize /\ Ahead' <= length'
    BY <1>2, <2>2, <2>4, <2>5, <2>6
  <2>10. \A i \in 1 .. length' - Ahead' : base'[offset' + Ahead' + i] = Front' + i - 1
    <3> SUFFICES ASSUME NEW i \in 1 .. (length - n) - 0
                 PROVE  base[(offset + n) + 0 + i] = Front + i - 1
      BY <1>1, <2>2, <2>5, <2>6
    <3>1. i \in 1 .. length - n /\ (offset + n) + 0 + i = offset + n + i
      BY <1>2, <2>4
    <3> QED
      BY <2>7, <3>1
  <2>11. /\ IsRun(ts', Front' + length' - Ahead')
         /\ Front' + length' - Ahead' + Len(ts') = next' + Progress'
         /\ IsRun(session'.out, session'.from)
    BY <1>1, <2>2, <2>6, <2>7, <2>8
  <2>12. Active' => call'.at = "split"
    BY <1>7 DEF Active
  <2>13. Active' => IsRun(call'.data, Front') /\ ~call'.drains
    <3> SUFFICES ASSUME call'.at = "split" PROVE IsRun(call.chunk, Front)
      BY <1>7, <2>2, <2>12
    <3>1. length - n = 0 /\ ts = <<>>
      BY <1>7, <2>6
    <3>2. Len(ts) = 0
      BY <3>1
    <3>3. Front = next
      BY <1>2, <2>2, <2>7, <3>1, <3>2
    <3> QED
      BY <1>3, <3>3
  <2>14. Busy' /\ ~call'.drains => ts' = <<>> /\ length' = 0
    BY <1>1, <1>7 DEF Busy
  <2>15. Contents'
    BY <2>9, <2>10, <2>11, <2>13, <2>14, ContentsThen
  <2> QED
    BY <2>3, <2>15
<1> QED
  BY <1>1, <1>9, <1>11, <1>12 DEF PathInv

LEMMA ReturnKeeps == ASSUME PathInv, Return PROVE PathInv'
<1>1. /\ call.at = "done" /\ ~call.drains
      /\ mode' = mode /\ state' = state /\ ts' = ts /\ base' = base /\ offset' = offset
      /\ length' = length /\ firstEcm' = firstEcm /\ resets' = resets /\ session' = session
      /\ next' = next + call.written /\ call' = NoCall
  BY DEF Return, buffers
<1>2. /\ call.written \in Nat /\ Len(call.data) \in Nat /\ Len(call.chunk) \in Nat
      /\ next \in 1 .. Last + 1 /\ Last \in Nat
      /\ offset \in Nat /\ length \in Nat /\ session.from \in Int /\ Len(session.out) \in Nat
      /\ Len(ts) \in Nat /\ BufferSize \in Nat
  BY Types
<1>3. /\ next + Len(call.chunk) <= Last + 1
      /\ Len(call.data) + call.written = Len(call.chunk)
      /\ mode = "sync" /\ firstEcm => session.keyed
  BY <1>1 DEF PathInv, CallInv, Busy
<1>4. next' \in 1 .. Last + 1
  <2> DEFINE w == call.written
             k == Len(call.chunk)
             m == Len(call.data)
  <2>1. /\ w \in Nat /\ k \in Nat /\ m \in Nat /\ next \in 1 .. Last + 1 /\ Last \in Nat
        /\ next + k <= Last + 1 /\ m + w = k /\ next' = next + w
    BY <1>1, <1>2, <1>3
  <2> HIDE DEF w, k, m
  <2> QED
    BY <2>1
<1>5. NoCall \in Calls /\ NoCall.at = "none" /\ ~NoCall.drains /\ NoCall.written = 0
  BY DEF NoCall, Calls, Places, MaxRetry
<1>6. /\ call' \in Calls /\ call'.at = "none" /\ ~call'.drains /\ call'.written = 0
      /\ ~Busy' /\ ~Active' /\ Busy
  BY <1>1, <1>5 DEF Busy, Active
<1>7. TypeOK'
  BY <1>1, <1>4, <1>6 DEF PathInv, TypeOK, Calls
<1>8. CallInv'
  BY <1>1, <1>3, <1>6 DEF CallInv
<1>9. ASSUME session.clean PROVE Contents' /\ Served'
  <2>1. Contents /\ Served
    BY <1>9 DEF PathInv
  <2>2. /\ Ahead = 0 /\ Ahead' = 0 /\ Front' = Front /\ Progress' = 0
        /\ Progress = call.written /\ Front \in Int
    BY <1>1, <1>2, <1>6 DEF Ahead, Front, Progress
  <2>3. Served'
    BY <1>1, <1>6, <2>1 DEF Served
  <2>4. next' + 0 = next + call.written
    BY <1>1, <1>2
  <2>5. /\ offset' + length' <= BufferSize /\ Ahead' <= length'
        /\ IsRun(session'.out, session'.from)
        /\ \A i \in 1 .. length' - Ahead' : base'[offset' + Ahead' + i] = Front' + i - 1
        /\ IsRun(ts', Front' + length' - Ahead')
        /\ Front' + length' - Ahead' + Len(ts') = next' + Progress'
    BY <1>1, <2>1, <2>2, <2>4 DEF Contents
  <2> QED
    BY <1>6, <2>3, <2>5, ContentsThen
<1> QED
  BY <1>1, <1>7, <1>8, <1>9 DEF PathInv

(* What the client brings is the stream from next on.                      *)
LEMMA ChunkOf ==
    ASSUME PathInv, next <= Last, NEW n \in Sizes,
           NEW chunk, chunk = [i \in 1 .. Least(n, Last + 1 - next) |-> next + i - 1]
    PROVE  /\ chunk \in Seq(1 .. Last) /\ chunk \in Seq(0 .. Last)
           /\ Len(chunk) = Least(n, Last + 1 - next) /\ Len(chunk) \in Nat \ {0}
           /\ IsRun(chunk, next) /\ next + Len(chunk) <= Last + 1
<1>1. Last \in Nat /\ next \in 1 .. Last + 1 /\ n \in Nat \ {0}
  BY Types, StreamAssumption
<1> DEFINE k == Least(n, Last + 1 - next)
<1>2. k \in Nat \ {0} /\ next + k <= Last + 1
  BY <1>1 DEF Least
<1>3. chunk = [i \in 1 .. k |-> next + i - 1]
  OBVIOUS
<1> HIDE DEF k
<1>4. \A i \in 1 .. k : next + i - 1 \in 1 .. Last /\ next + i - 1 \in 0 .. Last
  BY <1>1, <1>2
<1>5. chunk \in Seq(1 .. Last) /\ chunk \in Seq(0 .. Last) /\ Len(chunk) = k
  <2>1. k \in Nat /\ Last \in Nat
    BY <1>1, <1>2
  <2>2. chunk \in [1 .. k -> 1 .. Last] /\ chunk \in [1 .. k -> 0 .. Last]
    BY <1>3, <1>4
  <2> QED
    BY <2>1, <2>2, FunctionIsSequence
<1>6. IsRun(chunk, next)
  BY <1>3, <1>5 DEF IsRun
<1> QED
  BY <1>2, <1>5, <1>6 DEF k

(* The look for the first ECM is noted.                                    *)
LEMMA LookedAt ==
    ASSUME PathInv, NEW chunk, NEW first \in BOOLEAN
    PROVE  /\ Looked(chunk, first) \in Sessions
           /\ Looked(chunk, first).out = session.out
           /\ Looked(chunk, first).from = session.from
           /\ Looked(chunk, first).clean = session.clean
           /\ Looked(chunk, first).clean <=> session.clean
           /\ session.keyed => Looked(chunk, first).keyed
           /\ mode = "sync" /\ first => Looked(chunk, first).keyed
<1>1. session \in Sessions
  BY Types
<1> DEFINE m == session.missed \/ (mode = "sync" /\ ~first /\ chunk[Len(chunk)] \in Ecms)
           k == session.keyed \/ (first /\ ~firstEcm)
<1>2. m \in BOOLEAN /\ k \in BOOLEAN
  BY <1>1 DEF Sessions
<1>3. Looked(chunk, first) = [session EXCEPT !.keyed = k, !.missed = m]
  BY DEF Looked
<1>4. session.keyed => k
  OBVIOUS
<1>5. mode = "sync" /\ first => k
  BY DEF PathInv, CallInv
<1> HIDE DEF m, k
<1>6. /\ Looked(chunk, first) \in Sessions
      /\ Looked(chunk, first).out = session.out
      /\ Looked(chunk, first).from = session.from
      /\ Looked(chunk, first).clean = session.clean
      /\ Looked(chunk, first).keyed = k
  BY <1>1, <1>2, <1>3 DEF Sessions
<1>7. Looked(chunk, first).clean <=> session.clean
  BY <1>6
<1> QED
  BY <1>4, <1>5, <1>6, <1>7

(* What firstEcm becomes.                                                  *)
LEMMA FirstIsBoolean ==
    ASSUME PathInv, NEW chunk, NEW first \in FirstEcm(chunk)
    PROVE  first \in BOOLEAN /\ (mode = "sync" /\ firstEcm => first)
<1>1. firstEcm \in BOOLEAN
  BY DEF PathInv, TypeOK
<1>2. CASE mode = "sync" /\ ~firstEcm
  <2>1. first \in {f.ecm : f \in Found(chunk)}
    BY <1>2 DEF FirstEcm
  <2>2. \A f \in Found(chunk) : f.ecm \in BOOLEAN
    <3> DEFINE at == {i \in 1 .. Len(chunk) : chunk[i] \in Ecms}
               First(A) == CHOOSE i \in A : \A j \in A : i <= j
               Of(A) == IF A = {} THEN [part |-> Len(chunk), ecm |-> FALSE]
                        ELSE [part |-> First(A) - 1, ecm |-> TRUE]
    <3>1. Found(chunk) = {Of(at), Of(at \ {Len(chunk)})}
      BY DEF Found
    <3> HIDE DEF at, First
    <3>2. \A A : Of(A).ecm \in BOOLEAN
      OBVIOUS
    <3> HIDE DEF Of
    <3> QED
      BY <3>1, <3>2
  <2> QED
    BY <1>2, <2>1, <2>2
<1>3. CASE ~(mode = "sync" /\ ~firstEcm)
  BY <1>1, <1>3 DEF FirstEcm
<1> QED
  BY <1>2, <1>3

(* A call that writes through has all of the client's data in hand.        *)
LEMMA ThroughKeeps == ASSUME PathInv, WriteThrough PROVE PathInv'
<1>1. /\ call.at = "none" /\ state # "idle" /\ next <= Last
      /\ mode' = mode /\ state' = state /\ ts' = ts /\ base' = base /\ offset' = offset
      /\ length' = length /\ resets' = resets /\ next' = next
  BY DEF WriteThrough, buffers
<1>2. PICK n \in Sizes :
        \E first \in FirstEcm([i \in 1 .. Least(n, Last + 1 - next) |-> next + i - 1]) :
           /\ ~Buffers(first)
           /\ firstEcm' = first
           /\ session' = Looked([i \in 1 .. Least(n, Last + 1 - next) |-> next + i - 1], first)
           /\ call' = [NoCall EXCEPT
                  !.chunk = [i \in 1 .. Least(n, Last + 1 - next) |-> next + i - 1],
                  !.data = [i \in 1 .. Least(n, Last + 1 - next) |-> next + i - 1],
                  !.at = IF MustDrain THEN "drain" ELSE "split", !.drains = MustDrain]
  BY DEF WriteThrough
<1> DEFINE chunk == [i \in 1 .. Least(n, Last + 1 - next) |-> next + i - 1]
<1>3. PICK first \in FirstEcm(chunk) :
        /\ ~Buffers(first)
        /\ firstEcm' = first
        /\ session' = Looked(chunk, first)
        /\ call' = [NoCall EXCEPT !.chunk = chunk, !.data = chunk,
                        !.at = IF MustDrain THEN "drain" ELSE "split", !.drains = MustDrain]
  BY <1>2
<1>4. /\ chunk \in Seq(1 .. Last) /\ chunk \in Seq(0 .. Last) /\ Len(chunk) \in Nat
      /\ IsRun(chunk, next) /\ next + Len(chunk) <= Last + 1
  BY <1>1, ChunkOf
<1> HIDE DEF chunk
<1>5. first \in BOOLEAN /\ (mode = "sync" => first)
  BY <1>3, FirstIsBoolean DEF Buffers
<1>6. /\ session' \in Sessions /\ session'.out = session.out /\ session'.from = session.from
      /\ session'.clean <=> session.clean
      /\ session.keyed => session'.keyed
      /\ mode = "sync" /\ first => session'.keyed
  BY <1>3, <1>5, LookedAt
<1>7. MustDrain \in BOOLEAN /\ (MustDrain <=> ts # <<>> \/ length # 0)
  BY DEF MustDrain
<1> DEFINE a == IF MustDrain THEN "drain" ELSE "split"
           m == MustDrain
<1>8. a \in {"drain", "split"} /\ m \in BOOLEAN
  BY <1>7
<1>9. call' = [NoCall EXCEPT !.chunk = chunk, !.data = chunk, !.at = a, !.drains = m]
  BY <1>3
<1>10. (a = "drain" /\ m /\ MustDrain) \/ (a = "split" /\ ~m /\ ~MustDrain)
  BY <1>7
<1> HIDE DEF a, m
<1>11. /\ call' \in Calls /\ call'.at = a /\ call'.chunk = chunk /\ call'.data = chunk
       /\ call'.drains = m /\ call'.written = 0
  <2>1. call' = [at |-> a, chunk |-> chunk, drains |-> m, data |-> chunk, part |-> 0,
                 ecm |-> FALSE, then |-> "done", written |-> 0, retry |-> 0]
    BY <1>9 DEF NoCall
  <2> QED
    BY <1>4, <1>8, <2>1 DEF Calls, Places, MaxRetry
<1>12. firstEcm' = first
  BY <1>3
<1>13. TypeOK'
  BY <1>1, <1>5, <1>6, <1>11, <1>12 DEF PathInv, TypeOK, Calls, Sessions
<1>14. CallInv'
  <2>1. /\ Len(call'.data) + call'.written = Len(call'.chunk)
        /\ call'.at \notin {"part", "window", "back"}
        /\ call'.at = "drain" => call'.drains
    BY <1>4, <1>8, <1>10, <1>11
  <2> QED
    BY <1>1, <1>4, <1>5, <1>6, <1>8, <1>11, <1>12, <2>1 DEF CallInv, IsRun, Busy
<1>15. ASSUME session.clean PROVE Contents' /\ Served'
  <2>1. Contents /\ Served /\ ~call.drains /\ call.written = 0
    BY <1>1, <1>15 DEF PathInv, CallInv, Busy
  <2>2. /\ Ahead = 0 /\ Ahead' = 0 /\ Front' = Front /\ Progress' = 0 /\ Progress = 0
    BY <1>1, <1>6, <1>10, <1>11, <2>1 DEF Ahead, Front, Progress, Active
  <2>3. Busy' /\ call'.at \notin {"wild", "fault"}
    BY <1>8, <1>11 DEF Busy
  <2>4. Served'
    BY <1>1, <1>5, <1>6, <1>12, <2>3 DEF Served
  <2>5. /\ offset' + length' <= BufferSize /\ Ahead' <= length'
        /\ IsRun(session'.out, session'.from)
        /\ \A i \in 1 .. length' - Ahead' : base'[offset' + Ahead' + i] = Front' + i - 1
        /\ IsRun(ts', Front' + length' - Ahead')
        /\ Front' + length' - Ahead' + Len(ts') = next' + Progress'
    BY <1>1, <1>6, <2>1, <2>2 DEF Contents
  <2>6. CASE a = "drain"
    <3>1. call'.drains /\ ~Active'
      BY <1>10, <1>11, <2>6 DEF Active
    <3> QED
      BY <2>4, <2>5, <3>1, ContentsThen
  <2>7. CASE a = "split"
    <3>1. ~call'.drains /\ ts' = <<>> /\ length' = 0
      BY <1>1, <1>7, <1>10, <1>11, <2>7
    <3>2. Front \in Int /\ next \in Int /\ Len(ts') = 0
      BY <3>1, Types DEF Front
    <3>3. Front' = next
      BY <1>1, <2>2, <2>5, <3>1, <3>2
    <3>4. IsRun(call'.data, Front')
      BY <1>4, <1>11, <3>3
    <3> QED
      BY <2>4, <2>5, <3>1, <3>4, ContentsThen
  <2> QED
    BY <1>8, <2>6, <2>7
<1>16. session'.clean => session.clean
  BY <1>6
<1> QED
  BY <1>13, <1>14, <1>15, <1>16 DEF PathInv

(* A call whose data is buffered puts all of it behind what is there.      *)
LEMMA BufferedKeeps == ASSUME PathInv, WriteBuffered PROVE PathInv'
<1>1. /\ call.at = "none" /\ state # "idle" /\ next <= Last
      /\ mode' = mode /\ state' = state /\ base' = base /\ offset' = offset
      /\ length' = length /\ resets' = resets /\ call' = call
  BY DEF WriteBuffered
<1>2. PICK n \in Sizes :
        \E first \in FirstEcm([i \in 1 .. Least(n, Last + 1 - next) |-> next + i - 1]) :
           LET chunk == [i \in 1 .. Least(n, Last + 1 - next) |-> next + i - 1] IN
           /\ firstEcm' = first
           /\ IF TsSize - Len(ts) < Len(chunk)
              THEN /\ session' = Looked(chunk, first)
                   /\ UNCHANGED <<ts, next>>
              ELSE /\ ts' = ts \o chunk
                   /\ \E took \in IF state = "preparing" THEN 0 .. Len(chunk)
                                  ELSE {Len(chunk)} :
                      /\ next' = next + took
                      /\ session' = [Looked(chunk, first) EXCEPT
                                         !.clean = Looked(chunk, first).clean /\ took = Len(chunk)]
  BY DEF WriteBuffered
<1> DEFINE chunk == [i \in 1 .. Least(n, Last + 1 - next) |-> next + i - 1]
<1>3. PICK first \in FirstEcm(chunk) :
        /\ firstEcm' = first
        /\ IF TsSize - Len(ts) < Len(chunk)
           THEN session' = Looked(chunk, first) /\ ts' = ts /\ next' = next
           ELSE /\ ts' = ts \o chunk
                /\ \E took \in IF state = "preparing" THEN 0 .. Len(chunk)
                               ELSE {Len(chunk)} :
                   /\ next' = next + took
                   /\ session' = [Looked(chunk, first) EXCEPT
                                      !.clean = Looked(chunk, first).clean /\ took = Len(chunk)]
  BY <1>2
<1>4. /\ chunk \in Seq(1 .. Last) /\ Len(chunk) \in Nat
      /\ IsRun(chunk, next) /\ next + Len(chunk) <= Last + 1
  BY <1>1, ChunkOf
<1> HIDE DEF chunk
<1>5. first \in BOOLEAN /\ firstEcm' = first
  BY <1>3, FirstIsBoolean
<1> DEFINE s == Looked(chunk, first)
<1>6. /\ s \in Sessions /\ s.out = session.out /\ s.from = session.from
      /\ s.clean <=> session.clean
      /\ session.keyed => s.keyed
      /\ mode = "sync" /\ first => s.keyed
  BY <1>5, LookedAt
<1>7. /\ next \in 1 .. Last + 1 /\ Last \in Nat /\ ts \in Seq(1 .. Last) /\ Len(ts) \in Nat
      /\ Len(ts) <= TsSize /\ TsSize \in Nat /\ call \in Calls
      /\ session.from \in Int /\ Len(session.out) \in Nat /\ session.clean \in BOOLEAN
      /\ length \in Nat /\ offset \in Nat
  BY Types
<1>8. CASE TsSize - Len(ts) < Len(chunk)
  <2>1. session' = s /\ ts' = ts /\ next' = next
    BY <1>3, <1>8
  <2> HIDE DEF s
  <2>2. TypeOK'
    BY <1>1, <1>5, <1>6, <2>1 DEF PathInv, TypeOK, Sessions
  <2>3. ~Busy /\ ~Busy' /\ ~Active' /\ call'.at = "none" /\ ~call'.drains /\ call'.written = 0
    BY <1>1 DEF PathInv, CallInv, Busy, Active
  <2>4. CallInv'
    BY <1>1, <1>5, <1>6, <2>1, <2>3 DEF CallInv
  <2>5. ASSUME session.clean PROVE Contents' /\ Served'
    <3>1. Contents /\ Served
      BY <2>5 DEF PathInv
    <3>2. Ahead' = Ahead /\ Front' = Front /\ Progress' = Progress
      BY <1>1, <1>6, <2>1 DEF Ahead, Front, Progress, Active
    <3>3. Served'
      <4>1. session.keyed => session'.keyed
        BY <1>6, <2>1
      <4>2. mode = "sync" /\ session.out # <<>> => session.keyed
        BY <3>1 DEF Served
      <4>3. session'.out = session.out
        BY <1>6, <2>1
      <4> QED
        BY <1>1, <2>3, <4>1, <4>2, <4>3 DEF Served
    <3>4. /\ offset' + length' <= BufferSize /\ Ahead' <= length'
          /\ IsRun(session'.out, session'.from)
          /\ \A i \in 1 .. length' - Ahead' : base'[offset' + Ahead' + i] = Front' + i - 1
          /\ IsRun(ts', Front' + length' - Ahead')
          /\ Front' + length' - Ahead' + Len(ts') = next' + Progress'
      BY <1>1, <1>6, <2>1, <3>1, <3>2 DEF Contents
    <3> QED
      BY <2>3, <3>3, <3>4, ContentsThen
  <2>6. session'.clean => session.clean
    BY <1>6, <2>1
  <2> QED
    BY <2>2, <2>4, <2>5, <2>6 DEF PathInv
<1>9. CASE ~(TsSize - Len(ts) < Len(chunk))
  <2>1. PICK took \in IF state = "preparing" THEN 0 .. Len(chunk) ELSE {Len(chunk)} :
          /\ next' = next + took
          /\ session' = [s EXCEPT !.clean = s.clean /\ took = Len(chunk)]
    BY <1>3, <1>9
  <2>2. took \in 0 .. Len(chunk)
    <3>1. CASE state = "preparing"
      BY <2>1, <3>1
    <3>2. CASE state # "preparing"
      BY <1>4, <2>1, <3>2
    <3> QED
      BY <3>1, <3>2
  <2>3. ts' = ts \o chunk
    BY <1>3, <1>9
  <2> HIDE DEF s
  <2> DEFINE b == s.clean /\ took = Len(chunk)
  <2>4. b \in BOOLEAN
    BY <1>6, <1>7
  <2>5. session' = [s EXCEPT !.clean = b]
    BY <2>1
  <2>6. b => session.clean /\ took = Len(chunk)
    BY <1>6
  <2> HIDE DEF b
  <2>7. /\ session' \in Sessions /\ session'.out = session.out /\ session'.from = session.from
        /\ session'.keyed = s.keyed /\ session'.clean = b
    BY <1>6, <2>4, <2>5 DEF Sessions
  <2>8. /\ ts' \in Seq(1 .. Last) /\ Len(ts') = Len(ts) + Len(chunk) /\ Len(ts') <= TsSize
    BY <1>4, <1>7, <1>9, <2>3
  <2>9. next' \in 1 .. Last + 1
    BY <1>4, <1>7, <2>1, <2>2
  <2>10. TypeOK'
    BY <1>1, <1>5, <2>7, <2>8, <2>9 DEF PathInv, TypeOK, Sessions
  <2>11. ~Busy /\ ~Busy' /\ ~Active' /\ call'.at = "none" /\ ~call'.drains /\ call'.written = 0
    BY <1>1 DEF PathInv, CallInv, Busy, Active
  <2>12. CallInv'
    BY <1>1, <1>5, <1>6, <2>7, <2>11 DEF CallInv
  <2>13. ASSUME session.clean, took = Len(chunk) PROVE Contents' /\ Served'
    <3>1. Contents /\ Served
      BY <2>13 DEF PathInv
    <3>2. /\ Ahead = 0 /\ Ahead' = 0 /\ Front' = Front /\ Progress = 0 /\ Progress' = 0
          /\ Front \in Int
      BY <1>1, <1>7, <2>7, <2>11 DEF Ahead, Front, Progress, Active
    <3>3. Served'
      <4>1. session.keyed => session'.keyed
        BY <1>6, <2>7
      <4>2. mode = "sync" /\ session.out # <<>> => session.keyed
        BY <3>1 DEF Served
      <4> QED
        BY <1>1, <2>7, <2>11, <4>1, <4>2 DEF Served
    <3>4. /\ offset + length <= BufferSize /\ 0 <= length /\ IsRun(session.out, session.from)
          /\ \A i \in 1 .. length - 0 : base[offset + 0 + i] = Front + i - 1
          /\ IsRun(ts, Front + length - 0)
          /\ Front + length - 0 + Len(ts) = next + 0
      BY <3>1, <3>2 DEF Contents
    <3>5. IsRun(ts', Front + length - 0)
      <4>1. Front + length - 0 + Len(ts) = next /\ Front + length - 0 \in Int
        BY <1>7, <3>2, <3>4
      <4>2. IsRun(chunk, Front + length - 0 + Len(ts))
        BY <1>4, <4>1
      <4> QED
        BY <1>4, <1>7, <2>3, <3>4, <4>1, <4>2, RunJoin
    <3>6. Front + length - 0 + Len(ts') = next' + 0
      <4> DEFINE k == Len(chunk)
                 m == Len(ts)
      <4>1. /\ k \in Nat /\ m \in Nat /\ length \in Nat /\ Front \in Int /\ next \in Int
            /\ Len(ts') = m + k /\ next' = next + k /\ Front + length - 0 + m = next + 0
        BY <1>4, <1>7, <2>1, <2>8, <2>13, <3>2, <3>4
      <4> HIDE DEF k, m
      <4> QED
        BY <4>1
    <3>7. /\ offset' + length' <= BufferSize /\ Ahead' <= length'
          /\ IsRun(session'.out, session'.from)
          /\ \A i \in 1 .. length' - Ahead' : base'[offset' + Ahead' + i] = Front' + i - 1
          /\ IsRun(ts', Front' + length' - Ahead')
          /\ Front' + length' - Ahead' + Len(ts') = next' + Progress'
      BY <1>1, <2>7, <3>2, <3>4, <3>5, <3>6
    <3> QED
      BY <2>11, <3>3, <3>7, ContentsThen
  <2>14. session'.clean => session.clean /\ took = Len(chunk)
    BY <2>6, <2>7
  <2> QED
    BY <2>10, <2>12, <2>13, <2>14 DEF PathInv
<1> QED
  BY <1>8, <1>9

(* The player starts, or has prepared: the data stays as it is.            *)
LEMMA StateKeeps == ASSUME PathInv, Start \/ Prepared PROVE PathInv'
<1>1. /\ mode' = mode /\ ts' = ts /\ base' = base /\ offset' = offset /\ length' = length
      /\ firstEcm' = firstEcm /\ call' = call /\ next' = next /\ resets' = resets
      /\ session' = session
  BY DEF Start, Prepared, buffers
<1>2. state' \in {"preparing", "running"}
  BY DEF Start, Prepared
<1>3. TypeOK'
  BY <1>1, <1>2 DEF PathInv, TypeOK
<1>4. CallInv'
  BY <1>1 DEF PathInv, CallInv, Busy, IsRun
<1>5. ASSUME session.clean PROVE Contents' /\ Served'
  <2>1. Contents /\ Served
    BY <1>5 DEF PathInv
  <2>2. Contents'
    BY <1>1, <2>1 DEF Contents, Ahead, Front, Progress, Busy, Active, IsRun
  <2>3. Served'
    BY <1>1, <1>2, <2>1 DEF Served, Busy
  <2> QED
    BY <2>2, <2>3
<1> QED
  BY <1>1, <1>3, <1>4, <1>5 DEF PathInv

(* A stop or a flush begins a new session; it is clean if no call is in    *)
(* its window.                                                             *)
LEMMA ResetKeeps == ASSUME PathInv, Stop \/ Flush PROVE PathInv'
<1>1. /\ mode' = mode /\ base' = base /\ call' = call /\ next' = next
      /\ ts' = <<>> /\ offset' = 0 /\ length' = 0 /\ firstEcm' = FALSE
      /\ resets' = resets + 1 /\ resets < MaxResets
      /\ session' = NewSession(call.at = "none")
  BY DEF Stop, Flush, ResetDrmVariables
<1>2. state' \in {"idle", "preparing", "running"}
  BY DEF Stop, Flush
<1>3. /\ next \in 1 .. Last + 1 /\ Last \in Nat /\ Word \in Nat \ {0} /\ TsSize \in Nat
      /\ BufferSize \in Nat /\ call \in Calls
  BY Types
<1>4. /\ session' \in Sessions /\ session'.out = <<>> /\ session'.from = next
      /\ session'.clean <=> call.at = "none"
  <2> DEFINE c == call.at = "none"
  <2>1. c \in BOOLEAN /\ session' = [out |-> <<>>, from |-> next, keyed |-> FALSE, clean |-> c,
                                     missed |-> FALSE]
    BY <1>1 DEF NewSession
  <2>2. c <=> call.at = "none"
    OBVIOUS
  <2> HIDE DEF c
  <2>3. session' \in Sessions /\ session'.out = <<>> /\ session'.from = next /\ session'.clean = c
    BY <1>3, <2>1 DEF Sessions
  <2> QED
    BY <2>2, <2>3
<1>5. TypeOK'
  <2>1. resets' \in 0 .. MaxResets
    BY <1>1, StreamAssumption DEF PathInv, TypeOK
  <2>2. /\ ts' \in Seq(1 .. Last) /\ Len(ts') <= TsSize
        /\ offset' \in 0 .. Word - 1 /\ length' \in 0 .. Word - 1 /\ firstEcm' \in BOOLEAN
    <3>1. 0 \in 0 .. Word - 1 /\ <<>> \in Seq(1 .. Last) /\ Len(<<>>) <= TsSize
      BY <1>3
    <3> QED
      BY <1>1, <3>1
  <2> QED
    BY <1>1, <1>2, <1>4, <2>1, <2>2 DEF PathInv, TypeOK, Sessions
<1>6. CallInv'
  <2>1. firstEcm' = FALSE
    BY <1>1
  <2> QED
    BY <1>1, <2>1 DEF PathInv, CallInv, Busy, IsRun
<1>7. ASSUME session'.clean PROVE Contents' /\ Served'
  <2>1. call.at = "none"
    BY <1>4, <1>7
  <2>2. ~Busy' /\ ~Active' /\ ~call'.drains /\ call'.written = 0
    BY <1>1, <2>1 DEF PathInv, CallInv, Busy, Active
  <2>3. Ahead' = 0 /\ Front' = next /\ Progress' = 0
    <3>1. Len(session'.out) = 0
      BY <1>4
    <3> QED
      BY <1>3, <1>4, <2>2, <3>1 DEF Ahead, Front, Progress
  <2>4. Served'
    BY <1>4, <2>2 DEF Served
  <2>5. /\ offset' + length' <= BufferSize /\ Ahead' <= length'
        /\ IsRun(session'.out, session'.from)
        /\ \A i \in 1 .. length' - Ahead' : base'[offset' + Ahead' + i] = Front' + i - 1
        /\ IsRun(ts', Front' + length' - Ahead')
        /\ Front' + length' - Ahead' + Len(ts') = next' + Progress'
    BY <1>1, <1>3, <1>4, <2>3 DEF IsRun
  <2> QED
    BY <2>2, <2>4, <2>5, ContentsThen
<1> QED
  BY <1>5, <1>6, <1>7 DEF PathInv

LEMMA PathStep == PathInv /\ [Next]_vars => PathInv'
<1> SUFFICES ASSUME PathInv, [Next]_vars PROVE PathInv'
  OBVIOUS
<1>1. CASE UNCHANGED vars
  <2>1. /\ mode' = mode /\ state' = state /\ ts' = ts /\ base' = base /\ offset' = offset
        /\ length' = length /\ firstEcm' = firstEcm /\ call' = call /\ next' = next
        /\ resets' = resets /\ session' = session
    BY <1>1 DEF vars, buffers
  <2>2. TypeOK'
    BY <2>1 DEF PathInv, TypeOK
  <2>3. CallInv'
    BY <2>1 DEF PathInv, CallInv, Busy, IsRun
  <2>4. ASSUME session.clean PROVE Contents' /\ Served'
    <3>1. Contents /\ Served
      BY <2>4 DEF PathInv
    <3>2. Contents'
      BY <2>1, <3>1 DEF Contents, Ahead, Front, Progress, Busy, Active, IsRun
    <3>3. Served'
      BY <2>1, <3>1 DEF Served, Busy
    <3> QED
      BY <3>2, <3>3
  <2> QED
    BY <2>1, <2>2, <2>3, <2>4 DEF PathInv
<1>2. CASE Writer
  <2>1. CASE WriteBuffered
    BY <2>1, BufferedKeeps
  <2>2. CASE WriteThrough
    BY <2>2, ThroughKeeps
  <2>3. CASE Fill
    BY <2>3, FillKeeps
  <2>4. CASE Refill
    BY <2>4, RefillKeeps
  <2>5. CASE Split
    BY <2>5, SplitKeeps
  <2>6. CASE Unlock \/ Refuse \/ Relock
    BY <2>6, LockKeeps
  <2>7. CASE ProcessEcm
    BY <2>7, EcmKeeps
  <2>8. CASE Take
    BY <2>8, TakeKeeps
  <2>9. CASE Fault
    BY <2>9, FaultKeeps
  <2>10. CASE Drained
    BY <2>10, DrainedKeeps
  <2>11. CASE Return
    BY <2>11, ReturnKeeps
  <2> QED
    BY <1>2, <2>1, <2>2, <2>3, <2>4, <2>5, <2>6, <2>7, <2>8, <2>9, <2>10, <2>11 DEF Writer
<1>3. CASE Start \/ Prepared
  BY <1>3, StateKeeps
<1>4. CASE Stop \/ Flush
  BY <1>4, ResetKeeps
<1> QED
  BY <1>1, <1>2, <1>3, <1>4 DEF Next

(* What the pieces say together: the stream, from the first packet of the  *)
(* session to the last that the client knows to be taken.                  *)
LEMMA Pieces ==
    ASSUME PathInv, session.clean
    PROVE  session.out \o Held \o ts =
               [i \in 1 .. next + Progress - session.from |-> session.from + i - 1]
<1>1. Contents
  BY DEF PathInv
<1>2. /\ session.out \in Seq(0 .. Last) /\ Len(session.out) \in Nat /\ session.from \in Int
      /\ ts \in Seq(1 .. Last) /\ Len(ts) \in Nat
      /\ base \in Seq(0 .. Last) /\ Len(base) = BufferSize /\ BufferSize \in Nat
      /\ offset \in Nat /\ length \in Nat /\ call.written \in Nat /\ next \in Int
      /\ Last \in Nat
  BY Types
<1>3. Ahead \in Nat /\ Ahead <= length /\ Front \in Int /\ Progress \in Nat
  BY <1>1, <1>2 DEF Contents, Ahead, Front, Progress
<1> DEFINE a == offset + Ahead
           n == length - Ahead
           h == SubSeq(base, a + 1, a + n)
<1>4. a \in Nat /\ n \in Nat /\ a + n = offset + length /\ a + n <= Len(base)
  BY <1>1, <1>2, <1>3 DEF Contents
<1>5. Held = h
  <2>1. CASE call.drains /\ call.at # "drain"
    <3>1. Active
      BY <2>1 DEF PathInv, CallInv, Busy, Active
    <3>2. Ahead = call.written
      BY <2>1, <3>1 DEF Ahead
    <3>3. offset + 1 + call.written = a + 1
      <4>1. offset \in Nat /\ call.written \in Nat /\ a = offset + call.written
        BY <1>2, <3>2
      <4> HIDE DEF a
      <4> QED
        BY <4>1
    <3> QED
      BY <1>4, <2>1, <3>3 DEF Held
  <2>2. CASE ~(call.drains /\ call.at # "drain")
    <3>1. Ahead = 0
      BY <2>2 DEF Ahead, Active
    <3>2. a = offset
      BY <1>2, <3>1
    <3> QED
      BY <1>4, <2>2, <3>2 DEF Held, Unwritten
  <2> QED
    BY <2>1, <2>2
<1> HIDE DEF a, n
<1>6. h \in Seq(0 .. Last) /\ Len(h) = n /\ \A i \in 1 .. n : h[i] = base[a + i]
  BY <1>2, <1>4, Slice
<1>7. IsRun(h, session.from + Len(session.out))
  <2>1. \A i \in 1 .. n : base[a + i] = Front + i - 1
    BY <1>1 DEF Contents, a, n
  <2> HIDE DEF h
  <2> QED
    BY <1>6, <2>1 DEF IsRun, Front
<1>8. ts \in Seq(0 .. Last)
  <2>1. \A i \in 1 .. Len(ts) : ts[i] \in 0 .. Last
    BY <1>2
  <2> QED
    BY <1>2, <2>1
<1> HIDE DEF h
<1> DEFINE s == session.out \o h
<1>9. /\ s \in Seq(0 .. Last) /\ Len(s) = Len(session.out) + Len(h)
      /\ IsRun(s, session.from)
  BY <1>1, <1>2, <1>6, <1>7, RunJoin DEF Contents
<1> HIDE DEF s
<1>10. session.from + Len(s) = Front + length - Ahead /\ Len(s) \in Nat
  <2>1. Len(s) = Len(session.out) + (length - Ahead)
    BY <1>6, <1>9 DEF n
  <2>2. /\ Len(session.out) \in Nat /\ session.from \in Int /\ length \in Nat
        /\ Ahead \in Nat /\ Ahead <= length
    BY <1>2, <1>3
  <2> QED
    BY <2>1, <2>2 DEF Front
<1>11. IsRun(ts, session.from + Len(s))
  BY <1>1, <1>10 DEF Contents
<1>12. /\ s \o ts \in Seq(0 .. Last) /\ Len(s \o ts) = Len(s) + Len(ts)
       /\ IsRun(s \o ts, session.from)
  BY <1>2, <1>8, <1>9, <1>11, RunJoin
<1>13. Len(s) + Len(ts) = next + Progress - session.from
  <2>1. Front + length - Ahead + Len(ts) = next + Progress
    BY <1>1 DEF Contents
  <2>2. /\ Len(s) \in Nat /\ Len(ts) \in Nat /\ session.from \in Int /\ next \in Int
        /\ Progress \in Nat /\ session.from + Len(s) + Len(ts) = next + Progress
    BY <1>2, <1>3, <1>10, <2>1
  <2> DEFINE x == Len(s)
             y == Len(ts)
             z == session.from
             u == Progress
  <2>3. x \in Int /\ y \in Int /\ z \in Int /\ next \in Int /\ u \in Int /\ z + x + y = next + u
    BY <2>2
  <2> HIDE DEF x, y, z, u
  <2>4. x + y = next + u - z
    BY <2>3
  <2> QED
    BY <2>4 DEF x, y, z, u
<1> DEFINE m == next + Progress - session.from
           t == s \o ts
<1>14. t \in Seq(0 .. Last) /\ Len(t) = m /\ \A i \in 1 .. m : t[i] = session.from + i - 1
  BY <1>12, <1>13 DEF IsRun
<1> HIDE DEF m, t
<1>15. t = [i \in 1 .. m |-> t[i]]
  BY <1>14
<1>16. t = [i \in 1 .. m |-> session.from + i - 1]
  BY <1>14, <1>15
<1> QED
  BY <1>5, <1>16 DEF m, t, s

(* However the codec layer and the client cut the stream, what was taken   *)
(* leaves once and in order, unless a stop or a flush met a call in its    *)
(* window; and in the synchronous ECM mode nothing leaves before the CAS   *)
(* client has seen an ECM (writeData, drainDataFromBuffer_l and            *)
(* doWriteData_l of the player).                                           *)
THEOREM StreamLeavesInOrder == Spec => []DataLeavesRight
<1>1. PathInv => DataLeavesRight
  <2> SUFFICES ASSUME PathInv PROVE DataLeavesRight
    OBVIOUS
  <2>1. TypeOK
    BY DEF PathInv
  <2>2. ASSUME session.clean
        PROVE  call.at \notin {"wild", "fault"}
               /\ (mode = "sync" /\ session.out # <<>> => session.keyed)
    BY <2>2 DEF PathInv, Served, Busy
  <2>3. InOrderOnce
    BY <2>2, Pieces DEF InOrderOnce
  <2>4. KeyedBeforeData
    BY <2>2 DEF KeyedBeforeData
  <2> QED
    BY <2>1, <2>3, <2>4 DEF DataLeavesRight
<1> QED
  BY InitPath, PathStep, <1>1, PTL DEF Spec
=============================================================================
