---------------------------- MODULE HwDemuxProofs ---------------------------
(***************************************************************************)
(* What is proved of the hardware demux, for every number of threads,      *)
(* table of pids, set of descriptors and kind of failing call: what        *)
(* parser, demux, looper and kernel know of the filters agrees whenever    *)
(* no thread is changing it.                                               *)
(*                                                                         *)
(* The property speaks of quiet moments.  The invariant says what each     *)
(* thread owes in between: which contexts it has taken out but not yet     *)
(* erased, which filter it has attached but not yet entered, which         *)
(* channel it has emptied but not yet destroyed.                           *)
(***************************************************************************)
EXTENDS HwDemux, WellFoundedInduction, TLAPS

FilterParams == [fd : Fd, seq : Nat]
FilterContext == [by : Thread, seq : Int]

ThreadTypes ==
    /\ pc \in [Thread -> Places]
    /\ at \in [Thread -> [pid : Pid, fd : {WakeFd}, seq : Int]]
    /\ todo \in [Thread -> SUBSET Pid] /\ dropping \in [Thread -> SUBSET Pid]
    /\ mLock \in Thread \cup {Nobody}

FilterTypes ==
    /\ mFilters \in [DOMAIN mFilters -> FilterContext] /\ DOMAIN mFilters \subseteq Pid
    /\ attached \cup lost \cup toCall \subseteq Pid \X Thread
    /\ mVersion \in [Pid \X Thread -> Version \cup {Never}]
    /\ version \in Version \cup {Never}

DemuxTypes ==
    /\ mChannels \subseteq Pid
    /\ mFilterParams \in [mChannels -> FilterParams]
    /\ mRequests \in [DOMAIN mRequests -> [data : Pid, seq : Nat]]
    /\ mResponses \subseteq [fd : Fd, data : Pid, seq : Nat]
    /\ mNextRequestSeq \in Nat
    /\ kernel \in [DOMAIN kernel -> Pid]
    /\ DOMAIN kernel \cup DOMAIN mRequests \cup epollSet \cup leaked \subseteq Fd

TypeInv ==
    ThreadTypes /\ FilterTypes /\ DemuxTypes /\ fault \in {"none", "null", "channel", "params"}

(* Each channel has its parameters and its descriptor, which the kernel    *)
(* serves and the looper polls unless reading it has failed.               *)
ChannelIsServed(p) ==
    LET q == mFilterParams[p] IN
    /\ kernel[q.fd] = p /\ q.fd \notin leaked
    /\ q.seq < mNextRequestSeq
    /\ q.seq \in deaf \/ q.fd \in DOMAIN mRequests

RequestIsAChannels(fd) ==
    \E p \in mChannels :
        mFilterParams[p].fd = fd /\ mRequests[fd] = [data |-> p, seq |-> mFilterParams[p].seq]

Books ==
    /\ live = {mFilterParams[p].seq : p \in mChannels}
    /\ DOMAIN kernel = leaked \cup {mFilterParams[p].fd : p \in mChannels}
    /\ \A p \in mChannels : ChannelIsServed(p)
    /\ \A p, q \in mChannels : mFilterParams[p].seq = mFilterParams[q].seq => p = q
    /\ \A fd \in DOMAIN mRequests : RequestIsAChannels(fd)

(* The thread inside removeFilter or clearAllFilters holds the lock and    *)
(* knows which contexts it has still to take out.                          *)
ThreadInOrder(t) ==
    /\ pc[t] \in {"detach", "release"} =>
          /\ mLock = t
          /\ dropping[t] \subseteq DOMAIN mFilters
          /\ ~Closes(t) => at[t].pid \in DOMAIN mFilters
    /\ pc[t] = "detach" /\ ~Closes(t) => dropping[t] = {at[t].pid}
    /\ pc[t] = "release" => at[t].pid \in mChannels /\ at[t].pid \notin dropping[t]
    /\ pc[t] = "release" /\ ~Closes(t) => dropping[t] = {}
    /\ pc[t] = "remove" => ~Closes(t)
    /\ pc[t] \in {"idle", "clear"} => Closes(t)

(* The contexts a thread has taken out; they go together at the end.       *)
Gone(t) ==
    IF pc[t] \in {"detach", "release"}
    THEN (IF Closes(t) THEN DOMAIN mFilters ELSE {at[t].pid}) \ dropping[t]
    ELSE {}

(* The contexts that no thread has taken out; those that stand for a       *)
(* filter of a channel.                                                    *)
Kept == {p \in DOMAIN mFilters : \A t \in Thread : p \notin Gone(t)}
Standing == {p \in Kept : ChannelLives(p, mFilters[p].seq)}

Entering(t) == pc[t] = "enter" /\ ChannelLives(at[t].pid, at[t].seq)

ContextFilters == {<<p, mFilters[p].by>> : p \in Standing}
EnteringFilters == {<<at[t].pid, t>> : t \in {u \in Thread : Entering(u)}}

(* A filter is of a context, or lost, or about to enter the contexts; a    *)
(* channel has a filter, or a thread that is about to give it one or to    *)
(* destroy it.                                                             *)
Owners ==
    /\ attached = lost \cup ContextFilters \cup EnteringFilters
    /\ \A f \in attached : f[1] \in mChannels
    /\ \A p \in mChannels :
          \/ HasFilter(p, attached)
          \/ \E t \in Thread :
                /\ at[t].pid = p
                /\ \/ pc[t] = "attach" /\ at[t].seq = mFilterParams[p].seq
                   \/ pc[t] = "release"
    /\ \A p \in DOMAIN mFilters : mFilters[p].seq < mNextRequestSeq
    /\ \A t \in Thread : pc[t] \in {"attach", "enter"} => at[t].seq < mNextRequestSeq
    /\ \A t \in Thread :
          pc[t] \in {"create", "attach", "enter"} /\ at[t].pid \in DOMAIN mFilters
             => mFilters[at[t].pid].by # t

(* A use of what is gone ends the program; until then it all agrees.       *)
Agreement ==
    fault = "none" => Books /\ (\A t \in Thread : ThreadInOrder(t)) /\ Owners

IInv == TypeInv /\ Agreement

-----------------------------------------------------------------------------
(* Operators.                                                              *)

LEMMA MinIsMember ==
    ASSUME NEW S, S \subseteq Nat, S # {}
    PROVE  Min(S) \in S
<1>1. PICK x \in S : \A y \in S : ~(<<y, x>> \in OpToRel(<, Nat))
  BY NatLessThanWellFounded, WFMin, Zenon
<1>2. \A y \in S : ~(y < x)
  BY <1>1, Zenon DEF OpToRel
<1>3. \A y \in S : x =< y
  BY <1>2
<1> QED
  BY <1>3, Zenon DEF Min

LEMMA Initially == Init => IInv
BY ThreadsAreApart, PidsOfTables, WakeFdIsApart
DEF Init, PollLooperInit, IInv, TypeInv, ThreadTypes, FilterTypes, DemuxTypes, Agreement, Books,
    ThreadInOrder, Owners, Gone, Kept, Standing, ContextFilters, EnteringFilters, Entering, Closes,
    ChannelLives, HasFilter, Thread, Places, Never, Nowhere, AnySeq, WakeFd, FilterParams,
    FilterContext

(* When nobody is changing anything every context stands for itself, and   *)
(* the invariant is the property.                                          *)
LEMMA InvariantAgrees == IInv => BooksAgree
<1> SUFFICES ASSUME IInv, fault = "none", \A t \in Thread : ~Changing(t)
             PROVE  BooksAgree
  BY DEF BooksAgree
<1> USE DEF IInv, Agreement
<1>1. Standing = {q \in DOMAIN mFilters : ChannelLives(q, mFilters[q].seq)}
  BY Zenon DEF Standing, Kept, Gone, Changing
<1>2. EnteringFilters = {}
  BY DEF EnteringFilters, Entering, Changing
<1>3. attached = lost \cup {<<p, mFilters[p].by>> :
                    p \in {q \in DOMAIN mFilters : ChannelLives(q, mFilters[q].seq)}}
  BY <1>1, <1>2 DEF Owners, ContextFilters
<1>4. mChannels = {f[1] : f \in attached}
  BY DEF Owners, HasFilter, Changing
<1>5. /\ DOMAIN mFilterParams = mChannels
      /\ live = {mFilterParams[p].seq : p \in mChannels}
      /\ DOMAIN kernel = leaked \cup {mFilterParams[p].fd : p \in mChannels}
  BY DEF Books, TypeInv, DemuxTypes
<1>6. ASSUME NEW p \in mChannels
      PROVE  LET q == mFilterParams[p] IN
             /\ kernel[q.fd] = p /\ q.fd \notin leaked
             /\ \/ q.seq \in deaf
                \/ q.fd \in DOMAIN mRequests /\ mRequests[q.fd] = [data |-> p, seq |-> q.seq]
  BY DEF Books, ChannelIsServed, RequestIsAChannels
<1>7. DOMAIN mRequests \subseteq {mFilterParams[p].fd : p \in mChannels}
  BY DEF Books, RequestIsAChannels
<1> QED
  BY <1>3, <1>4, <1>5, <1>6, <1>7 DEF BooksAgree

-----------------------------------------------------------------------------
(* Steps that change nothing but where one thread is.                      *)

SameThread(t) ==
    pc'[t] = pc[t] /\ at'[t] = at[t] /\ todo'[t] = todo[t] /\ dropping'[t] = dropping[t]

Only(t) == \A u \in Thread \ {t} : SameThread(u)

Filters == <<mFilters, lost, attached, mChannels, mFilterParams, mNextRequestSeq>>
Descriptors == <<live, kernel, leaked, deaf, mRequests>>

LEMMA BooksStay ==
    ASSUME Books, UNCHANGED <<mChannels, mFilterParams, mNextRequestSeq, Descriptors>>
    PROVE  Books'
BY DEF Books, ChannelIsServed, RequestIsAChannels, Descriptors

(* The others stay in order when the lock only changes hands while nobody  *)
(* or this thread has it, and the contexts and channels only go with it.   *)
LEMMA OthersStayInOrder ==
    ASSUME NEW t \in Thread, NEW u \in Thread \ {t}, ThreadInOrder(u), SameThread(u),
           \/ mLock \in {t, Nobody}
           \/ /\ mLock' = mLock /\ DOMAIN mFilters \subseteq DOMAIN mFilters'
              /\ mChannels \subseteq mChannels'
    PROVE  ThreadInOrder(u)'
<1>1. Closes(u)' = Closes(u)
  BY DEF SameThread, Closes
<1>2. mLock \in {t, Nobody} => pc[u] \notin {"detach", "release"}
  BY ThreadsAreApart DEF ThreadInOrder, Thread
<1> QED
  BY <1>1, <1>2 DEF ThreadInOrder, SameThread

LEMMA OneThreadMoves ==
    ASSUME IInv, fault = "none", NEW t \in Thread, Only(t),
           UNCHANGED <<Filters, Descriptors>>,
           mLock' = mLock \/ mLock = Nobody,
           pc[t] \notin {"attach", "enter", "detach", "release"},
           pc'[t] \notin {"attach", "enter", "release"},
           pc'[t] = "detach" => Gone(t)' = {},
           pc'[t] = "create" => at'[t].pid \notin DOMAIN mFilters,
           ThreadInOrder(t)'
    PROVE  Agreement'
<1>1. Books'
  BY BooksStay DEF IInv, Agreement, Filters
<1>2. ASSUME NEW u \in Thread
      PROVE  ThreadInOrder(u)'
  BY OthersStayInOrder DEF IInv, Agreement, Filters, Only
<1>3. Owners'
  <2>1. ASSUME NEW u \in Thread
        PROVE  Gone(u)' = Gone(u)
    BY DEF Gone, Closes, Only, SameThread, Filters
  <2>2. Standing' = Standing
    BY <2>1 DEF Standing, Kept, ChannelLives, Filters
  <2>3. ContextFilters' = ContextFilters
    BY <2>2 DEF Filters, ContextFilters
  <2>4. EnteringFilters' = EnteringFilters
    BY DEF EnteringFilters, Entering, Only, SameThread, ChannelLives, Filters
  <2> QED
    BY <2>3, <2>4 DEF IInv, Agreement, Owners, Only, SameThread, Filters, HasFilter
<1> QED
  BY <1>1, <1>2, <1>3 DEF Agreement

-----------------------------------------------------------------------------
(* The contexts while a thread takes them out.                             *)

(* Only the thread that holds the lock has taken contexts out.             *)
LEMMA OneTakesOut ==
    ASSUME \A u \in Thread : ThreadInOrder(u), NEW t \in Thread,
           pc[t] \in {"detach", "release"}
    PROVE  /\ mLock = t
           /\ \A u \in Thread \ {t} : pc[u] \notin {"detach", "release"} /\ Gone(u) = {}
           /\ Kept = IF Closes(t) THEN dropping[t]
                     ELSE DOMAIN mFilters \ ({at[t].pid} \ dropping[t])
<1>1. mLock = t
  BY DEF ThreadInOrder
<1>2. ASSUME NEW u \in Thread \ {t}
      PROVE  pc[u] \notin {"detach", "release"} /\ Gone(u) = {}
  BY <1>1 DEF ThreadInOrder, Gone
<1>3. Kept = {p \in DOMAIN mFilters : p \notin Gone(t)}
  BY <1>2 DEF Kept
<1> QED
  BY <1>1, <1>2, <1>3 DEF Gone, ThreadInOrder

(* One more context is taken out: the thread goes on to its channel, to    *)
(* the next one, or erases all it has taken out and gives the lock up.     *)
LEMMA ContextTakenOut ==
    ASSUME TypeInv, \A u \in Thread : ThreadInOrder(u),
           NEW t \in Thread, NEW p, pc[t] \in {"detach", "release"},
           \/ pc[t] = "detach" /\ p \in dropping[t]
           \/ pc[t] = "release" /\ p = at[t].pid
           \/ pc[t] = "detach" /\ dropping[t] = {},
           Only(t), todo' = todo, pc' \in [Thread -> Places],
           dropping'[t] = dropping[t] \ {p},
           ~(pc[t] = "detach" /\ dropping[t] = {}) => at'[t].pid = p,
           \/ DropNext(t)
           \/ /\ pc'[t] = "release" /\ p \in mChannels' /\ p \in dropping[t]
              /\ UNCHANGED <<mLock, mFilters>>
    PROVE  /\ \A u \in Thread : ThreadInOrder(u)'
           /\ Kept' = Kept \ {p}
           /\ \A q \in DOMAIN mFilters' : q \in DOMAIN mFilters /\ mFilters'[q] = mFilters[q]
           /\ pc'[t] \in {"detach", "release", "take", "add"}
<1>1. Closes(t)' = Closes(t)
  BY DEF Closes
<1>2. /\ mLock = t
      /\ \A u \in Thread \ {t} : pc[u] \notin {"detach", "release"} /\ Gone(u) = {}
      /\ Kept = IF Closes(t) THEN dropping[t]
                ELSE DOMAIN mFilters \ ({at[t].pid} \ dropping[t])
  BY OneTakesOut
<1>3. \A u \in Thread \ {t} : ThreadInOrder(u)' /\ Gone(u)' = {}
  BY <1>2, OthersStayInOrder DEF Only, SameThread, Gone
<1>4. CASE dropping'[t] = {} /\ DropNext(t)
  <2>1. /\ mLock' = Nobody
        /\ mFilters' = ContextsLeft(t)
        /\ pc'[t] = IF Closes(t) THEN "take" ELSE "add"
    BY <1>4 DEF DropNext, Removed, Goto, TypeInv, ThreadTypes
  <2>2. \A q \in DOMAIN mFilters' : q \in DOMAIN mFilters /\ mFilters'[q] = mFilters[q]
    BY <2>1 DEF ContextsLeft, Restrict
  <2>3. Kept' = DOMAIN mFilters'
    BY <1>3, <2>1 DEF Kept, Gone
  <2>4. DOMAIN mFilters' = IF Closes(t) THEN {} ELSE DOMAIN mFilters \ {at[t].pid}
    BY <2>1 DEF ContextsLeft, Restrict
  <2>5. Kept' = Kept \ {p}
    BY <1>2, <1>4, <2>3, <2>4 DEF ThreadInOrder
  <2>6. ThreadInOrder(t)'
    BY <2>1 DEF ThreadInOrder
  <2> QED
    BY <1>3, <2>1, <2>2, <2>5, <2>6
<1>5. CASE /\ UNCHANGED <<mLock, mFilters>>
           /\ \/ dropping'[t] # {} /\ pc'[t] = "detach"
              \/ pc'[t] = "release" /\ p \in mChannels' /\ p \in dropping[t]
  <2>1. pc[t] = "detach" => dropping[t] # {} /\ p \in dropping[t]
    BY <1>5
  <2>2. ThreadInOrder(t)'
    BY <1>1, <1>2, <1>5 DEF ThreadInOrder
  <2>3. Kept' = {q \in DOMAIN mFilters : q \notin Gone(t)'}
    BY <1>3, <1>5 DEF Kept
  <2>4. Kept' = Kept \ {p}
    BY <1>1, <1>2, <1>5, <2>3 DEF Gone, ThreadInOrder
  <2> QED
    BY <1>3, <1>5, <2>2, <2>4
<1> QED
  BY <1>4, <1>5, Zenon DEF DropNext, Goto, TypeInv, ThreadTypes

-----------------------------------------------------------------------------
(* removeFilter and clearAllFilters.                                       *)

LEMMA FilterDetached ==
    ASSUME IInv, fault = "none", NEW t \in Thread, DetachFilter(t), fault' = "none"
    PROVE  Agreement'
<1> USE DEF IInv, Agreement
<1>1. PICK p \in dropping[t] :
        LET left == attached \ ({<<p, mFilters[p].by>>} \ lost) IN
        /\ at' = [at EXCEPT ![t].pid = p]
        /\ dropping' = [dropping EXCEPT ![t] = @ \ {p}]
        /\ ChannelLives(p, mFilters[p].seq)
        /\ attached' = left
        /\ IF HasFilter(p, left) THEN DropNext(t)
           ELSE Goto(t, "release") /\ UNCHANGED <<mLock, mFilters>>
  BY DEF DetachFilter
<1>2. /\ pc[t] = "detach"
      /\ UNCHANGED <<todo, lost, mChannels, mVersion, hw, looper>>
  BY DEF DetachFilter
<1>3. UNCHANGED <<mFilterParams, Descriptors, mNextRequestSeq>>
  BY <1>2 DEF hw, looper, Descriptors
<1>4. at'[t].pid = p /\ dropping'[t] = dropping[t] \ {p} /\ Only(t)
  BY <1>1, <1>2 DEF TypeInv, ThreadTypes, Only, SameThread, DropNext, Removed, Goto
<1>5. pc' \in [Thread -> Places]
  BY <1>1 DEF TypeInv, ThreadTypes, DropNext, Removed, Goto, Places
<1>6. \/ DropNext(t)
      \/ /\ pc'[t] = "release" /\ p \in mChannels' /\ p \in dropping[t]
         /\ UNCHANGED <<mLock, mFilters>>
  BY <1>1, <1>2 DEF TypeInv, ThreadTypes, Goto, ChannelLives
<1>7. /\ \A u \in Thread : ThreadInOrder(u)'
      /\ Kept' = Kept \ {p}
      /\ \A q \in DOMAIN mFilters' : q \in DOMAIN mFilters /\ mFilters'[q] = mFilters[q]
      /\ pc'[t] \in {"detach", "release", "take", "add"}
  BY <1>1, <1>2, <1>4, <1>5, <1>6, ContextTakenOut
<1>8. Books'
  BY <1>2, <1>3, BooksStay
<1>9. Standing' = Standing \ {p} /\ p \in Standing
  <2>1. p \in Kept
    BY <1>2, OneTakesOut DEF ThreadInOrder
  <2>2. \A q \in Kept' : mFilters'[q] = mFilters[q]
    BY <1>7 DEF Kept
  <2> QED
    BY <1>1, <1>2, <1>3, <1>7, <2>1, <2>2 DEF Standing, ChannelLives
<1>10. \A q \in Standing' : mFilters'[q] = mFilters[q]
  BY <1>7, <1>9 DEF Standing, Kept
<1>11. \A u \in Thread : (Entering(u)' <=> Entering(u)) /\ (Entering(u) => at'[u] = at[u])
  BY <1>2, <1>3, <1>4, <1>7 DEF Entering, ChannelLives, Only, SameThread
<1>12. EnteringFilters' = EnteringFilters /\ <<p, mFilters[p].by>> \notin EnteringFilters
  BY <1>9, <1>11 DEF Owners, Entering, EnteringFilters, Standing, Kept
<1>13. attached' = lost' \cup ContextFilters' \cup EnteringFilters'
  <2>1. ContextFilters' = ContextFilters \ {<<p, mFilters[p].by>>}
    BY <1>9, <1>10 DEF ContextFilters
  <2> QED
    BY <1>1, <1>2, <1>12, <2>1 DEF Owners
<1>14. ASSUME NEW c \in mChannels'
       PROVE  \/ HasFilter(c, attached')
              \/ \E u \in Thread :
                    /\ at'[u].pid = c
                    /\ \/ pc'[u] = "attach" /\ at'[u].seq = mFilterParams'[c].seq
                       \/ pc'[u] = "release"
  <2>1. CASE c = p
    BY <1>1, <1>4, <2>1 DEF HasFilter, TypeInv, ThreadTypes, Goto
  <2>2. CASE c # p /\ HasFilter(c, attached)
    BY <1>1, <2>2 DEF HasFilter
  <2>3. CASE c # p /\ ~HasFilter(c, attached)
    BY <1>2, <1>3, <1>4, <2>3, OneTakesOut DEF Owners, Only, SameThread
  <2> QED
    BY <2>1, <2>2, <2>3
<1>15. \A u \in Thread : pc'[u] \in {"create", "attach", "enter"} =>
            pc'[u] = pc[u] /\ at'[u] = at[u]
  BY <1>4, <1>7 DEF Only, SameThread
<1>16. Owners'
  <2>1. \A f \in attached' : f[1] \in mChannels'
    BY <1>1, <1>2 DEF Owners
  <2>2. /\ \A q \in DOMAIN mFilters' : mFilters'[q].seq < mNextRequestSeq'
        /\ \A u \in Thread : pc'[u] \in {"attach", "enter"} => at'[u].seq < mNextRequestSeq'
        /\ \A u \in Thread :
              pc'[u] \in {"create", "attach", "enter"} /\ at'[u].pid \in DOMAIN mFilters'
                 => mFilters'[at'[u].pid].by # u
    BY <1>3, <1>7, <1>15 DEF Owners
  <2> QED
    BY <1>13, <1>14, <2>1, <2>2, Zenon DEF Owners
<1> QED
  BY <1>7, <1>8, <1>16

(* The channel's parameters, descriptor and request go with it.            *)
LEMMA BooksLoseAChannel ==
    ASSUME TypeInv, Books, NEW p \in mChannels, RemoveDemuxFilter(p),
           mChannels' = mChannels \ {p}, UNCHANGED mNextRequestSeq
    PROVE  Books'
<1> DEFINE q == mFilterParams[p]
<1>1. q \in FilterParams /\ DOMAIN mFilterParams = mChannels
  BY DEF TypeInv, DemuxTypes
<1>2. /\ DOMAIN mFilterParams' = mChannels'
      /\ \A c \in mChannels' : mFilterParams'[c] = mFilterParams[c]
  BY <1>1 DEF RemoveDemuxFilter, Restrict
<1>3. /\ DOMAIN mRequests' = DOMAIN mRequests \ {q.fd}
      /\ \A fd \in DOMAIN mRequests' : mRequests'[fd] = mRequests[fd]
  BY DEF RemoveDemuxFilter, RemoveFd, Requested, Restrict
<1>4. /\ live' = live \ {q.seq} /\ deaf' = deaf \ {q.seq}
      /\ leaked \subseteq leaked'
      /\ \A fd \in DOMAIN kernel \ {q.fd} : fd \in DOMAIN kernel' /\ kernel'[fd] = kernel[fd]
      /\ DOMAIN kernel' \subseteq DOMAIN kernel
      /\ leaked' \subseteq leaked \cup {q.fd}
      /\ q.fd \in DOMAIN kernel' <=> q.fd \in leaked'
  BY DEF RemoveDemuxFilter, CloseDescriptor, Restrict, Books, ChannelIsServed
<1>5. \A c \in mChannels' : mFilterParams[c].fd # q.fd /\ mFilterParams[c].seq # q.seq
  BY DEF Books, ChannelIsServed
<1>6. live' = {mFilterParams'[c].seq : c \in mChannels'}
  BY <1>2, <1>4, <1>5 DEF Books
<1>7. DOMAIN kernel' = leaked' \cup {mFilterParams'[c].fd : c \in mChannels'}
  <2>1. {mFilterParams'[c].fd : c \in mChannels'} = {mFilterParams[c].fd : c \in mChannels} \ {q.fd}
    BY <1>2, <1>5
  <2>2. DOMAIN kernel' \ {q.fd} = DOMAIN kernel \ {q.fd} /\ leaked' \ {q.fd} = leaked \ {q.fd}
    BY <1>4
  <2>3. DOMAIN kernel = leaked \cup {mFilterParams[c].fd : c \in mChannels}
    BY DEF Books
  <2> HIDE DEF q
  <2> QED
    BY <1>4, <2>1, <2>2, <2>3
<1>8. ASSUME NEW c \in mChannels'
      PROVE  ChannelIsServed(c)'
  BY <1>2, <1>3, <1>4, <1>5, <1>7 DEF Books, ChannelIsServed
<1>9. \A c, d \in mChannels' : mFilterParams'[c].seq = mFilterParams'[d].seq => c = d
  BY <1>2 DEF Books
<1>10. ASSUME NEW fd \in DOMAIN mRequests'
       PROVE  RequestIsAChannels(fd)'
  BY <1>2, <1>3 DEF Books, RequestIsAChannels
<1> QED
  BY <1>6, <1>7, <1>8, <1>9, <1>10 DEF Books

LEMMA ChannelDestroyed ==
    ASSUME IInv, fault = "none", NEW t \in Thread, DestroyChannel(t)
    PROVE  Agreement'
<1> USE DEF IInv, Agreement
<1>1. PICK p : p = at[t].pid
  OBVIOUS
<1>2. /\ pc[t] = "release"
      /\ RemoveDemuxFilter(p)
      /\ mChannels' = mChannels \ {p}
      /\ attached' = {f \in attached : f[1] # p}
      /\ lost' = {f \in lost : f[1] # p}
      /\ DropNext(t)
      /\ UNCHANGED <<at, todo, dropping, mNextRequestSeq>>
  BY <1>1 DEF DestroyChannel
<1>3. p \in mChannels /\ p \notin dropping[t]
  BY <1>1, <1>2 DEF ThreadInOrder
<1>4. at'[t].pid = p /\ dropping'[t] = dropping[t] \ {p} /\ Only(t)
  BY <1>1, <1>2, <1>3 DEF TypeInv, ThreadTypes, Only, SameThread, DropNext, Removed, Goto
<1>5. pc' \in [Thread -> Places] /\ TypeInv /\ \A u \in Thread : ThreadInOrder(u)
  BY <1>2 DEF TypeInv, ThreadTypes, DropNext, Removed, Goto, Places
<1>6. /\ \A u \in Thread : ThreadInOrder(u)'
      /\ Kept' = Kept \ {p}
      /\ \A q \in DOMAIN mFilters' : q \in DOMAIN mFilters /\ mFilters'[q] = mFilters[q]
      /\ pc'[t] \in {"detach", "release", "take", "add"}
  <2>1. pc[t] = "release" /\ p = at[t].pid /\ todo' = todo /\ DropNext(t)
    BY <1>1, <1>2
  <2> HIDE DEF IInv, Agreement
  <2> QED
    BY <2>1, <1>4, <1>5, ContextTakenOut
<1>7. Books'
  BY <1>2, <1>3, BooksLoseAChannel
<1>8. \A c \in mChannels' : mFilterParams'[c] = mFilterParams[c]
  BY <1>2 DEF RemoveDemuxFilter, Restrict, TypeInv, DemuxTypes
<1>9. \A c, s : ChannelLives(c, s)' <=> (c # p /\ ChannelLives(c, s))
  BY <1>2, <1>8 DEF ChannelLives
<1>10. ContextFilters' = {f \in ContextFilters : f[1] # p}
  <2>1. \A q \in Kept' : mFilters'[q] = mFilters[q]
    BY <1>6 DEF Kept
  <2>2. Standing' = Standing \ {p}
    BY <1>6, <1>9, <2>1 DEF Standing
  <2>3. \A q \in Standing' : mFilters'[q] = mFilters[q]
    BY <2>1 DEF Standing
  <2> QED
    BY <2>2, <2>3 DEF ContextFilters
<1>11. EnteringFilters' = {f \in EnteringFilters : f[1] # p}
  <2>1. \A u \in Thread : (Entering(u)' <=> (Entering(u) /\ at[u].pid # p)) /\ at'[u] = at[u]
    BY <1>2, <1>4, <1>6, <1>9 DEF Entering, Only, SameThread
  <2> QED
    BY <2>1 DEF EnteringFilters
<1>12. \A u \in Thread : pc'[u] \in {"create", "attach", "enter"} =>
            pc'[u] = pc[u] /\ at'[u] = at[u]
  BY <1>4, <1>6 DEF Only, SameThread
<1>13. Owners'
  <2>1. attached' = lost' \cup ContextFilters' \cup EnteringFilters'
    BY <1>2, <1>10, <1>11 DEF Owners
  <2>2. \A f \in attached' : f[1] \in mChannels'
    BY <1>2 DEF Owners
  <2>3. /\ \A q \in DOMAIN mFilters' : mFilters'[q].seq < mNextRequestSeq'
        /\ \A u \in Thread : pc'[u] \in {"attach", "enter"} => at'[u].seq < mNextRequestSeq'
        /\ \A u \in Thread :
              pc'[u] \in {"create", "attach", "enter"} /\ at'[u].pid \in DOMAIN mFilters'
                 => mFilters'[at'[u].pid].by # u
    BY <1>2, <1>6, <1>12 DEF Owners
  <2>4. ASSUME NEW c \in mChannels'
        PROVE  \/ HasFilter(c, attached')
               \/ \E u \in Thread :
                     /\ at'[u].pid = c
                     /\ \/ pc'[u] = "attach" /\ at'[u].seq = mFilterParams'[c].seq
                        \/ pc'[u] = "release"
    <3>1. CASE HasFilter(c, attached)
      BY <1>2, <3>1 DEF HasFilter
    <3>2. CASE ~HasFilter(c, attached)
      BY <1>1, <1>2, <1>4, <1>8, <3>2 DEF Owners, Only, SameThread
    <3> QED
      BY <3>1, <3>2
  <2> QED
    BY <2>1, <2>2, <2>3, <2>4, Zenon DEF Owners
<1> QED
  BY <1>6, <1>7, <1>13

(* clearAllFilters found no context: nothing was taken out and all go.     *)
LEMMA NothingRemoved ==
    ASSUME IInv, fault = "none", NEW t \in Thread, NothingToRemove(t)
    PROVE  Agreement'
<1>1. /\ pc[t] = "detach" /\ dropping[t] = {} /\ Removed(t)
      /\ UNCHANGED <<at, todo, dropping, lost, attached, mChannels, mFilterParams,
                     mNextRequestSeq, Descriptors>>
  BY DEF NothingToRemove, base, hw, looper, Descriptors
<1>2. TypeInv /\ Owners /\ Books /\ \A u \in Thread : ThreadInOrder(u)
  BY DEF IInv, Agreement
<1>3. DropNext(t) /\ todo' = todo
  BY <1>1 DEF DropNext
<1>4. Only(t) /\ pc' \in [Thread -> Places] /\ \A p : dropping'[t] = dropping[t] \ {p}
  BY <1>1, <1>2 DEF Only, SameThread, Removed, Goto, TypeInv, ThreadTypes, Places
<1>5. PICK p : p \notin Kept
  BY <1>1, <1>2, OneTakesOut DEF ThreadInOrder
<1>6. /\ \A u \in Thread : ThreadInOrder(u)'
      /\ Kept' = Kept \ {p}
      /\ \A q \in DOMAIN mFilters' : q \in DOMAIN mFilters /\ mFilters'[q] = mFilters[q]
      /\ pc'[t] \in {"detach", "release", "take", "add"}
  BY <1>1, <1>2, <1>3, <1>4, ContextTakenOut
<1>7. Books'
  BY <1>1, <1>2, BooksStay
<1>8. ContextFilters' = ContextFilters
  <2>1. \A q \in Kept' : mFilters'[q] = mFilters[q]
    BY <1>6 DEF Kept
  <2>2. Standing' = Standing /\ \A q \in Standing' : mFilters'[q] = mFilters[q]
    BY <1>1, <1>5, <1>6, <2>1 DEF Standing, ChannelLives
  <2> QED
    BY <2>2 DEF ContextFilters
<1>9. EnteringFilters' = EnteringFilters
  <2>1. \A u \in Thread : Entering(u)' <=> Entering(u)
    BY <1>1, <1>4, <1>6 DEF Entering, ChannelLives, Only, SameThread
  <2> QED
    BY <1>1, <2>1 DEF EnteringFilters
<1>10. \A u \in Thread : /\ pc'[u] \in {"create", "attach", "enter"} => pc'[u] = pc[u]
                         /\ pc[u] \in {"attach", "release"} => pc'[u] = pc[u]
  BY <1>1, <1>4, <1>6 DEF Only, SameThread
<1>11. Owners'
  <2>1. attached' = lost' \cup ContextFilters' \cup EnteringFilters'
    BY <1>1, <1>2, <1>8, <1>9 DEF Owners
  <2>2. /\ \A q \in DOMAIN mFilters' : mFilters'[q].seq < mNextRequestSeq'
        /\ \A u \in Thread : pc'[u] \in {"attach", "enter"} => at'[u].seq < mNextRequestSeq'
        /\ \A u \in Thread :
              pc'[u] \in {"create", "attach", "enter"} /\ at'[u].pid \in DOMAIN mFilters'
                 => mFilters'[at'[u].pid].by # u
    BY <1>1, <1>2, <1>6, <1>10 DEF Owners
  <2> QED
    BY <1>1, <1>2, <1>10, <2>1, <2>2 DEF Owners, HasFilter
<1> QED
  BY <1>6, <1>7, <1>11 DEF Agreement

-----------------------------------------------------------------------------
(* addFilter.                                                              *)

(* A filter attached by a thread is one about to enter.                    *)
LEMMA FilterAttached ==
    ASSUME IInv, fault = "none", NEW t \in Thread, AttachFilter(t), fault' = "none"
    PROVE  Agreement'
<1> USE DEF IInv, Agreement
<1>1. /\ pc[t] = "attach" /\ ChannelLives(at[t].pid, at[t].seq)
      /\ attached' = attached \cup {<<at[t].pid, t>>}
      /\ pc' = [pc EXCEPT ![t] = "enter"]
      /\ UNCHANGED <<at, todo, dropping, mLock, mFilters, lost, mChannels, mFilterParams,
                     mNextRequestSeq, Descriptors>>
  BY DEF AttachFilter, Attach, Goto, parser, hw, looper, Descriptors
<1>2. Only(t) /\ pc'[t] = "enter"
  BY <1>1 DEF Only, SameThread, TypeInv, ThreadTypes
<1>3. Books'
  BY <1>1, BooksStay
<1>4. ASSUME NEW u \in Thread
      PROVE  ThreadInOrder(u)'
  BY <1>1, <1>2, OthersStayInOrder DEF Only, ThreadInOrder
<1>5. Owners'
  <2>1. \A u \in Thread : Gone(u)' = Gone(u)
    BY <1>1, <1>2 DEF Gone, Closes, Only, SameThread
  <2>2. ContextFilters' = ContextFilters
    BY <1>1, <2>1 DEF ContextFilters, Standing, Kept, ChannelLives
  <2>3. EnteringFilters' = EnteringFilters \cup {<<at[t].pid, t>>}
    <3>1. \A u \in Thread : Entering(u)' <=> (Entering(u) \/ u = t)
      BY <1>1, <1>2 DEF Entering, ChannelLives, Only, SameThread
    <3> QED
      BY <1>1, <3>1 DEF EnteringFilters
  <2>4. attached' = lost' \cup ContextFilters' \cup EnteringFilters'
    BY <1>1, <2>2, <2>3 DEF Owners
  <2>5. \A f \in attached' : f[1] \in mChannels'
    BY <1>1 DEF Owners, ChannelLives
  <2>6. ASSUME NEW c \in mChannels'
        PROVE  \/ HasFilter(c, attached')
               \/ \E u \in Thread :
                     /\ at'[u].pid = c
                     /\ \/ pc'[u] = "attach" /\ at'[u].seq = mFilterParams'[c].seq
                        \/ pc'[u] = "release"
    <3>1. CASE c = at[t].pid
      <4>1. <<c, t>> \in attached' /\ <<c, t>>[1] = c
        BY <1>1, <3>1
      <4> QED
        BY <4>1, Zenon DEF HasFilter
    <3>2. CASE c # at[t].pid
      BY <1>1, <1>2, <3>2 DEF Owners, HasFilter, Only, SameThread
    <3> QED
      BY <3>1, <3>2
  <2>7. /\ \A q \in DOMAIN mFilters' : mFilters'[q].seq < mNextRequestSeq'
        /\ \A u \in Thread : pc'[u] \in {"attach", "enter"} => at'[u].seq < mNextRequestSeq'
        /\ \A u \in Thread :
              pc'[u] \in {"create", "attach", "enter"} /\ at'[u].pid \in DOMAIN mFilters'
                 => mFilters'[at'[u].pid].by # u
    BY <1>1, <1>2 DEF Owners, Only, SameThread
  <2> QED
    BY <2>4, <2>5, <2>6, <2>7, Zenon DEF Owners
<1> QED
  BY <1>3, <1>4, <1>5

LEMMA ContextEntered ==
    ASSUME IInv, fault = "none", NEW t \in Thread, EnterContext(t)
    PROVE  Agreement'
<1> USE DEF IInv, Agreement
<1>1. PICK p : p = at[t].pid
  OBVIOUS
<1>2. /\ pc[t] = "enter" /\ mLock = Nobody
      /\ pc' = [pc EXCEPT ![t] = "add"]
      /\ UNCHANGED <<at, todo, dropping, mLock, attached, mChannels, mFilterParams,
                     mNextRequestSeq, Descriptors>>
  BY DEF EnterContext, Goto, base, hw, looper, Descriptors
<1>3. \/ /\ p \in DOMAIN mFilters
         /\ lost' = lost \cup ({<<p, t>>} \cap attached) /\ mFilters' = mFilters
      \/ /\ p \notin DOMAIN mFilters
         /\ lost' = lost
         /\ mFilters' = [q \in DOMAIN mFilters \cup {p} |->
                IF q = p THEN [by |-> t, seq |-> at[t].seq] ELSE mFilters[q]]
  BY <1>1 DEF EnterContext
<1>4. Only(t) /\ pc'[t] = "add"
  BY <1>2 DEF Only, SameThread, TypeInv, ThreadTypes
<1>5. Books'
  BY <1>2, BooksStay
<1>6. p \notin DOMAIN mFilters =>
        /\ DOMAIN mFilters' = DOMAIN mFilters \cup {p}
        /\ mFilters'[p] = [by |-> t, seq |-> at[t].seq]
        /\ \A q \in DOMAIN mFilters : mFilters'[q] = mFilters[q]
  BY <1>3
<1>7. ASSUME NEW u \in Thread
      PROVE  ThreadInOrder(u)'
  BY <1>2, <1>3, <1>4, <1>6, OthersStayInOrder DEF Only, ThreadInOrder
<1>8. Kept = DOMAIN mFilters /\ Kept' = DOMAIN mFilters'
  BY <1>2, <1>7, ThreadsAreApart DEF Kept, Gone, ThreadInOrder, Thread
<1>9. \A c, s : ChannelLives(c, s)' <=> ChannelLives(c, s)
  BY <1>2 DEF ChannelLives
<1>10. EnteringFilters' = EnteringFilters \ {<<p, t>>}
  <2>1. \A u \in Thread : Entering(u)' <=> (Entering(u) /\ u # t)
    BY <1>2, <1>4, <1>9 DEF Entering, Only, SameThread
  <2> QED
    BY <1>1, <1>2, <2>1 DEF EnteringFilters
<1>11. <<p, t>> \in EnteringFilters <=> Entering(t)
  BY <1>1 DEF EnteringFilters
<1>12. attached' = lost' \cup ContextFilters' \cup EnteringFilters'
  <2>1. CASE p \in DOMAIN mFilters
    <3>1. ContextFilters' = ContextFilters
      BY <1>2, <1>3, <1>8, <1>9, <2>1 DEF ContextFilters, Standing
    <3> QED
      BY <1>2, <1>3, <1>10, <2>1, <3>1 DEF Owners
  <2>2. CASE p \notin DOMAIN mFilters
    <3>1. ContextFilters' = ContextFilters \cup {f \in {<<p, t>>} : Entering(t)}
      <4>1. /\ DOMAIN mFilters' = DOMAIN mFilters \cup {p}
            /\ mFilters'[p].by = t /\ mFilters'[p].seq = at[t].seq
            /\ \A q \in DOMAIN mFilters : mFilters'[q] = mFilters[q]
        BY <1>6, <2>2
      <4>2. Standing' = Standing \cup {q \in {p} : Entering(t)}
        BY <1>1, <1>2, <1>8, <1>9, <2>2, <4>1 DEF Standing, Entering
      <4> QED
        BY <2>2, <4>1, <4>2, <1>8 DEF ContextFilters, Standing
    <3> QED
      BY <1>2, <1>3, <1>10, <1>11, <2>2, <3>1 DEF Owners
  <2> QED
    BY <2>1, <2>2
<1>13. Owners'
  <2>1. /\ \A q \in DOMAIN mFilters' : mFilters'[q].seq < mNextRequestSeq'
        /\ \A u \in Thread :
              pc'[u] \in {"create", "attach", "enter"} /\ at'[u].pid \in DOMAIN mFilters'
                 => mFilters'[at'[u].pid].by # u
    <3>1. \A q \in DOMAIN mFilters' :
             \/ q \in DOMAIN mFilters /\ mFilters'[q] = mFilters[q]
             \/ mFilters'[q] = [by |-> t, seq |-> at[t].seq]
      BY <1>3, <1>6
    <3> QED
      BY <1>2, <1>4, <3>1 DEF Owners, Only, SameThread
  <2>2. \A u \in Thread : pc'[u] \in {"attach", "enter"} => at'[u].seq < mNextRequestSeq'
    BY <1>2, <1>4 DEF Owners, Only, SameThread
  <2> QED
    BY <1>2, <1>4, <1>12, <2>1, <2>2 DEF Owners, HasFilter, Only, SameThread
<1> QED
  BY <1>5, <1>7, <1>13

(* A new channel gets the lowest free descriptor.                          *)
LEMMA BooksGainAChannel ==
    ASSUME TypeInv, Books, NEW p \in Pid \ mChannels, FreeFds # {}, AddDemuxFilter(p),
           mChannels' = mChannels \cup {p}, UNCHANGED <<leaked, deaf>>
    PROVE  /\ Books'
           /\ mFilterParams'[p].seq = mNextRequestSeq
           /\ \A c \in mChannels : mFilterParams'[c] = mFilterParams[c]
<1> DEFINE fd == Min(FreeFds)
<1>1. fd \in Fd /\ fd \notin DOMAIN kernel
  BY WakeFdIsApart, MinIsMember DEF FreeFds
<1> HIDE DEF fd
<1>2. /\ DOMAIN kernel' = DOMAIN kernel \cup {fd} /\ kernel'[fd] = p
      /\ \A f \in DOMAIN kernel : kernel'[f] = kernel[f]
      /\ live' = live \cup {mNextRequestSeq}
      /\ DOMAIN mRequests' = DOMAIN mRequests \cup {fd}
      /\ mRequests'[fd] = [data |-> p, seq |-> mNextRequestSeq]
      /\ \A f \in DOMAIN mRequests : f # fd => mRequests'[f] = mRequests[f]
      /\ mNextRequestSeq' = mNextRequestSeq + 1
  BY <1>1 DEF AddDemuxFilter, OpenDescriptor, AddFd, fd
<1>3. /\ DOMAIN mFilterParams' = mChannels'
      /\ mFilterParams'[p] = [fd |-> fd, seq |-> mNextRequestSeq]
      /\ \A c \in mChannels : mFilterParams'[c] = mFilterParams[c]
  BY DEF AddDemuxFilter, TypeInv, DemuxTypes, fd
<1>4. live' = {mFilterParams'[c].seq : c \in mChannels'}
  BY <1>2, <1>3 DEF Books
<1>5. DOMAIN kernel' = leaked' \cup {mFilterParams'[c].fd : c \in mChannels'}
  BY <1>2, <1>3 DEF Books
<1>6. ASSUME NEW c \in mChannels'
      PROVE  ChannelIsServed(c)'
  <2>1. CASE c = p
    BY <1>1, <1>2, <1>3, <2>1 DEF Books, ChannelIsServed, TypeInv, DemuxTypes
  <2>2. CASE c \in mChannels
    <3>1. mFilterParams[c].seq \in Nat /\ mFilterParams[c].fd \in DOMAIN kernel
      BY <2>2 DEF TypeInv, DemuxTypes, FilterParams, Books
    <3> QED
      BY <1>2, <1>3, <2>2, <3>1 DEF Books, ChannelIsServed, TypeInv, DemuxTypes
  <2> QED
    BY <2>1, <2>2
<1>7. \A c, d \in mChannels' : mFilterParams'[c].seq = mFilterParams'[d].seq => c = d
  BY <1>3 DEF Books, ChannelIsServed, TypeInv, DemuxTypes, FilterParams
<1>8. ASSUME NEW f \in DOMAIN mRequests'
      PROVE  RequestIsAChannels(f)'
  <2>1. CASE f = fd
    BY <1>2, <1>3, <2>1 DEF RequestIsAChannels
  <2>2. CASE f # fd
    BY <1>2, <1>3, <2>2 DEF Books, RequestIsAChannels
  <2> QED
    BY <2>1, <2>2
<1> QED
  BY <1>3, <1>4, <1>5, <1>6, <1>7, <1>8 DEF Books

(* A thread is given a channel, an old one or a new one, whose parameters  *)
(* no context and no other thread has known.                               *)
LEMMA ChannelGiven ==
    ASSUME IInv, fault = "none", NEW t \in Thread, CreateChannel(t), pc'[t] = "attach"
    PROVE  Agreement'
<1> USE DEF IInv, Agreement
<1>1. PICK p : p = at[t].pid
  OBVIOUS
<1>2. /\ pc[t] = "create"
      /\ pc' = [pc EXCEPT ![t] = "attach"]
      /\ at' = [at EXCEPT ![t].seq = mFilterParams'[p].seq]
      /\ UNCHANGED <<todo, dropping, mLock, mFilters, lost, attached, leaked, deaf>>
      /\ mChannels' = mChannels \cup {p}
      /\ p \in mChannels => UNCHANGED <<mChannels, kernel, live, mFilterParams, looper>>
      /\ p \notin mChannels => AddDemuxFilter(p) /\ FreeFds # {}
  <2>1. p \in Pid
    BY <1>1 DEF TypeInv, ThreadTypes
  <2>2. p \notin mChannels /\ AddDemuxFilter(p) => mFilterParams'[p].seq = mNextRequestSeq
    BY DEF AddDemuxFilter
  <2> QED
    BY <1>1, <2>1, <2>2 DEF CreateChannel, Goto, parser, TypeInv, ThreadTypes
<1>3. /\ Only(t) /\ pc'[t] = "attach"
      /\ at'[t].pid = p /\ at'[t].seq = mFilterParams'[p].seq
  BY <1>1, <1>2 DEF Only, SameThread, TypeInv, ThreadTypes
<1>4. /\ Books'
      /\ \A c \in mChannels : mFilterParams'[c] = mFilterParams[c]
      /\ p \notin mChannels => mFilterParams'[p].seq = mNextRequestSeq
      /\ mNextRequestSeq' \in Nat /\ mNextRequestSeq' >= mNextRequestSeq
  <2>1. CASE p \in mChannels
    BY <1>2, <2>1, BooksStay DEF looper, Descriptors, TypeInv, DemuxTypes
  <2>2. CASE p \notin mChannels
    <3>1. p \in Pid
      BY <1>1 DEF TypeInv, ThreadTypes
    <3>2. mNextRequestSeq' = mNextRequestSeq + 1
      BY <1>2, <2>2 DEF AddDemuxFilter, AddFd
    <3> QED
      BY <1>2, <2>2, <3>1, <3>2, BooksGainAChannel DEF TypeInv, DemuxTypes
  <2> QED
    BY <2>1, <2>2
<1>5. ASSUME NEW u \in Thread
      PROVE  ThreadInOrder(u)'
  BY <1>2, <1>3, OthersStayInOrder DEF Only, ThreadInOrder
<1>6. \A c, s : s < mNextRequestSeq /\ s \in Int => (ChannelLives(c, s)' <=> ChannelLives(c, s))
  BY <1>2, <1>4 DEF ChannelLives, TypeInv, ThreadTypes
<1>7. ContextFilters' = ContextFilters
  <2>1. \A u \in Thread : Gone(u)' = Gone(u)
    BY <1>2, <1>3 DEF Gone, Closes, Only, SameThread
  <2>2. \A q \in DOMAIN mFilters : mFilters[q].seq \in Int
    BY DEF TypeInv, FilterTypes, FilterContext
  <2> QED
    BY <1>2, <1>6, <2>1, <2>2 DEF ContextFilters, Standing, Kept, Owners
<1>8. EnteringFilters' = EnteringFilters
  <2>1. \A u \in Thread : at[u].seq \in Int
    BY DEF TypeInv, ThreadTypes
  <2>2. \A u \in Thread : (Entering(u)' <=> Entering(u)) /\ (Entering(u) => at'[u] = at[u])
    BY <1>2, <1>3, <1>6, <2>1 DEF Entering, Only, SameThread, Owners
  <2> QED
    BY <2>2 DEF EnteringFilters
<1>9. ASSUME NEW c \in mChannels'
      PROVE  \/ HasFilter(c, attached')
             \/ \E u \in Thread :
                   /\ at'[u].pid = c
                   /\ \/ pc'[u] = "attach" /\ at'[u].seq = mFilterParams'[c].seq
                      \/ pc'[u] = "release"
  BY <1>2, <1>3, <1>4 DEF Owners, Only, SameThread
<1>10. /\ \A q \in DOMAIN mFilters' : mFilters'[q].seq < mNextRequestSeq'
       /\ \A u \in Thread : pc'[u] \in {"attach", "enter"} => at'[u].seq < mNextRequestSeq'
       /\ \A u \in Thread :
             pc'[u] \in {"create", "attach", "enter"} /\ at'[u].pid \in DOMAIN mFilters'
                => mFilters'[at'[u].pid].by # u
  <2>1. at'[t].seq < mNextRequestSeq'
    BY <1>2, <1>3, <1>4 DEF Books, ChannelIsServed
  <2>2. \A q \in DOMAIN mFilters : mFilters[q].seq < mNextRequestSeq'
    BY <1>4 DEF Owners, TypeInv, FilterTypes, DemuxTypes, FilterContext
  <2>3. ASSUME NEW u \in Thread \ {t}, pc'[u] \in {"attach", "enter"}
        PROVE  at'[u].seq < mNextRequestSeq'
    <3>1. at[u].seq \in Int
      BY DEF TypeInv, ThreadTypes
    <3> QED
      BY <1>3, <1>4, <2>3, <3>1 DEF Owners, TypeInv, DemuxTypes, Only, SameThread
  <2> QED
    BY <1>1, <1>2, <1>3, <2>1, <2>2, <2>3 DEF Owners, Only, SameThread
<1>11. Owners'
  BY <1>2, <1>7, <1>8, <1>9, <1>10 DEF Owners
<1> QED
  BY <1>4, <1>5, <1>11

-----------------------------------------------------------------------------
(* The reading thread.                                                     *)

(* A request dropped after a failed read is noted with its channel.        *)
LEMMA RequestDropped ==
    ASSUME IInv, fault = "none", NEW r \in mResponses, ReadFails(r)
    PROVE  Agreement'
<1> USE DEF IInv, Agreement
<1>1. /\ UNCHANGED <<pc, at, todo, dropping, mLock, Filters, live, kernel, leaked>>
      /\ deaf' = deaf \cup ({r.seq} \cap live)
      /\ RemoveFd(r.fd, r.seq)
  BY DEF ReadFails, Respond, Filters, parser, base, reading
<1>2. Owners' /\ \A u \in Thread : ThreadInOrder(u)'
  BY <1>1
  DEF Owners, ContextFilters, EnteringFilters, Standing, Kept, Gone, Entering, ChannelLives,
      HasFilter, ThreadInOrder, Closes, Filters
<1>3. Books'
  <2>1. CASE Requested(r.fd, r.seq)
    <3>1. /\ DOMAIN mRequests' = DOMAIN mRequests \ {r.fd}
          /\ \A fd \in DOMAIN mRequests' : mRequests'[fd] = mRequests[fd]
      BY <1>1, <2>1 DEF RemoveFd, Restrict
    <3>2. r.fd \in DOMAIN mRequests /\ mRequests[r.fd].seq = r.seq
      BY <2>1 DEF Requested, TypeInv, DemuxTypes, AnySeq
    <3>3. PICK p \in mChannels :
             mFilterParams[p].fd = r.fd /\ mFilterParams[p].seq = r.seq
      BY <3>2 DEF Books, RequestIsAChannels
    <3>4. r.seq \in deaf'
      BY <1>1, <3>3 DEF Books
    <3>5. ASSUME NEW c \in mChannels'
          PROVE  ChannelIsServed(c)'
      BY <1>1, <3>1, <3>3, <3>4 DEF Filters, Books, ChannelIsServed
    <3>6. ASSUME NEW fd \in DOMAIN mRequests'
          PROVE  RequestIsAChannels(fd)'
      BY <1>1, <3>1 DEF Filters, Books, RequestIsAChannels
    <3> QED
      BY <1>1, <3>5, <3>6 DEF Filters, Books
  <2>2. CASE ~Requested(r.fd, r.seq)
    BY <1>1, <2>2 DEF RemoveFd, Filters, Books, ChannelIsServed, RequestIsAChannels
  <2> QED
    BY <2>1, <2>2
<1> QED
  BY <1>2, <1>3

-----------------------------------------------------------------------------
(* Every step.                                                             *)

StillTheSame == UNCHANGED <<Filters, Descriptors>>

LEMMA AddStepKeeps ==
    ASSUME IInv, fault = "none", NEW t \in Thread, AddStep(t)
    PROVE  Agreement'
<1> USE DEF IInv
<1>1. CASE AddFilter(t)
  <2>1. /\ pc[t] = "add" /\ StillTheSame /\ mLock' = mLock /\ Only(t)
        /\ pc'[t] \in {"add", "create", "call", "idle"}
        /\ pc'[t] = "idle" => Closes(t)'
        /\ pc'[t] = "create" => at'[t].pid \notin DOMAIN mFilters
    BY <1>1
    DEF AddFilter, Goto, Handle, Nowhere, StillTheSame, Filters, Descriptors, parser, base, hw,
        looper, TypeInv, ThreadTypes, Only, SameThread, Closes
  <2> QED
    BY <2>1, OneThreadMoves DEF StillTheSame, ThreadInOrder
<1>2. CASE UseNull(t)
  BY <1>2 DEF UseNull, Agreement
<1>3. CASE CreateChannel(t)
  <2>1. CASE pc'[t] = "attach"
    BY <1>3, <2>1, ChannelGiven
  <2>2. CASE pc'[t] # "attach"
    <3>1. /\ pc[t] = "create" /\ StillTheSame /\ mLock' = mLock /\ Only(t)
          /\ pc'[t] = "add"
      BY <1>3, <2>2 DEF CreateChannel, Goto, StillTheSame, Filters, Descriptors, parser, looper,
                        TypeInv, ThreadTypes, Only, SameThread
    <3> QED
      BY <3>1, OneThreadMoves DEF StillTheSame, ThreadInOrder
  <2> QED
    BY <2>1, <2>2
<1>4. CASE AttachFilter(t)
  BY <1>4, FilterAttached DEF AttachFilter, Agreement
<1>5. CASE EnterContext(t)
  BY <1>5, ContextEntered
<1> QED
  BY <1>1, <1>2, <1>3, <1>4, <1>5 DEF AddStep

LEMMA RemoveStepKeeps ==
    ASSUME IInv, fault = "none", NEW t \in Thread, RemoveStep(t)
    PROVE  Agreement'
<1> USE DEF IInv
<1>1. CASE RemoveFilter(t)
  <2>1. /\ pc[t] = "remove" /\ mLock = Nobody /\ StillTheSame /\ Only(t)
        /\ at'[t] = at[t] /\ todo'[t] = todo[t]
        /\ \/ /\ at[t].pid \in DOMAIN mFilters /\ mLock' = t
              /\ dropping'[t] = {at[t].pid} /\ pc'[t] = "detach"
           \/ mLock' = mLock /\ pc'[t] = "add"
    BY <1>1
    DEF RemoveFilter, Goto, StillTheSame, Filters, Descriptors, base, hw, looper, TypeInv,
        ThreadTypes, Only, SameThread
  <2>2. ~Closes(t)' /\ mFilters' = mFilters
    BY <2>1 DEF Agreement, ThreadInOrder, Closes, StillTheSame, Filters
  <2>3. ThreadInOrder(t)' /\ (pc'[t] = "detach" => Gone(t)' = {})
    BY <2>1, <2>2 DEF ThreadInOrder, Gone
  <2> QED
    BY <2>1, <2>3, OneThreadMoves DEF StillTheSame
<1>2. CASE NothingToRemove(t)
  BY <1>2, NothingRemoved
<1>3. CASE DetachFilter(t)
  BY <1>3, FilterDetached DEF DetachFilter, Agreement
<1>4. CASE DestroyChannel(t)
  BY <1>4, ChannelDestroyed
<1> QED
  BY <1>1, <1>2, <1>3, <1>4 DEF RemoveStep

LEMMA ClientStepKeeps ==
    ASSUME IInv, fault = "none", NEW c \in Client,
           ClientStep(c) \/ ParseProgramInfoAsync(c) \/ TryWaitEcm(c) \/ Close(c)
    PROVE  Agreement'
<1> USE DEF IInv
<1>0. c \in Thread /\ c # Reader
  BY ThreadsAreApart DEF Thread
<1>1. CASE AddStep(c)
  BY <1>0, <1>1, AddStepKeeps
<1>2. CASE RemoveStep(c)
  BY <1>0, <1>2, RemoveStepKeeps
<1>3. CASE ClearAllFilters(c)
  <2>1. /\ pc[c] = "clear" /\ mLock = Nobody /\ mLock' = c /\ StillTheSame /\ Only(c)
        /\ at'[c] = at[c] /\ todo'[c] = todo[c]
        /\ dropping'[c] = DOMAIN mFilters /\ pc'[c] = "detach"
    BY <1>0, <1>3
    DEF ClearAllFilters, Goto, StillTheSame, Filters, Descriptors, base, hw, looper, TypeInv,
        ThreadTypes, Only, SameThread
  <2>2. Closes(c)' /\ mFilters' = mFilters
    BY <1>0, <2>1 DEF Agreement, ThreadInOrder, Closes, StillTheSame, Filters
  <2>3. ThreadInOrder(c)' /\ Gone(c)' = {}
    BY <2>1, <2>2 DEF ThreadInOrder, Gone
  <2> QED
    BY <1>0, <2>1, <2>3, OneThreadMoves DEF StillTheSame
<1>4. CASE TakeDemux(c) \/ Stop(c) \/ Join(c)
  <2>1. /\ pc[c] \in {"take", "stop", "join"} /\ StillTheSame /\ mLock' = mLock /\ Only(c)
        /\ pc'[c] \in {"stop", "join", "closed"}
    BY <1>0, <1>4
    DEF TakeDemux, Stop, Join, Goto, StillTheSame, Filters, Descriptors, parser, base, hw,
        looper, TypeInv, ThreadTypes, Only, SameThread
  <2> QED
    BY <1>0, <2>1, OneThreadMoves DEF StillTheSame, ThreadInOrder
<1>5. CASE ParseProgramInfoAsync(c) \/ TryWaitEcm(c)
  <2>1. /\ pc[c] = "idle" /\ StillTheSame /\ mLock' = mLock /\ Only(c)
        /\ \/ pc'[c] = "add"
           \/ pc'[c] = "remove" /\ todo'[c] = {EcmPid}
    BY <1>0, <1>5
    DEF ParseProgramInfoAsync, TryWaitEcm, Setup, Handle, Goto, StillTheSame, Filters,
        Descriptors, parser, base, hw, looper, TypeInv, ThreadTypes, Only, SameThread
  <2> QED
    BY <1>0, <2>1, OneThreadMoves DEF StillTheSame, ThreadInOrder, Closes
<1>6. CASE Close(c)
  <2>1. /\ pc[c] = "idle" /\ StillTheSame /\ mLock' = mLock /\ Only(c)
        /\ pc'[c] = "clear" /\ todo' = todo
    BY <1>0, <1>6 DEF Close, Goto, StillTheSame, Filters, Descriptors, parser, base, hw, looper,
                      TypeInv, ThreadTypes, Only, SameThread
  <2>2. Closes(c)'
    BY <1>0, <2>1 DEF Agreement, ThreadInOrder, Closes
  <2> QED
    BY <1>0, <2>1, <2>2, OneThreadMoves DEF StillTheSame, ThreadInOrder
<1> QED
  BY <1>1, <1>2, <1>3, <1>4, <1>5, <1>6 DEF ClientStep

LEMMA ReaderStepKeeps ==
    ASSUME IInv, fault = "none", ReaderStep
    PROVE  Agreement'
<1> USE DEF IInv
<1>0. Reader \in Thread
  BY DEF Thread
<1>1. CASE AddStep(Reader)
  BY <1>0, <1>1, AddStepKeeps
<1>2. CASE RemoveStep(Reader)
  BY <1>0, <1>2, RemoveStepKeeps
<1>3. ASSUME NEW r \in mResponses, ReadFails(r)
      PROVE  Agreement'
  BY <1>3, RequestDropped
<1>4. CASE \/ Poll \/ PollFails \/ Loop \/ UseParams \/ NotifyData \/ DataDone
           \/ \E r \in mResponses : Read(r)
  <2>1. /\ pc[Reader] \in {"poll", "dispatch", "use", "notify", "call"}
        /\ pc'[Reader] \in {"poll", "dispatch", "use", "notify", "call", "exited", "dead"}
        /\ mLock' = mLock /\ Only(Reader)
    BY <1>0, <1>4
    DEF Poll, PollFails, Loop, UseParams, NotifyData, DataDone, Read, Respond, ReaderAt, Goto,
        parser, TypeInv, ThreadTypes, Only, SameThread
  <2>2. StillTheSame
    BY <1>4
    DEF Poll, PollInner, PollFails, Loop, UseParams, NotifyData, DataDone, Read, Respond,
        StillTheSame, Filters, Descriptors, parser, base, hw, looper
  <2> QED
    BY <1>0, <2>1, <2>2, OneThreadMoves DEF StillTheSame, ThreadInOrder
<1>5. ASSUME NEW f \in toCall,
             (\E new \in BOOLEAN : NothingToAsk(f, new)) \/ OnPatParsed(f) \/ OnPmtParsed(f)
      PROVE  Agreement'
  <2>1. /\ pc[Reader] = "call" /\ pc'[Reader] \in {"call", "remove", "add"}
        /\ mLock' = mLock /\ Only(Reader) /\ StillTheSame
    BY <1>0, <1>5
    DEF NothingToAsk, OnPatParsed, OnPmtParsed, NotifyListener, ReaderAt, Goto, Handle, TypeInv,
        ThreadTypes, Only, SameThread, StillTheSame, Filters, Descriptors, hw, looper
  <2> QED
    BY <1>0, <2>1, OneThreadMoves DEF StillTheSame, ThreadInOrder, Closes
<1> QED
  BY <1>1, <1>2, <1>3, <1>4, <1>5 DEF ReaderStep

-----------------------------------------------------------------------------
(* Types.                                                                  *)

SameFilters == UNCHANGED <<mFilters, attached, lost, toCall, mVersion, version>>
SameDemux ==
    UNCHANGED <<mChannels, mFilterParams, mRequests, mResponses, mNextRequestSeq, kernel, epollSet,
                leaked>>

LEMMA FiltersStayTyped ==
    ASSUME FilterTypes, SameFilters
    PROVE  FilterTypes'
BY DEF FilterTypes, SameFilters

LEMMA DemuxStaysTyped ==
    ASSUME DemuxTypes, SameDemux
    PROVE  DemuxTypes'
BY DEF DemuxTypes, SameDemux

(* One thread goes on, perhaps to a pid and with other filters to add.     *)
LEMMA StepsTyped ==
    ASSUME ThreadTypes, NEW t \in Thread, NEW l \in Places, NEW p \in Pid, NEW T \in SUBSET Pid,
           pc' = pc \/ pc' = [pc EXCEPT ![t] = l],
           at' = at \/ at' = [at EXCEPT ![t] = [Nowhere EXCEPT !.pid = p]],
           todo' = todo \/ todo' = [todo EXCEPT ![t] = T],
           UNCHANGED <<dropping, mLock>>
    PROVE  ThreadTypes'
<1>1. [Nowhere EXCEPT !.pid = p] \in [pid : Pid, fd : {WakeFd}, seq : Int]
  BY DEF Nowhere, AnySeq
<1>2. at' \in [Thread -> [pid : Pid, fd : {WakeFd}, seq : Int]]
  BY <1>1 DEF ThreadTypes
<1>3. pc' \in [Thread -> Places] /\ todo' \in [Thread -> SUBSET Pid]
  BY DEF ThreadTypes
<1> QED
  BY <1>2, <1>3 DEF ThreadTypes

LEMMA AddStepTyped ==
    ASSUME IInv, fault = "none", NEW t \in Thread, AddStep(t)
    PROVE  TypeInv'
<1> USE DEF IInv, TypeInv
<1>1. CASE AddFilter(t)
  <2>1. ThreadTypes'
    <3>1. PICK l \in {"call", "idle", "add", "create"} : pc' = [pc EXCEPT ![t] = l]
      BY <1>1 DEF AddFilter, Goto
    <3>2. PICK p \in Pid : at' = [at EXCEPT ![t] = [Nowhere EXCEPT !.pid = p]]
      BY <1>1, PidsOfTables DEF AddFilter, Handle, Nowhere, ThreadTypes
    <3>3. PICK T \in SUBSET Pid : todo' = [todo EXCEPT ![t] = T] \/ todo' = todo
      BY <1>1 DEF AddFilter, ThreadTypes
    <3>4. UNCHANGED <<dropping, mLock>>
      BY <1>1 DEF AddFilter, parser
    <3> QED
      BY <3>1, <3>2, <3>3, <3>4, StepsTyped DEF Places
  <2>2. SameFilters /\ SameDemux /\ fault' = fault
    BY <1>1 DEF AddFilter, SameFilters, SameDemux, parser, base, hw, looper, reading, rest
  <2> QED
    BY <2>1, <2>2, FiltersStayTyped, DemuxStaysTyped
<1>2. CASE UseNull(t)
  <2>1. ThreadTypes'
    BY <1>2 DEF UseNull, Goto, parser, ThreadTypes, Places
  <2>2. SameFilters /\ SameDemux /\ fault' = "null"
    BY <1>2 DEF UseNull, SameFilters, SameDemux, parser, base, hw, looper, reading
  <2> QED
    BY <2>1, <2>2, FiltersStayTyped, DemuxStaysTyped
<1>3. CASE CreateChannel(t)
  <2>1. PICK p \in Pid : p = at[t].pid
    BY DEF ThreadTypes
  <2>2. SameFilters /\ fault' = fault
    BY <1>3 DEF CreateChannel, SameFilters, parser, reading, rest
  <2>3. CASE UNCHANGED <<mChannels, kernel, live, mFilterParams, looper>>
    <3>1. SameDemux
      BY <1>3, <2>3 DEF CreateChannel, SameDemux, looper
    <3>2. PICK s \in Int : at' = at \/ (p \in mChannels /\ at' = [at EXCEPT ![t].seq = s])
      BY <1>3, <2>1, <2>3 DEF CreateChannel, DemuxTypes, FilterParams
    <3>3. ThreadTypes'
      BY <1>3, <3>2 DEF CreateChannel, Goto, parser, ThreadTypes, Places
    <3> QED
      BY <2>2, <3>1, <3>3, FiltersStayTyped, DemuxStaysTyped
  <2>4. CASE /\ FreeFds # {} /\ AddDemuxFilter(p)
             /\ mChannels' = mChannels \cup {p}
             /\ at' = [at EXCEPT ![t].seq = mNextRequestSeq]
             /\ Goto(t, "attach")
    <3> DEFINE fd == Min(FreeFds)
    <3>1. fd \in Fd
      BY <2>4, WakeFdIsApart, MinIsMember DEF FreeFds
    <3> HIDE DEF fd
    <3>2. DemuxTypes'
      BY <1>3, <2>4, <3>1 DEF CreateChannel, AddDemuxFilter, OpenDescriptor, AddFd, DemuxTypes,
                              FilterParams, fd
    <3>3. ThreadTypes'
      BY <1>3, <2>4 DEF CreateChannel, Goto, parser, ThreadTypes, DemuxTypes, Places
    <3> QED
      BY <2>2, <3>2, <3>3, FiltersStayTyped
  <2> QED
    BY <1>3, <2>1, <2>3, <2>4 DEF CreateChannel
<1>4. CASE AttachFilter(t)
  <2>1. ThreadTypes'
    BY <1>4 DEF AttachFilter, Goto, parser, ThreadTypes, Places
  <2>2. FilterTypes'
    <3>1. at[t].pid \in Pid
      BY DEF ThreadTypes
    <3> QED
      BY <1>4, <3>1 DEF AttachFilter, Attach, parser, reading, FilterTypes, Never
  <2>3. SameDemux /\ fault' \in {"none", "channel"}
    BY <1>4 DEF AttachFilter, SameDemux, hw, looper
  <2> QED
    BY <2>1, <2>2, <2>3, DemuxStaysTyped
<1>5. CASE EnterContext(t)
  <2>1. ThreadTypes'
    BY <1>5 DEF EnterContext, Goto, ThreadTypes, Places
  <2>2. FilterTypes'
    <3>1. at[t].pid \in Pid /\ at[t].seq \in Int
      BY DEF ThreadTypes
    <3> QED
      BY <1>5, <3>1 DEF EnterContext, base, reading, FilterTypes, FilterContext
  <2>3. SameDemux /\ fault' = fault
    BY <1>5 DEF EnterContext, SameDemux, base, hw, looper, rest
  <2> QED
    BY <2>1, <2>2, <2>3, DemuxStaysTyped
<1> QED
  BY <1>1, <1>2, <1>3, <1>4, <1>5 DEF AddStep

LEMMA RemovedTyped ==
    ASSUME ThreadTypes, FilterTypes, NEW t \in Thread,
           DropNext(t) \/ Removed(t) \/ (Goto(t, "release") /\ UNCHANGED <<mLock, mFilters>>)
    PROVE  /\ pc' \in [Thread -> Places] /\ mLock' \in Thread \cup {Nobody}
           /\ mFilters' \in [DOMAIN mFilters' -> FilterContext] /\ DOMAIN mFilters' \subseteq Pid
<1>1. CASE Removed(t)
  <2>1. pc' \in [Thread -> Places] /\ mLock' \in Thread \cup {Nobody}
    BY <1>1 DEF Removed, Goto, ThreadTypes, Places
  <2>2. mFilters' \in [DOMAIN mFilters' -> FilterContext] /\ DOMAIN mFilters' \subseteq Pid
    BY <1>1 DEF Removed, ContextsLeft, Restrict, FilterTypes
  <2> QED
    BY <2>1, <2>2
<1>2. CASE Goto(t, "detach") \/ Goto(t, "release")
  BY <1>2 DEF Removed, DropNext, Goto, ContextsLeft, Restrict, ThreadTypes, FilterTypes, Places
<1> QED
  BY <1>1, <1>2 DEF DropNext

LEMMA RemoveStepTyped ==
    ASSUME IInv, fault = "none", NEW t \in Thread, RemoveStep(t)
    PROVE  TypeInv'
<1> USE DEF IInv, TypeInv
<1>1. CASE RemoveFilter(t)
  <2>1. ThreadTypes'
    BY <1>1 DEF RemoveFilter, Goto, ThreadTypes, Places
  <2>2. SameFilters /\ SameDemux /\ fault' = fault
    BY <1>1 DEF RemoveFilter, SameFilters, SameDemux, base, hw, looper, reading, rest
  <2> QED
    BY <2>1, <2>2, FiltersStayTyped, DemuxStaysTyped
<1>2. CASE NothingToRemove(t)
  <2>1. ThreadTypes'
    BY <1>2, RemovedTyped DEF NothingToRemove, ThreadTypes
  <2>2. FilterTypes'
    BY <1>2, RemovedTyped DEF NothingToRemove, base, reading, FilterTypes
  <2>3. SameDemux /\ fault' = fault
    BY <1>2 DEF NothingToRemove, SameDemux, base, hw, looper, rest
  <2> QED
    BY <2>1, <2>2, <2>3, DemuxStaysTyped
<1>3. CASE DetachFilter(t)
  <2>1. PICK p \in dropping[t] :
          /\ at' = [at EXCEPT ![t].pid = p]
          /\ dropping' = [dropping EXCEPT ![t] = @ \ {p}]
          /\ \/ /\ fault' = "channel" /\ Goto(t, "dead")
                /\ UNCHANGED <<attached, mLock, mFilters>>
             \/ /\ attached' \subseteq attached /\ fault' = fault
                /\ DropNext(t) \/ (Goto(t, "release") /\ UNCHANGED <<mLock, mFilters>>)
    BY <1>3 DEF DetachFilter
  <2>2. UNCHANGED <<todo, lost, toCall, mVersion, version>> /\ SameDemux
    BY <1>3 DEF DetachFilter, reading, hw, looper, SameDemux
  <2>3. /\ pc' \in [Thread -> Places] /\ mLock' \in Thread \cup {Nobody}
        /\ mFilters' \in [DOMAIN mFilters' -> FilterContext] /\ DOMAIN mFilters' \subseteq Pid
    <3>1. CASE Goto(t, "dead") /\ UNCHANGED <<mLock, mFilters>>
      BY <3>1 DEF Goto, ThreadTypes, FilterTypes, Places
    <3>2. CASE DropNext(t) \/ (Goto(t, "release") /\ UNCHANGED <<mLock, mFilters>>)
      BY <3>2, RemovedTyped
    <3> QED
      BY <2>1, <3>1, <3>2
  <2>4. ThreadTypes'
    BY <2>1, <2>2, <2>3 DEF ThreadTypes
  <2>5. FilterTypes'
    BY <2>1, <2>2, <2>3 DEF FilterTypes
  <2> QED
    BY <2>1, <2>2, <2>4, <2>5, DemuxStaysTyped
<1>4. CASE DestroyChannel(t)
  <2>1. PICK p : p = at[t].pid
    OBVIOUS
  <2>2. p \in mChannels /\ mFilterParams[p] \in FilterParams
    BY <1>4, <2>1 DEF DestroyChannel, Agreement, ThreadInOrder, DemuxTypes
  <2>3. /\ RemoveDemuxFilter(p) /\ mChannels' = mChannels \ {p}
        /\ attached' \subseteq attached /\ lost' \subseteq lost /\ DropNext(t)
        /\ UNCHANGED <<dropping, at, todo, mVersion, mNextRequestSeq, mResponses, version, toCall,
                       fault>>
    BY <1>4, <2>1 DEF DestroyChannel, reading, rest
  <2>4. DemuxTypes'
    BY <2>2, <2>3
    DEF RemoveDemuxFilter, CloseDescriptor, RemoveFd, Restrict, DemuxTypes, FilterParams
  <2>5. ThreadTypes'
    BY <2>3, RemovedTyped DEF ThreadTypes
  <2>6. FilterTypes'
    BY <2>3, RemovedTyped DEF FilterTypes
  <2> QED
    BY <2>3, <2>4, <2>5, <2>6
<1> QED
  BY <1>1, <1>2, <1>3, <1>4 DEF RemoveStep

LEMMA ClientStepTyped ==
    ASSUME IInv, fault = "none", NEW c \in Client,
           ClientStep(c) \/ ParseProgramInfoAsync(c) \/ TryWaitEcm(c) \/ Close(c)
    PROVE  TypeInv'
<1> USE DEF IInv, TypeInv
<1>0. c \in Thread
  BY DEF Thread
<1>1. CASE AddStep(c)
  BY <1>0, <1>1, AddStepTyped
<1>2. CASE RemoveStep(c)
  BY <1>0, <1>2, RemoveStepTyped
<1>3. CASE ClearAllFilters(c) \/ Join(c) \/ Close(c) \/ TakeDemux(c) \/ Stop(c)
  <2>1. ThreadTypes'
    <3>1. CASE ClearAllFilters(c)
      BY <1>0, <3>1 DEF ClearAllFilters, Goto, ThreadTypes, FilterTypes, Places
    <3>2. CASE Join(c) \/ Close(c) \/ Stop(c)
      BY <1>0, <3>2 DEF Join, Close, Stop, Goto, parser, ThreadTypes, Places
    <3>3. CASE TakeDemux(c)
      BY <1>0, <3>3, PidsOfTables DEF TakeDemux, Goto, Nowhere, AnySeq, ThreadTypes, Places
    <3> QED
      BY <1>3, <3>1, <3>2, <3>3
  <2>2. SameFilters /\ SameDemux /\ fault' = fault
    BY <1>3
    DEF ClearAllFilters, Join, Close, TakeDemux, Stop, SameFilters, SameDemux, parser, base, hw,
        looper, reading, rest
  <2> QED
    BY <2>1, <2>2, FiltersStayTyped, DemuxStaysTyped
<1>4. CASE ParseProgramInfoAsync(c) \/ TryWaitEcm(c)
  <2>1. ThreadTypes'
    <3>1. PICK T \in SUBSET Pid, l \in {"add", "remove"} :
             pc' = [pc EXCEPT ![c] = l] /\ todo' = [todo EXCEPT ![c] = T]
      BY <1>4, PidsOfTables DEF ParseProgramInfoAsync, TryWaitEcm, Setup, Goto
    <3>2. at' = at \/ at' = [at EXCEPT ![c] = [Nowhere EXCEPT !.pid = EcmPid]]
      BY <1>4 DEF ParseProgramInfoAsync, TryWaitEcm, Handle
    <3>3. UNCHANGED <<dropping, mLock>>
      BY <1>4 DEF ParseProgramInfoAsync, TryWaitEcm, Setup, parser
    <3> QED
      BY <1>0, <3>1, <3>2, <3>3, PidsOfTables, StepsTyped DEF Places
  <2>2. SameFilters /\ SameDemux /\ fault' = fault
    BY <1>4
    DEF ParseProgramInfoAsync, TryWaitEcm, Setup, SameFilters, SameDemux, parser, base, hw,
        looper, reading
  <2> QED
    BY <2>1, <2>2, FiltersStayTyped, DemuxStaysTyped
<1> QED
  BY <1>1, <1>2, <1>3, <1>4 DEF ClientStep

LEMMA ReaderStepTyped ==
    ASSUME IInv, fault = "none", ReaderStep
    PROVE  TypeInv'
<1> USE DEF IInv, TypeInv
<1>0. Reader \in Thread
  BY DEF Thread
<1>1. CASE AddStep(Reader)
  BY <1>0, <1>1, AddStepTyped
<1>2. CASE RemoveStep(Reader)
  BY <1>0, <1>2, RemoveStepTyped
<1>3. ASSUME NEW r \in mResponses, ReadFails(r) \/ Read(r)
      PROVE  TypeInv'
  <2>1. DemuxTypes'
    BY <1>3 DEF ReadFails, Read, Respond, RemoveFd, Restrict, base, DemuxTypes
  <2>2. ThreadTypes'
    BY <1>0, <1>3 DEF ReadFails, Read, Respond, Goto, parser, ThreadTypes, Places
  <2>3. FilterTypes' /\ fault' = fault
    BY <1>3 DEF ReadFails, Read, Respond, parser, base, reading, rest, FilterTypes
  <2> QED
    BY <2>1, <2>2, <2>3
<1>4. CASE Poll
  <2>1. DemuxTypes'
    BY <1>4 DEF Poll, PollInner, Response, base, hw, DemuxTypes
  <2>2. ThreadTypes'
    BY <1>0, <1>4 DEF Poll, Goto, parser, ThreadTypes, Places
  <2>3. SameFilters /\ fault' = fault
    BY <1>4 DEF Poll, SameFilters, parser, base, reading, rest
  <2> QED
    BY <2>1, <2>2, <2>3, FiltersStayTyped
<1>5. CASE PollFails \/ Loop \/ UseParams \/ NotifyData \/ DataDone
  <2>1. ThreadTypes'
    BY <1>0, <1>5
    DEF PollFails, Loop, UseParams, NotifyData, DataDone, Goto, parser, ThreadTypes, Places
  <2>2. FilterTypes'
    BY <1>5
    DEF PollFails, Loop, UseParams, NotifyData, DataDone, FiltersOf, parser, base, reading,
        FilterTypes
  <2>3. SameDemux /\ fault' \in {"none", "params"}
    BY <1>5
    DEF PollFails, Loop, UseParams, NotifyData, DataDone, SameDemux, base, hw, looper, rest
  <2> QED
    BY <2>1, <2>2, <2>3, DemuxStaysTyped
<1>6. ASSUME NEW f \in toCall,
             (\E new \in BOOLEAN : NothingToAsk(f, new)) \/ OnPatParsed(f) \/ OnPmtParsed(f)
      PROVE  TypeInv'
  <2>1. PICK new \in BOOLEAN : NotifyListener(f, new)
    BY <1>6 DEF NothingToAsk, OnPatParsed, OnPmtParsed
  <2>2. FilterTypes'
    BY <2>1 DEF NotifyListener, FilterTypes
  <2>3. SameDemux /\ fault' = fault /\ UNCHANGED <<dropping, mLock>>
    BY <2>1 DEF NotifyListener, SameDemux, hw, looper, rest
  <2>4. f[1] \in Pid
    BY DEF FilterTypes
  <2>5. ThreadTypes'
    <3>1. PICK l \in {"call", "remove", "add"} : pc' = pc \/ pc' = [pc EXCEPT ![Reader] = l]
      BY <1>6 DEF NothingToAsk, OnPatParsed, OnPmtParsed, Goto
    <3>2. PICK T \in SUBSET Pid : todo' = todo \/ todo' = [todo EXCEPT ![Reader] = T]
      <4>1. Names[Pat] \in SUBSET Pid /\ Names[f[1]] \ mEcmPidSet \in SUBSET Pid
        BY <2>4, PidsOfTables
      <4> QED
        BY <1>6, <4>1 DEF NothingToAsk, OnPatParsed, OnPmtParsed
    <3>3. at' = at \/ at' = [at EXCEPT ![Reader] = [Nowhere EXCEPT !.pid = Pat]]
      BY <1>6 DEF NothingToAsk, OnPatParsed, OnPmtParsed, Handle
    <3> QED
      BY <1>0, <2>3, <3>1, <3>2, <3>3, PidsOfTables, StepsTyped DEF Places
  <2> QED
    BY <2>2, <2>3, <2>5, DemuxStaysTyped
<1> QED
  BY <1>1, <1>2, <1>3, <1>4, <1>5, <1>6 DEF ReaderStep

-----------------------------------------------------------------------------
LEMMA StutteringKeepsInv == IInv /\ UNCHANGED vars => IInv'
<1> SUFFICES ASSUME IInv, UNCHANGED vars
             PROVE  IInv'
  OBVIOUS
<1>1. UNCHANGED <<pc, at, todo, dropping, parser, base, hw, looper, reading, rest>>
  BY DEF vars
<1>2. TypeInv'
  BY <1>1
  DEF IInv, TypeInv, ThreadTypes, FilterTypes, DemuxTypes, parser, base, hw, looper, reading,
      rest
<1>3. fault' = fault /\ UNCHANGED <<Filters, Descriptors>>
  BY <1>1 DEF parser, base, hw, looper, rest, Filters, Descriptors
<1>4. Books => Books'
  BY <1>3, BooksStay DEF Filters
<1>5. (\A t \in Thread : ThreadInOrder(t)) => (\A t \in Thread : ThreadInOrder(t)')
  BY <1>1 DEF parser, base, ThreadInOrder, Closes
<1>6. Owners => Owners'
  <2>1. UNCHANGED <<pc, at, todo, dropping, Filters>>
    BY <1>1, <1>3
  <2>2. \A u \in Thread : Gone(u)' = Gone(u)
    BY <2>1 DEF Gone, Closes, Filters
  <2>3. ContextFilters' = ContextFilters
    BY <2>1, <2>2 DEF ContextFilters, Standing, Kept, ChannelLives, Filters
  <2>4. EnteringFilters' = EnteringFilters
    BY <2>1 DEF EnteringFilters, Entering, ChannelLives, Filters
  <2> QED
    BY <2>1, <2>3, <2>4 DEF Owners, HasFilter, Filters
<1> QED
  BY <1>2, <1>3, <1>4, <1>5, <1>6 DEF IInv, Agreement

LEMMA NextKeepsInv == IInv /\ [Next]_vars => IInv'
<1> SUFFICES ASSUME IInv, Next
             PROVE  IInv'
  BY StutteringKeepsInv
<1>1. CASE fault = "none" /\ ReaderStep
  BY <1>1, ReaderStepKeeps, ReaderStepTyped DEF IInv
<1>2. ASSUME NEW c \in Client, fault = "none",
             ClientStep(c) \/ ParseProgramInfoAsync(c) \/ TryWaitEcm(c) \/ Close(c)
      PROVE  IInv'
  BY <1>2, ClientStepKeeps, ClientStepTyped DEF IInv
<1> QED
  BY <1>1, <1>2 DEF Next

(* Whenever no thread is in the middle of adding or removing a filter,     *)
(* what the parser's contexts, the channels, the looper's requests and the *)
(* kernel's descriptors say of one another agrees: no descriptor is open,  *)
(* polled or allocated for a filter that is gone, and a channel that is    *)
(* there is served (AmlHwDemux.cpp, AmlDemuxBase.cpp).                     *)
THEOREM FiltersAreServed == Spec => []BooksAgree
<1>1. Init => IInv
  BY Initially
<1>2. IInv /\ [Next]_vars => IInv'
  BY NextKeepsInv
<1>3. IInv => BooksAgree
  BY InvariantAgrees
<1> QED
  BY <1>1, <1>2, <1>3, PTL DEF Spec
=============================================================================
