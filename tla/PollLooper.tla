----------------------------- MODULE PollLooper -----------------------------
(***************************************************************************)
(* utils/AmlMpLooper.cpp: the looper that polls file descriptors.          *)
(*                                                                         *)
(* Any thread may add and remove requests under mLock.  The thread that    *)
(* polls waits in epoll_wait without the lock, takes it to turn the events *)
(* into responses, gives it up and then calls the callback of each         *)
(* response with the data pointer of the request, which may have been      *)
(* removed by then.  A request is named by its descriptor and by a         *)
(* sequence number, because descriptors are used again.                    *)
(*                                                                         *)
(* The messages of the looper are not modelled: nothing in the repository  *)
(* sends one.                                                              *)
(***************************************************************************)
EXTENDS Integers, FiniteSets, Functions

CONSTANTS
    Fd,                     \* the descriptors a process can hold
    MaxEvents               \* EPOLL_MAX_EVENTS

VARIABLES
    mRequests,              \* descriptor -> [data, seq], for those requested
    mNextRequestSeq,
    mEpollRebuildRequired,
    epollSet,               \* the kernel's side: descriptors waited for
    wakeEvent,              \* the wake event's counter is not zero
    mResponses              \* the responses not yet handled

looper == <<mRequests, mNextRequestSeq, mEpollRebuildRequired, epollSet,
            wakeEvent, mResponses>>

AnySeq == -1
WakeFd == 0
ASSUME WakeFdIsApart == Fd \subseteq Nat \ {WakeFd}

PollLooperInit ==
    /\ mRequests = <<>> /\ mNextRequestSeq = 0 /\ mEpollRebuildRequired = FALSE
    /\ epollSet = {} /\ wakeEvent = FALSE
    /\ mResponses = {}

\* A new request.  Where the descriptor still has one, from before it was closed
\* and used again, the kernel may hold a dead entry: the set is built anew.
AddFd(fd, data) ==
    LET reused == fd \in DOMAIN mRequests /\ fd \notin epollSet
    IN  /\ mRequests' = [f \in DOMAIN mRequests \cup {fd} |->
                            IF f = fd THEN [data |-> data, seq |-> mNextRequestSeq]
                                      ELSE mRequests[f]]
        /\ mNextRequestSeq' = mNextRequestSeq + 1
        /\ epollSet' = epollSet \cup {fd}
        /\ mEpollRebuildRequired' = (mEpollRebuildRequired \/ reused)
        /\ wakeEvent' = (wakeEvent \/ (reused /\ ~mEpollRebuildRequired))

\* Mutant: the sequence number of the request is not compared.
RequestedAnyhow(fd, seq) == fd \in DOMAIN mRequests

\* The request is the one meant: another one for the same descriptor is not.
Requested(fd, seq) ==
    fd \in DOMAIN mRequests /\ seq \in {AnySeq, mRequests[fd].seq}

\* removeFd: the request goes even where the kernel has no entry for it.
RemoveFd(fd, seq) ==
    IF Requested(fd, seq)
    THEN LET stale == fd \notin epollSet IN
         /\ mRequests' = Restrict(mRequests, DOMAIN mRequests \ {fd})
         /\ epollSet' = epollSet \ {fd}
         /\ mEpollRebuildRequired' = (mEpollRebuildRequired \/ stale)
         /\ wakeEvent' = (wakeEvent \/ (stale /\ ~mEpollRebuildRequired))
    ELSE UNCHANGED <<mRequests, epollSet, mEpollRebuildRequired, wakeEvent>>

Response(fd) == [fd |-> fd, data |-> mRequests[fd].data, seq |-> mRequests[fd].seq]

\* pollInner up to the responses.  epoll_wait returns some events, or none after its
\* timeout.  Then, under mLock, a set to be rebuilt comes first and drops them; else
\* events of descriptors no longer requested are ignored.
PollInner ==
    /\ \E events \in SUBSET (epollSet \cup IF wakeEvent THEN {WakeFd} ELSE {}) :
        /\ Cardinality(events) <= MaxEvents
        /\ IF mEpollRebuildRequired
           THEN /\ epollSet' = DOMAIN mRequests
                /\ mEpollRebuildRequired' = FALSE
                /\ UNCHANGED <<wakeEvent, mResponses>>
           ELSE /\ wakeEvent' = (wakeEvent /\ WakeFd \notin events)
                /\ mResponses' = {Response(fd) : fd \in events \cap DOMAIN mRequests}
                /\ UNCHANGED <<epollSet, mEpollRebuildRequired>>
    /\ UNCHANGED <<mRequests, mNextRequestSeq>>
=============================================================================
