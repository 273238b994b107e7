------------------------------- MODULE HwDemux -------------------------------
(***************************************************************************)
(* The hardware demux with its reading thread (demux/AmlHwDemux.cpp), the  *)
(* channels and filters of its base class (demux/AmlDemuxBase.cpp), and    *)
(* the part of the parser that asks for filters and closes the demux       *)
(* (demux/AmlTsParser.cpp).                                                *)
(*                                                                         *)
(* A channel is named by its pid; a filter by the pid and the thread that  *)
(* made it, since two threads may ask for the same pid at once.  A         *)
(* descriptor serves the pid it was opened for; open returns the lowest    *)
(* free one.  What a section says is kept to the pids it makes the parser  *)
(* ask for.                                                                *)
(***************************************************************************)
EXTENDS PollLooper, FiniteSetsExt

CONSTANTS
    Client,             \* threads of the player that use the parser
    Setter,             \* those that ask it for filters
    Reader,             \* the thread of the demux
    Nobody,
    Names,              \* pid -> the pids whose filters its table makes the parser add
    EcmPid,             \* the pid the player asks for itself
    Version,            \* versions of a section
    Faults,             \* calls of the kernel that may fail
    MaxParses, MaxEcms \* bounds of the model

Pat == 0
Pid == DOMAIN Names
Thread == Client \cup {Reader}
ASSUME ThreadsAreApart ==
    Setter \subseteq Client /\ Reader \notin Client /\ Nobody \notin Thread
ASSUME PidsOfTables ==
    {Pat, EcmPid} \subseteq Pid /\ \A p \in Pid : Names[p] \subseteq Pid

VARIABLES
    pc,             \* thread -> where it is
    at,             \* thread -> [pid, fd, seq] it works on
    todo,           \* thread -> pids it has still to add filters for
    dropping,       \* thread -> pids whose filters it has still to remove
    mLock,          \* Parser::mLock: who holds it
    mFilters,       \* pid -> [by, seq]: whose filter its context holds, which channel
    lost,           \* filters whose context was dropped: the pid had one by then
    mEcmPidSet,
    mDemux,         \* the parser still has its demux
    mChannels,      \* pids with a channel
    attached,       \* the filters attached to their channels
    mVersion,       \* filter -> the version it was last called with
    mStopped,
    mFilterParams,  \* pid -> [fd, seq]: what the demux's map has
    live,           \* the requests whose FilterParams are not freed
    kernel,         \* open descriptor -> the pid it serves
    leaked,         \* descriptors that could not be stopped and are never closed
    deaf,           \* requests that were dropped because a read failed
    response,       \* the response the reader handles
    version,        \* of the section it has read
    toCall,         \* the filters it has still to call
    fault,          \* what was used after it was gone
    budget          \* calls left: the bounds of the model

parser == <<mLock, mFilters, lost, mEcmPidSet, mDemux>>
base == <<mChannels, attached, mVersion>>
hw == <<mStopped, mFilterParams, live, kernel, leaked, deaf>>
reading == <<response, version, toCall>>
rest == <<fault, budget>>
vars == <<pc, at, todo, dropping, parser, base, hw, looper, reading, rest>>

Never == -1
Nowhere == [pid |-> Pat, fd |-> WakeFd, seq |-> AnySeq]
NoResponse == [fd |-> WakeFd, data |-> Pat, seq |-> AnySeq]

Init ==
    /\ pc = [t \in Thread |-> IF t = Reader THEN "poll" ELSE "idle"]
    /\ at = [t \in Thread |-> Nowhere]
    /\ todo = [t \in Thread |-> {}] /\ dropping = [t \in Thread |-> {}]
    /\ mLock = Nobody /\ mFilters = <<>> /\ lost = {} /\ mEcmPidSet = {} /\ mDemux = TRUE
    /\ mChannels = {} /\ attached = {}
    /\ mVersion = [f \in Pid \X Thread |-> Never]
    /\ mStopped = FALSE /\ mFilterParams = <<>> /\ live = {} /\ kernel = <<>>
    /\ leaked = {} /\ deaf = {}
    /\ PollLooperInit
    /\ response = NoResponse /\ version = Never /\ toCall = {}
    /\ fault = "none" /\ budget = [parses |-> MaxParses, ecms |-> MaxEcms]

Goto(t, l) == pc' = [pc EXCEPT ![t] = l]
Handle(t, p) == at' = [at EXCEPT ![t] = [Nowhere EXCEPT !.pid = p]]

---------------------------------------------------------------------------
(* addFilter, by a client or by a callback on the reader's thread          *)

\* The contexts are looked at without the lock.
AddFilter(t) ==
    /\ pc[t] = "add"
    /\ IF todo[t] = {}
       THEN /\ Goto(t, IF t = Reader THEN "call" ELSE "idle")
            /\ at' = [at EXCEPT ![t] = Nowhere]
            /\ UNCHANGED todo
       ELSE \E p \in todo[t] :
            /\ todo' = [todo EXCEPT ![t] = @ \ {p}]
            /\ Handle(t, p)
            /\ Goto(t, IF p \in DOMAIN mFilters THEN "add" ELSE "create")
    /\ UNCHANGED <<dropping, parser, base, hw, looper, reading, rest>>

\* A demux that close has taken meanwhile is used through a null pointer.
UseNull(t) ==
    /\ pc[t] \in {"create", "attach"} \/ (pc[t] = "detach" /\ dropping[t] # {})
    /\ ~mDemux
    /\ fault' = "null" /\ Goto(t, "dead")
    /\ UNCHANGED <<at, todo, dropping, parser, base, hw, looper, reading, budget>>

FreeFds == Fd \ DOMAIN kernel

\* HwTsParser::addDemuxFilter: a descriptor is opened, set up and started.
OpenDescriptor(p, fd) ==
    kernel' = [f \in DOMAIN kernel \cup {fd} |-> IF f = fd THEN p ELSE kernel[f]]

\* The looper gets the address of the parameters, which the demux keeps in its map.
AddDemuxFilter(p) ==
    LET fd == Min(FreeFds)
        params == [fd |-> fd, seq |-> mNextRequestSeq]
    IN  /\ OpenDescriptor(p, fd)
        /\ live' = live \cup {params.seq}
        /\ mFilterParams' = [q \in DOMAIN mFilterParams \cup {p} |->
                                IF q = p THEN params ELSE mFilterParams[q]]
        /\ AddFd(fd, p)
        /\ UNCHANGED mResponses

\* createChannel under the demux's lock: one that exists is returned as it is; a
\* demux that is stopped or cannot open a descriptor gives none.
CreateChannel(t) ==
    /\ pc[t] = "create" /\ mDemux
    /\ LET p == at[t].pid IN
       \/ /\ ~mStopped /\ p \notin mChannels /\ FreeFds # {}
          /\ AddDemuxFilter(p)
          /\ mChannels' = mChannels \cup {p}
          /\ at' = [at EXCEPT ![t].seq = mNextRequestSeq]
          /\ Goto(t, "attach")
       \/ /\ ~mStopped /\ p \in mChannels
          /\ at' = [at EXCEPT ![t].seq = mFilterParams[p].seq]
          /\ Goto(t, "attach")
          /\ UNCHANGED <<mChannels, kernel, live, mFilterParams, looper>>
       \/ /\ \/ mStopped
             \/ p \notin mChannels /\ (FreeFds = {} \/ "open" \in Faults)
          /\ Goto(t, "add")
          /\ UNCHANGED <<at, mChannels, kernel, live, mFilterParams, looper>>
    /\ UNCHANGED <<todo, dropping, parser, attached, mVersion, mStopped,
                   leaked, deaf, reading, rest>>

\* The channel someone was given is the one the demux has: only who made it holds a
\* reference, so it may have been destroyed.
ChannelLives(p, seq) == p \in mChannels /\ mFilterParams[p].seq = seq

\* Channel::attachFilter: from here on the filter is called.
Attach(f) ==
    /\ attached' = attached \cup {f}
    /\ mVersion' = [mVersion EXCEPT ![f] = Never]

\* createFilter and attachFilter of the base class.
AttachFilter(t) ==
    /\ pc[t] = "attach" /\ mDemux
    /\ IF ChannelLives(at[t].pid, at[t].seq)
       THEN /\ Attach(<<at[t].pid, t>>)
            /\ Goto(t, "enter")
            /\ UNCHANGED fault
       ELSE /\ fault' = "channel" /\ Goto(t, "dead")
            /\ UNCHANGED <<attached, mVersion>>
    /\ UNCHANGED <<at, todo, dropping, parser, mChannels, hw, looper, reading, budget>>

\* The context enters the map only if the pid has none by now.
EnterContext(t) ==
    /\ pc[t] = "enter" /\ mLock = Nobody
    /\ LET p == at[t].pid IN
       IF p \in DOMAIN mFilters
       THEN lost' = lost \cup ({<<p, t>>} \cap attached) /\ UNCHANGED mFilters
       ELSE /\ mFilters' = [q \in DOMAIN mFilters \cup {p} |->
                    IF q = p THEN [by |-> t, seq |-> at[t].seq] ELSE mFilters[q]]
            /\ UNCHANGED lost
    /\ Goto(t, "add")
    /\ UNCHANGED <<at, todo, dropping, mLock, mEcmPidSet, mDemux, base, hw, looper, reading,
                   rest>>

---------------------------------------------------------------------------
(* removeFilter and clearAllFilters: the parser's lock is held throughout  *)

\* One that has no context is not an error.
RemoveFilter(t) ==
    /\ pc[t] = "remove" /\ mLock = Nobody
    /\ IF at[t].pid \in DOMAIN mFilters
       THEN /\ mLock' = t
            /\ dropping' = [dropping EXCEPT ![t] = {at[t].pid}]
            /\ Goto(t, "detach")
       ELSE Goto(t, "add") /\ UNCHANGED <<mLock, dropping>>
    /\ UNCHANGED <<at, todo, mFilters, lost, mEcmPidSet, mDemux, base, hw, looper, reading, rest>>

ClearAllFilters(c) ==
    /\ pc[c] = "clear" /\ mLock = Nobody
    /\ mLock' = c
    /\ dropping' = [dropping EXCEPT ![c] = DOMAIN mFilters]
    /\ Goto(c, "detach")
    /\ UNCHANGED <<at, todo, mFilters, lost, mEcmPidSet, mDemux, base, hw, looper, reading, rest>>

\* A client that removes without filters to add is in close.
Closes(t) == t # Reader /\ todo[t] = {}

\* The contexts that are left: none after clearAllFilters.
ContextsLeft(t) ==
    IF Closes(t) THEN <<>> ELSE Restrict(mFilters, DOMAIN mFilters \ {at[t].pid})

\* After the last filter the contexts and the lock go.  removeFilter goes on to the
\* filters to add, close to the demux.
Removed(t) ==
    /\ mLock' = Nobody
    /\ mFilters' = ContextsLeft(t)
    /\ Goto(t, IF Closes(t) THEN "take" ELSE "add")

DropNext(t) ==
    IF dropping'[t] = {} THEN Removed(t)
    ELSE Goto(t, "detach") /\ UNCHANGED <<mLock, mFilters>>

NothingToRemove(t) ==
    /\ pc[t] = "detach" /\ dropping[t] = {}
    /\ Removed(t)
    /\ UNCHANGED <<at, todo, dropping, lost, mEcmPidSet, mDemux, base, hw, looper, reading, rest>>

HasFilter(p, filters) == \E f \in filters : f[1] = p

\* detachFilter and destroyFilter; then hasFilter of destroyChannel, which leaves a
\* channel alone that has another filter.  One that the same thread lost is another
\* object and stays.
DetachFilter(t) ==
    /\ pc[t] = "detach" /\ mDemux
    /\ \E p \in dropping[t] :
        LET left == attached \ ({<<p, mFilters[p].by>>} \ lost) IN
        /\ at' = [at EXCEPT ![t].pid = p]
        /\ dropping' = [dropping EXCEPT ![t] = @ \ {p}]
        /\ IF ~ChannelLives(p, mFilters[p].seq)
           THEN fault' = "channel" /\ Goto(t, "dead") /\ UNCHANGED <<attached, mLock, mFilters>>
           ELSE /\ attached' = left
                /\ IF HasFilter(p, left) THEN DropNext(t)
                   ELSE Goto(t, "release") /\ UNCHANGED <<mLock, mFilters>>
                /\ UNCHANGED fault
    /\ UNCHANGED <<todo, lost, mEcmPidSet, mDemux, mChannels, mVersion, hw, looper, reading,
                   budget>>

\* HwTsParser::removeDemuxFilter: a descriptor that cannot be stopped stays open.
CloseDescriptor(fd) ==
    \/ kernel' = Restrict(kernel, DOMAIN kernel \ {fd}) /\ UNCHANGED leaked
    \/ "stop" \in Faults /\ leaked' = leaked \cup {fd} /\ UNCHANGED kernel

\* The parameters leave the map, the descriptor the looper; at the end the
\* parameters are freed.
RemoveDemuxFilter(p) ==
    LET q == mFilterParams[p] IN
    /\ mFilterParams' = Restrict(mFilterParams, DOMAIN mFilterParams \ {p})
    /\ RemoveFd(q.fd, AnySeq)
    /\ CloseDescriptor(q.fd)
    /\ live' = live \ {q.seq} /\ deaf' = deaf \ {q.seq}

\* The rest of destroyChannel: the channel goes, with a filter attached since.
DestroyChannel(t) ==
    /\ pc[t] = "release"
    /\ LET p == at[t].pid IN
        /\ RemoveDemuxFilter(p)
        /\ mChannels' = mChannels \ {p}
        /\ attached' = {f \in attached : f[1] # p}
        /\ lost' = {f \in lost : f[1] # p}
    /\ UNCHANGED dropping
    /\ DropNext(t)
    /\ UNCHANGED <<at, todo, mEcmPidSet, mDemux, mVersion, mStopped, mNextRequestSeq, mResponses,
                   reading, rest>>

---------------------------------------------------------------------------
(* The player's threads                                                    *)

Adding == {"add", "create", "attach", "enter"}
InSetup(c) == pc[c] \in Adding \/ todo[c] # {}

\* The player sets filters up under its own lock: for PAT and CAT while it prepares,
\* for its ECM pid, anew, while it prepares and in every flush.  A flush finds the
\* parser in place while another thread is inside close.
Setup(c, call, pids, l) ==
    /\ c \in Setter /\ pc[c] = "idle" /\ budget[call] > 0
    /\ \A d \in Client : ~InSetup(d) /\ pc[d] # "closed"
    /\ budget' = [budget EXCEPT ![call] = @ - 1]
    /\ todo' = [todo EXCEPT ![c] = pids]
    /\ Goto(c, l)
    /\ UNCHANGED <<dropping, parser, base, hw, looper, reading, fault>>

ParseProgramInfoAsync(c) == Setup(c, "parses", {Pat}, "add") /\ UNCHANGED at
TryWaitEcm(c) == Setup(c, "ecms", {EcmPid}, "remove") /\ Handle(c, EcmPid)

\* Of two closers one finds the demux.
Close(c) ==
    /\ pc[c] = "idle"
    /\ \A d \in Client : ~InSetup(d)
    /\ Goto(c, "clear")
    /\ UNCHANGED <<at, todo, dropping, parser, base, hw, looper, reading, rest>>

TakeDemux(c) ==
    /\ pc[c] = "take" /\ mLock = Nobody
    /\ mDemux' = FALSE
    /\ Goto(c, IF mDemux THEN "stop" ELSE "closed")
    /\ at' = [at EXCEPT ![c] = Nowhere]
    /\ UNCHANGED <<todo, dropping, mLock, mFilters, lost, mEcmPidSet, base, hw, looper, reading,
                   rest>>

\* Mutant: the flag is not set.
NotMarked == mStopped

\* AmlHwDemux::stop sets the flag and wakes the looper.
MarkStopped == TRUE

Stop(c) ==
    /\ pc[c] = "stop"
    /\ mStopped' = MarkStopped
    /\ wakeEvent' = TRUE
    /\ Goto(c, "join")
    /\ UNCHANGED <<at, todo, dropping, parser, base, mFilterParams, live, kernel, leaked, deaf,
                   mRequests, mNextRequestSeq, mEpollRebuildRequired, epollSet, mResponses,
                   reading, rest>>

Join(c) ==
    /\ pc[c] = "join" /\ pc[Reader] = "exited"
    /\ Goto(c, "closed")
    /\ UNCHANGED <<at, todo, dropping, parser, base, hw, looper, reading, rest>>

---------------------------------------------------------------------------
(* The reading thread: threadLoop and the callback of the looper           *)

ReaderAt(l) == pc[Reader] = l

Poll ==
    /\ ReaderAt("poll") /\ PollInner /\ Goto(Reader, "dispatch")
    /\ UNCHANGED <<at, todo, dropping, parser, base, hw, reading, rest>>

\* POLL_ERROR ends the thread.
PollFails ==
    /\ ReaderAt("poll") /\ "poll" \in Faults
    /\ Goto(Reader, "exited")
    /\ UNCHANGED <<at, todo, dropping, parser, base, hw, looper, reading, rest>>

Respond(r) ==
    /\ ReaderAt("dispatch") /\ r \in mResponses
    /\ mResponses' = mResponses \ {r}
    /\ UNCHANGED <<at, todo, dropping, parser, base, mStopped, mFilterParams, live, kernel,
                   leaked, mNextRequestSeq, rest>>

\* handleEvent reads the descriptor, whosever it is by now.
Read(r) ==
    /\ Respond(r) /\ r.fd \in DOMAIN kernel
    /\ response' = r /\ version' \in Version
    /\ Goto(Reader, "use")
    /\ UNCHANGED <<toCall, deaf, mRequests, epollSet, mEpollRebuildRequired, wakeEvent>>

\* A read that fails makes the looper drop the request.
ReadFails(r) ==
    /\ Respond(r) /\ (r.fd \notin DOMAIN kernel \/ "read" \in Faults)
    /\ deaf' = deaf \cup ({r.seq} \cap live)
    /\ RemoveFd(r.fd, r.seq)
    /\ UNCHANGED <<pc, reading>>

\* Then it looks the pid up in the parameters it was registered with.
UseParams ==
    /\ ReaderAt("use")
    /\ IF response.seq \in live
       THEN Goto(Reader, "notify") /\ UNCHANGED fault
       ELSE Goto(Reader, "dead") /\ fault' = "params"
    /\ UNCHANGED <<at, todo, dropping, parser, base, hw, looper, reading, budget>>

\* Channel::onData takes the filters under the channel's lock and calls them without.
FiltersOf(p) == {f \in attached : f[1] = p}

\* notifyData looks the channel up under the demux's lock.
NotifyData ==
    /\ ReaderAt("notify")
    /\ toCall' = IF response.data \in mChannels THEN FiltersOf(response.data) ELSE {}
    /\ response' = NoResponse
    /\ Goto(Reader, "call")
    /\ UNCHANGED <<at, todo, dropping, parser, base, hw, looper, version, rest>>

DataDone ==
    /\ ReaderAt("call") /\ toCall = {}
    /\ version' = Never
    /\ Goto(Reader, "dispatch")
    /\ UNCHANGED <<at, todo, dropping, parser, base, hw, looper, response, toCall, rest>>

\* Filter::notifyListener passes a version on once.
NotifyListener(f, new) ==
    /\ ReaderAt("call") /\ f \in toCall
    /\ toCall' = toCall \ {f}
    /\ new = (mVersion[f] # version)
    /\ mVersion' = [mVersion EXCEPT ![f] = version]
    /\ UNCHANGED <<dropping, mLock, mFilters, lost, mDemux, mChannels, attached, hw, looper,
                   response, version, rest>>

\* Nothing new, or a CAT or an ECM, whose callbacks only report.
NothingToAsk(f, new) ==
    /\ NotifyListener(f, new) /\ (~new \/ Names[f[1]] = {})
    /\ UNCHANGED <<pc, at, todo, mEcmPidSet>>

\* onPatParsed removes the PAT's filter and adds those of the PMTs.
OnPatParsed(f) ==
    /\ NotifyListener(f, TRUE) /\ f[1] = Pat
    /\ Handle(Reader, Pat)
    /\ todo' = [todo EXCEPT ![Reader] = Names[Pat]]
    /\ Goto(Reader, "remove")
    /\ UNCHANGED mEcmPidSet

\* onPmtParsed adds a filter for an ECM pid not yet known, after it gave up mLock.
OnPmtParsed(f) ==
    /\ NotifyListener(f, TRUE) /\ f[1] # Pat /\ Names[f[1]] # {} /\ mLock = Nobody
    /\ todo' = [todo EXCEPT ![Reader] = Names[f[1]] \ mEcmPidSet]
    /\ mEcmPidSet' = mEcmPidSet \cup Names[f[1]]
    /\ Goto(Reader, "add")
    /\ UNCHANGED at

\* The round is over: threadLoop looks at the flag.
Loop ==
    /\ ReaderAt("dispatch") /\ mResponses = {}
    /\ Goto(Reader, IF mStopped THEN "exited" ELSE "poll")
    /\ UNCHANGED <<at, todo, dropping, parser, base, hw, looper, reading, rest>>

---------------------------------------------------------------------------
AddStep(t) ==
    AddFilter(t) \/ UseNull(t) \/ CreateChannel(t) \/ AttachFilter(t) \/ EnterContext(t)

RemoveStep(t) == RemoveFilter(t) \/ NothingToRemove(t) \/ DetachFilter(t) \/ DestroyChannel(t)

ClientStep(c) ==
    AddStep(c) \/ RemoveStep(c) \/ ClearAllFilters(c) \/ TakeDemux(c) \/ Stop(c) \/ Join(c)

ReaderStep ==
    \/ Poll \/ PollFails \/ Loop \/ UseParams \/ NotifyData \/ DataDone
    \/ \E f \in toCall : (\E new \in BOOLEAN : NothingToAsk(f, new)) \/ OnPatParsed(f) \/ OnPmtParsed(f)
    \/ \E r \in mResponses : Read(r) \/ ReadFails(r)
    \/ AddStep(Reader) \/ RemoveStep(Reader)

\* A use of what is gone ends the program.
Next ==
    /\ fault = "none"
    /\ \/ ReaderStep
       \/ \E c \in Client : ClientStep(c) \/ ParseProgramInfoAsync(c) \/ TryWaitEcm(c) \/ Close(c)

Spec == Init /\ [][Next]_vars

\* Every thread runs on: a write to the DVR device and a poll, which has a
\* timeout, come back, and every lock is given up.
FairSpec == Spec 
            /\ WF_vars(fault = "none" /\ ReaderStep)
            /\ \A c \in Client : WF_vars(fault = "none" /\ ClientStep(c))

---------------------------------------------------------------------------
(* What the demux is to do                                                 *)

Places == {"idle", "add", "create", "attach", "enter", "remove", "clear", "detach",
           "release", "take", "stop", "join", "closed",
           "poll", "dispatch", "use", "notify", "call",
           "exited", "dead"}

\* Descriptors, requests and parameters are of known filters and threads.
TypeOK ==
    /\ pc \in [Thread -> Places] /\ mLock \in Thread \cup {Nobody}
    /\ DOMAIN mFilters \cup mChannels \cup DOMAIN mFilterParams \subseteq Pid
    /\ attached \cup lost \cup toCall \subseteq Pid \X Thread
    /\ DOMAIN kernel \cup DOMAIN mRequests \cup epollSet \cup leaked \subseteq Fd
    /\ mVersion \in [Pid \X Thread -> Version \cup {Never}]
    /\ fault \in {"none", "null", "channel", "params"}

Changing(t) == pc[t] \in {"create", "attach", "enter", "detach", "release"}

\* What parser, demux, looper and kernel know of the filters agrees whenever no
\* thread is changing it: the filters attached are those of the contexts and those
\* lost when two threads asked for one pid; every channel has one, its parameters
\* and its own descriptor, which is polled unless reading it has failed; nothing
\* else is open, polled or allocated.
BooksAgree ==
    (fault = "none" /\ \A t \in Thread : ~Changing(t)) =>
        /\ attached = lost \cup {<<p, mFilters[p].by>> :
                            p \in {q \in DOMAIN mFilters : ChannelLives(q, mFilters[q].seq)}}
        /\ mChannels = {f[1] : f \in attached}
        /\ DOMAIN mFilterParams = mChannels
        /\ live = {mFilterParams[p].seq : p \in mChannels}
        /\ DOMAIN kernel = leaked \cup {mFilterParams[p].fd : p \in mChannels}
        /\ \A p \in mChannels :
            LET q == mFilterParams[p] IN
            /\ kernel[q.fd] = p /\ q.fd \notin leaked
            /\ \/ q.seq \in deaf
               \/ q.fd \in DOMAIN mRequests /\ mRequests[q.fd] = [data |-> p, seq |-> q.seq]
        /\ DOMAIN mRequests \subseteq {mFilterParams[p].fd : p \in mChannels}

\* Once a close has begun it returns, with the reader gone, however callbacks,
\* writes and a second close fall, unless something was used after it was gone.
CloseReturns ==
    \A c \in Client : pc[c] = "clear" ~> (fault # "none" \/ pc[c] = "closed")
=============================================================================
