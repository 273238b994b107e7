---------------------------- MODULE EventLooper ----------------------------
(***************************************************************************)
(* AmlMpEventLooper (utils/AmlMpEventLooper.cpp) on an AmlMpThread         *)
(* (utils/AmlMpThread.cpp): a queue of messages ordered by the time they   *)
(* are due, a thread that delivers them to a handler, and callers that     *)
(* post a message and may wait for the handler's reply.                    *)
(*                                                                         *)
(* A step is what happens under one lock: mLock for the queue and mThread, *)
(* mRepliesLock for the replies, the thread's own lock for its flags.      *)
(* start(true), which runs the loop on the caller's thread, has no caller. *)
(***************************************************************************)
EXTENDS Naturals, FiniteSets, Sequences, SequencesExt

CONSTANTS Client,      \* the threads that use the looper
          Controller,  \* the one of them that starts and stops it
          Looper,      \* the LooperThread objects, one for each start
          Delays,      \* the delays of the messages, in ticks
          MaxNow,      \* bound of the model: the last tick of the clock
          MaxTime,     \* INT64_MAX
          MaxPosts,    \* bound of the model: how many messages are posted
          Nobody

ASSUME ConstantAssumption ==
    /\ Controller \in Client /\ Nobody \notin Looper \cup Client
    /\ Delays \subseteq Nat /\ MaxPosts \in Nat
    /\ MaxNow \in Nat /\ MaxTime \in Nat /\ MaxNow < MaxTime

VARIABLES now,      \* GetNowUs
          queue,    \* mEventQueue
          posts,    \* messages posted so far
          thread,   \* mThread
          loop,     \* what each LooperThread is doing
          call,     \* what each client is doing
          replied,  \* the messages whose AReplyToken has its reply
          last      \* the message delivered last

vars == <<now, queue, posts, thread, loop, call, replied, last>>

Event(w, n, c) == [when |-> w, id |-> n, from |-> c]
NoEvent == Event(0, 0, Nobody)
Events == [when : 0 .. MaxTime, id : 0 .. MaxPosts, from : Client \cup {Nobody}]

(* at: new; top of the thread's loop; in loop() after it decided to wait,  *)
(* woken or not; in deliver(); after loop(), with its result; gone.        *)
Loops == [at : {"new", "top", "waits", "woken", "delivers", "over", "gone"},
          exit : BOOLEAN,      \* mExitPending
          result : BOOLEAN,    \* what loop() returned
          until : 0 .. MaxTime, \* when the wait ends by itself; MaxTime: never
          event : Events]      \* the message being delivered

Calls == [at : {"out", "awaits", "holds", "sleeps", "clears", "asks", "tells", "joins"},
          token : 0 .. MaxPosts,          \* the request whose reply is awaited
          joined : Looper \cup {Nobody}]  \* stop's local copy of mThread

Out == [at |-> "out", token |-> 0, joined |-> Nobody]

TypeOK ==
    /\ now \in 0 .. MaxNow /\ posts \in 0 .. MaxPosts
    /\ queue \in Seq(Events)
    /\ thread \in Looper \cup {Nobody}
    /\ loop \in [Looper -> Loops] /\ call \in [Client -> Calls]
    /\ replied \subseteq 1 .. MaxPosts /\ last \in Events

Init ==
    /\ now = 0 /\ queue = <<>> /\ posts = 0 /\ thread = Nobody
    /\ loop = [l \in Looper |-> [at |-> "new", exit |-> FALSE, result |-> TRUE,
                                 until |-> 0, event |-> NoEvent]]
    /\ call = [c \in Client |-> Out]
    /\ replied = {} /\ last = NoEvent

(* mRunning: from run() until the thread has seen that it is to end.       *)
Runs(l) == loop[l].at \notin {"new", "gone"}

(* mRepliesLock is held across the check of the reply and the wait.        *)
RepliesLockIsFree == \A c \in Client : call[c].at # "holds"

-----------------------------------------------------------------------------
(* Condition variables.                                                    *)

(* notify_one of mQueueChangedCondition in the state of the loops ls.      *)
NotifyOne(ls) ==
    LET waiting == {l \in Looper : ls[l].at = "waits"} IN
    IF waiting = {} THEN {ls}
    ELSE {[ls EXCEPT ![l].at = "woken"] : l \in waiting}

(* notify_all of mRepliesCondition: the sleepers check again.              *)
NotifyReplies(cs) ==
    [c \in Client |-> IF cs[c].at = "sleeps" THEN [cs[c] EXCEPT !.at = "awaits"] ELSE cs[c]]

-----------------------------------------------------------------------------
(* post                                                                    *)

(* When a message with delay d is due.                                     *)
Due(d) == IF d > MaxTime - now THEN MaxTime ELSE now + d

(* Mutant: a message overtakes those due at the same time.                 *)
PlaceFirst(e) == 1 + Cardinality({i \in DOMAIN queue : queue[i].when < e.when})

(* Where a message goes: after those due at the same time.                 *)
Place(e) ==
    IF \E i \in DOMAIN queue : queue[i].when > e.when
    THEN CHOOSE i \in DOMAIN queue : /\ queue[i].when > e.when
                                     /\ \A j \in 1 .. i - 1 : queue[j].when <= e.when
    ELSE Len(queue) + 1

(* Mutant: the loop is told of a new message only if it had none.          *)
WakesIfEmpty(i) == queue = <<>>

(* post tells the loop of a message that is the first to be due.           *)
Wakes(i) == i = 1

Enqueue(c, d) ==
    LET e == Event(Due(d), posts + 1, c) IN
    /\ posts < MaxPosts
    /\ posts' = posts + 1
    /\ queue' = InsertAt(queue, Place(e), e)
    /\ loop' \in IF Wakes(Place(e)) THEN NotifyOne(loop) ELSE {loop}

(* AmlMpMessage::post                                                      *)
Post(c) ==
    /\ call[c].at = "out"
    /\ \E d \in Delays : Enqueue(Nobody, d)
    /\ UNCHANGED <<now, thread, call, replied, last>>

(* AmlMpMessage::postAndAwaitResponse                                      *)
Request(c) ==
    /\ call[c].at = "out"
    /\ Enqueue(c, 0)
    /\ call' = [call EXCEPT ![c] = [Out EXCEPT !.at = "awaits", !.token = posts + 1]]
    /\ UNCHANGED <<now, thread, replied, last>>

(* One round of awaitResponse under mRepliesLock: the reply, or no thread  *)
(* to give one, or a wait.                                                 *)
Await(c) ==
    /\ call[c].at = "awaits" /\ RepliesLockIsFree
    /\ call' = [call EXCEPT ![c] =
                  IF @.token \in replied \/ thread = Nobody THEN Out
                  ELSE [@ EXCEPT !.at = "holds"]]
    /\ UNCHANGED <<now, queue, posts, thread, loop, replied, last>>

Sleep(c) ==
    /\ call[c].at = "holds"
    /\ call' = [call EXCEPT ![c].at = "sleeps"]
    /\ UNCHANGED <<now, queue, posts, thread, loop, replied, last>>

-----------------------------------------------------------------------------
(* start and stop                                                          *)

Start(c) ==
    /\ call[c].at = "out" /\ c = Controller
    /\ thread = Nobody
    /\ \E l \in Looper : loop[l].at = "new"
    /\ thread' = CHOOSE l \in Looper : loop[l].at = "new"
    /\ loop' = [loop EXCEPT ![thread'].at = "top"]
    /\ UNCHANGED <<now, queue, posts, call, replied, last>>

(* stop, first part: mThread is taken away under mLock.                    *)
ClearThread(c) ==
    /\ call[c].at = "out" /\ c = Controller
    /\ thread # Nobody
    /\ thread' = Nobody
    /\ call' = [call EXCEPT ![c] = [Out EXCEPT !.at = "clears", !.joined = thread]]
    /\ UNCHANGED <<now, queue, posts, loop, replied, last>>

(* thread->requestExit()                                                   *)
RequestExit(c) ==
    /\ call[c].at = "clears"
    /\ loop' = [loop EXCEPT ![call[c].joined].exit = TRUE]
    /\ call' = [call EXCEPT ![c].at = "asks"]
    /\ UNCHANGED <<now, queue, posts, thread, replied, last>>

(* Mutant: the loop is not woken.                                          *)
SkipNotify(c) ==
    /\ call[c].at = "asks"
    /\ loop' = loop
    /\ call' = [call EXCEPT ![c].at = "tells"]
    /\ UNCHANGED <<now, queue, posts, thread, replied, last>>

(* mQueueChangedCondition.notify_one()                                     *)
NotifyLoop(c) ==
    /\ call[c].at = "asks"
    /\ loop' \in NotifyOne(loop)
    /\ call' = [call EXCEPT ![c].at = "tells"]
    /\ UNCHANGED <<now, queue, posts, thread, replied, last>>

(* Mutant: the waiters are told without mRepliesLock.                      *)
NotifyUnlocked(c) ==
    /\ call[c].at = "tells"
    /\ call' = [NotifyReplies(call) EXCEPT ![c].at = "joins"]
    /\ UNCHANGED <<now, queue, posts, thread, loop, replied, last>>

(* mRepliesCondition.notify_all() under mRepliesLock                       *)
NotifyWaiters(c) ==
    /\ call[c].at = "tells" /\ RepliesLockIsFree
    /\ call' = [NotifyReplies(call) EXCEPT ![c].at = "joins"]
    /\ UNCHANGED <<now, queue, posts, thread, loop, replied, last>>

(* Mutant: stop does not wait for the thread.                              *)
LeaveAtOnce(c) ==
    /\ call[c].at = "joins"
    /\ call' = [call EXCEPT ![c] = Out]
    /\ UNCHANGED <<now, queue, posts, thread, loop, replied, last>>

(* requestExitAndWait                                                      *)
Join(c) ==
    /\ call[c].at = "joins" /\ ~Runs(call[c].joined)
    /\ loop' = [loop EXCEPT ![call[c].joined].exit = FALSE]
    /\ call' = [call EXCEPT ![c] = Out]
    /\ UNCHANGED <<now, queue, posts, thread, replied, last>>

-----------------------------------------------------------------------------
(* The looper's thread.                                                    *)

Returns(l, r) == loop' = [loop EXCEPT ![l].at = "over", ![l].result = r, ![l].until = 0,
                                      ![l].event = NoEvent]

(* One look of loop() at the queue under mLock.                            *)
Look(l) ==
    /\ loop[l].at = "top"
    /\ \/ thread = Nobody /\ Returns(l, FALSE) /\ UNCHANGED <<queue, last>>
       \/ /\ thread # Nobody
          /\ queue # <<>> => Head(queue).when > now
          /\ loop' = [loop EXCEPT ![l].at = "waits",
                         ![l].until = IF queue = <<>> THEN MaxTime ELSE Head(queue).when]
          /\ UNCHANGED <<queue, last>>
       \/ /\ thread # Nobody /\ queue # <<>> /\ Head(queue).when <= now
          /\ loop' = [loop EXCEPT ![l].at = "delivers", ![l].event = Head(queue)]
          /\ queue' = Tail(queue)
          /\ last' = Head(queue)
    /\ UNCHANGED <<now, posts, thread, call, replied>>

(* The wait ends: notified, or the time the message looked at has come.    *)
Wake(l) ==
    /\ \/ loop[l].at = "woken"
       \/ loop[l].at = "waits" /\ loop[l].until <= now
    /\ Returns(l, TRUE)
    /\ UNCHANGED <<now, queue, posts, thread, call, replied, last>>

(* deliver() ends; a handler whose sender awaits a response has replied.   *)
Delivered(l) ==
    /\ loop[l].at = "delivers"
    /\ LET e == loop[l].event IN
       IF e.from = Nobody THEN UNCHANGED <<replied, call>>
       ELSE /\ RepliesLockIsFree
            /\ replied' = replied \cup {e.id}
            /\ call' = NotifyReplies(call)
    /\ Returns(l, TRUE)
    /\ UNCHANGED <<now, queue, posts, thread, last>>

(* _threadLoop after each round: it ends on request or when loop() says so.*)
Round(l) ==
    /\ loop[l].at = "over"
    /\ loop' = [loop EXCEPT ![l].at = IF ~loop[l].result \/ loop[l].exit
                                         THEN "gone" ELSE "top"]
    /\ UNCHANGED <<now, queue, posts, thread, call, replied, last>>

Tick ==
    /\ now < MaxNow /\ now' = now + 1
    /\ UNCHANGED <<queue, posts, thread, loop, call, replied, last>>
-----------------------------------------------------------------------------
Goes(l) == Look(l) \/ Wake(l) \/ Delivered(l) \/ Round(l)

Proceeds(c) ==
    \/ Await(c) \/ Sleep(c)
    \/ RequestExit(c) \/ NotifyLoop(c) \/ NotifyWaiters(c) \/ Join(c)

Next ==
    \/ \E c \in Client : Post(c) \/ Request(c) \/ Start(c) \/ ClearThread(c) \/ Proceeds(c)
    \/ \E l \in Looper : Goes(l)
    \/ Tick

Spec == Init /\ [][Next]_vars

(* Threads run, time passes, and a handler returns.                        *)
FairSpec ==
    /\ Spec /\ WF_vars(Tick)
    /\ \A c \in Client : WF_vars(Proceeds(c))
    /\ \A l \in Looper : WF_vars(Goes(l))

-----------------------------------------------------------------------------
(* Messages are delivered in the order they are due, and those due at the  *)
(* same time in the order they were posted, however posts, waits and       *)
(* restarts of the thread interleave.                                      *)
Before(e, f) == \/ e.when < f.when
                \/ e.when = f.when /\ e.id < f.id
DeliveredInOrder == [][last' # last => Before(last, last')]_vars

(* When stop has returned no handler is running and none will be until the *)
(* next start: what the handler uses may be torn down.                     *)
QuietAfterStop ==
    thread = Nobody /\ (\A c \in Client : call[c].joined = Nobody)
        => \A l \in Looper : ~Runs(l)

LooperIsSound == TypeOK /\ QuietAfterStop

(* A message that gets due within the time of the model is delivered, if   *)
(* the looper is not stopped: no post is missed by a loop that is about to *)
(* wait or waits for a later message.                                      *)
Queued(n) == \E i \in DOMAIN queue : queue[i].id = n /\ queue[i].when <= MaxNow
DueIsDelivered ==
    \A n \in 1 .. MaxPosts : (Queued(n) /\ thread # Nobody) ~> (~Queued(n) \/ thread = Nobody)

(* A caller of postAndAwaitResponse returns: it gets its reply, or a stop  *)
(* sets it free, whenever that comes.                                      *)
WaitersLeave == \A c \in Client : call[c].token # 0 ~> call[c].token = 0

(* stop returns.                                                           *)
StopReturns == \A c \in Client : call[c].joined # Nobody ~> call[c].joined = Nobody

(* All three: no thread waits for a signal that was given too early or is  *)
(* given to nobody.                                                        *)
EverybodyIsServed == DueIsDelivered /\ WaitersLeave /\ StopReturns
=============================================================================
