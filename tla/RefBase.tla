------------------------------ MODULE RefBase ------------------------------
(***************************************************************************)
(* One object of a class derived from AmlMpRefBase, the weakref_impl that  *)
(* holds its counts, and threads that own strong and weak pointers to it   *)
(* (utils/AmlMpRefBase.cpp, AmlMpRefBase.h, AmlMpStrongPointer.h).         *)
(*                                                                         *)
(* A step is one atomic operation on a count, or one delete.  A pointer    *)
(* belongs to one thread at a time, as the header demands; giving it away  *)
(* stands for the queues and members through which the code passes it on.  *)
(* No class of the repository extends its lifetime, so flags are always    *)
(* OBJECT_LIFETIME_STRONG, and forceIncStrong has no caller.               *)
(***************************************************************************)
EXTENDS Integers, FiniteSets

CONSTANTS
    Holder,                 \* the threads
    Maker,                  \* the one that constructs the object
    MaxPointers,            \* bound of the model: each thread's pointers of a kind
    INITIAL_STRONG_VALUE

ASSUME HolderAssumption ==
    /\ Maker \in Holder /\ MaxPointers \in [Holder -> Nat]
    /\ INITIAL_STRONG_VALUE \in Nat \ {0}

(* The bias, 1 << 28, is more than there are ever strong pointers: a thread *)
(* may be given one more while it makes its last, and the handle has one.   *)
AllPointers == UNION {{t} \X (1 .. MaxPointers[t] + 1) : t \in Holder}

ASSUME PointersFit ==
    IsFiniteSet(AllPointers) /\ Cardinality(AllPointers) + 1 < INITIAL_STRONG_VALUE

VARIABLES
    mStrong, mWeak,         \* the counts
    object,                 \* "bare" (constructed, no strong pointer yet), "lives", "deleted"
    impl,                   \* the weakref_impl is allocated
    handle,                 \* the C API's handle: "none", "open", "closed"
    sptrs, wptrs,           \* how many pointers each thread owns
    doing, curCount         \* the operation a thread is in, and its local count

refvars == <<mStrong, mWeak, object, impl, handle, sptrs, wptrs, doing, curCount>>

\* AmlMpRefBase(), weakref_impl()
RefInit ==
    /\ mStrong = INITIAL_STRONG_VALUE /\ mWeak = 0
    /\ object = "bare" /\ impl = TRUE /\ handle = "none"
    /\ sptrs = [t \in Holder |-> 0] /\ wptrs = [t \in Holder |-> 0]
    /\ doing = [t \in Holder |-> "idle"] /\ curCount = [t \in Holder |-> 0]

Idle(t) == doing[t] = "idle"
Does(t, op) == doing' = [doing EXCEPT ![t] = op]
GetsStrong(t) == sptrs' = [sptrs EXCEPT ![t] = @ + 1]
Forgets(t) == curCount' = [curCount EXCEPT ![t] = 0]

-----------------------------------------------------------------------------
\* incStrong: the weak count first.  sptr(T*), sptr(const sptr&), operator=.
incStrong(t) ==
    /\ Idle(t) /\ sptrs[t] < MaxPointers[t]
    /\ mWeak' = mWeak + 1
    /\ Does(t, "incStrong")
    /\ UNCHANGED <<mStrong, impl, wptrs, curCount>>

\* The first strong reference still has to take the bias off.
StrongCounted(t) ==
    /\ doing[t] = "incStrong"
    /\ mStrong' = mStrong + 1
    /\ IF mStrong = INITIAL_STRONG_VALUE
       THEN Does(t, "unbias") /\ UNCHANGED sptrs
       ELSE Does(t, "idle") /\ GetsStrong(t)
    /\ UNCHANGED <<mWeak, object, impl, handle, wptrs, curCount>>

Unbias(t) ==
    /\ doing[t] = "unbias"
    /\ mStrong' = mStrong - INITIAL_STRONG_VALUE
    /\ GetsStrong(t) /\ Does(t, "idle")
    /\ UNCHANGED <<mWeak, object, impl, handle, wptrs, curCount>>

\* decStrong on a reference that is t's or the handle's.
decStrong(t) ==
    /\ mStrong' = mStrong - 1
    /\ Does(t, IF mStrong = 1 THEN "delete" ELSE "decWeak")
    /\ UNCHANGED <<mWeak, object, impl, wptrs, curCount>>

\* delete this: ~AmlMpRefBase leaves the counts to the last weak reference.
DeleteObject(t) ==
    /\ doing[t] = "delete"
    /\ object' = "deleted"
    /\ Does(t, "decWeak")
    /\ UNCHANGED <<mStrong, mWeak, impl, handle, sptrs, wptrs, curCount>>

decWeak(t) ==
    /\ doing[t] = "decWeak"
    /\ mWeak' = mWeak - 1
    /\ Does(t, IF mWeak = 1 THEN "free" ELSE "idle")
    /\ UNCHANGED <<mStrong, object, impl, handle, sptrs, wptrs, curCount>>

\* The last weak reference frees the counts, unless the object never had a
\* strong one: then they wait for it.
FreeRefs(t) ==
    /\ doing[t] = "free"
    /\ impl' = (mStrong = INITIAL_STRONG_VALUE)
    /\ Does(t, "idle")
    /\ UNCHANGED <<mStrong, mWeak, object, handle, sptrs, wptrs, curCount>>

-----------------------------------------------------------------------------
\* attemptIncStrong: its weak reference, then a look at the strong count.  Not by
\* a constructor, which may have weak pointers but no strong ones.
attemptIncStrong(t) ==
    /\ Idle(t) /\ wptrs[t] > 0 /\ sptrs[t] < MaxPointers[t]
    /\ object # "bare"
    /\ mWeak' = mWeak + 1
    /\ Does(t, "load")
    /\ UNCHANGED <<mStrong, object, impl, handle, sptrs, wptrs, curCount>>

LoadCount(t) ==
    /\ doing[t] = "load"
    /\ curCount' = [curCount EXCEPT ![t] = mStrong]
    /\ Does(t, "exchange")
    /\ UNCHANGED <<mStrong, mWeak, object, impl, handle, sptrs, wptrs>>

\* Mutant: the count is incremented whatever it has become since the look.
IncrementsAnyhow(t) ==
    /\ doing[t] = "exchange" /\ curCount[t] > 0
    /\ mStrong' = mStrong + 1
    /\ GetsStrong(t) /\ Does(t, "idle") /\ Forgets(t)
    /\ UNCHANGED <<mWeak, object, impl, handle, wptrs>>

\* One round of compare_exchange_weak: taken, or the count that came instead.
Exchange(t) ==
    /\ doing[t] = "exchange" /\ curCount[t] > 0
    /\ IF mStrong = curCount[t]
       THEN /\ mStrong' = mStrong + 1
            /\ IF mStrong = INITIAL_STRONG_VALUE
               THEN Does(t, "unbias") /\ UNCHANGED sptrs
               ELSE Does(t, "idle") /\ GetsStrong(t)
            /\ Forgets(t)
       ELSE /\ curCount' = [curCount EXCEPT ![t] = mStrong]
            /\ UNCHANGED <<mStrong, sptrs, doing>>
    /\ UNCHANGED <<mWeak, object, impl, handle, wptrs>>

\* Mutant: a failed attempt keeps its weak reference.
FailsWithWeak(t) ==
    /\ doing[t] = "exchange" /\ curCount[t] <= 0
    /\ Does(t, "idle")
    /\ UNCHANGED <<mStrong, mWeak, object, impl, handle, sptrs, wptrs, curCount>>

\* The object is lost: the attempt gives its weak reference back and fails.
AttemptFails(t) ==
    /\ doing[t] = "exchange" /\ curCount[t] <= 0
    /\ Does(t, "decWeak")
    /\ UNCHANGED <<mStrong, mWeak, object, impl, handle, sptrs, wptrs, curCount>>

-----------------------------------------------------------------------------
(* Strong and weak pointers.                                               *)

\* The first strong pointer to what new has just returned.
FirstPointer(t) ==
    /\ t = Maker /\ object = "bare"
    /\ object' = "lives"
    /\ incStrong(t)
    /\ UNCHANGED <<handle, sptrs>>

CopyPointer(t) ==
    /\ sptrs[t] > 0
    /\ incStrong(t)
    /\ UNCHANGED <<object, handle, sptrs>>

\* ~sptr, clear, and the old value in an assignment.
DropPointer(t) ==
    /\ Idle(t) /\ sptrs[t] > 0
    /\ sptrs' = [sptrs EXCEPT ![t] = @ - 1]
    /\ decStrong(t)
    /\ UNCHANGED handle

\* createWeak, also by the constructor on its own object; a wptr is copied alike.
MakeWeak(t) ==
    /\ Idle(t) /\ wptrs[t] < MaxPointers[t]
    /\ sptrs[t] + wptrs[t] > 0 \/ (t = Maker /\ object = "bare")
    /\ mWeak' = mWeak + 1
    /\ wptrs' = [wptrs EXCEPT ![t] = @ + 1]
    /\ UNCHANGED <<mStrong, object, impl, handle, sptrs, doing, curCount>>

\* ~wptr, clear, and the old value in an assignment.
DropWeak(t) ==
    /\ Idle(t) /\ wptrs[t] > 0
    /\ wptrs' = [wptrs EXCEPT ![t] = @ - 1]
    /\ Does(t, "decWeak")
    /\ UNCHANGED <<mStrong, mWeak, object, impl, handle, sptrs, curCount>>

\* A pointer moves to another thread: sptr(sptr&&), a queued message, a member.
GivePointer(t, u) ==
    /\ Idle(t) /\ sptrs[t] > 0 /\ t # u /\ sptrs[u] < MaxPointers[u]
    /\ sptrs' = [sptrs EXCEPT ![t] = @ - 1, ![u] = @ + 1]
    /\ UNCHANGED <<mStrong, mWeak, object, impl, handle, wptrs, doing, curCount>>

GiveWeak(t, u) ==
    /\ Idle(t) /\ wptrs[t] > 0 /\ t # u /\ wptrs[u] < MaxPointers[u]
    /\ object # "bare" /\ doing[Maker] \notin {"incStrong", "unbias"}
    /\ wptrs' = [wptrs EXCEPT ![t] = @ - 1, ![u] = @ + 1]
    /\ UNCHANGED <<mStrong, mWeak, object, impl, handle, sptrs, doing, curCount>>

-----------------------------------------------------------------------------
(* What a pointer, a handle or an operation under way stands on is there:  *)
(* an object with a strong reference or an open handle lives, it is        *)
(* deleted once, and the counts are not freed while a pointer or an        *)
(* operation of some thread still needs them, however copies, drops,       *)
(* promotions and handle calls interleave.                                 *)
NothingIsUsedAfterFree ==
    /\ (handle = "open" \/ \E t \in Holder : sptrs[t] > 0 \/ doing[t] = "delete")
           => object = "lives" /\ impl
    /\ (\E t \in Holder : wptrs[t] > 0 \/ ~Idle(t)) => impl
    /\ mStrong >= 0 /\ mWeak >= 0

(* When every thread is out of the library and no pointer is left, nor a   *)
(* handle, object and counts are both gone; as long as weak pointers are   *)
(* left, only the object is ("parts of its associated memory is not freed  *)
(* until the last weak pointer is released").                              *)
NothingIsLeft ==
    (\A t \in Holder : Idle(t) /\ sptrs[t] = 0) /\ handle # "open" /\ object # "bare"
        => /\ object = "deleted"
           /\ impl = (\E t \in Holder : wptrs[t] > 0)
=============================================================================
