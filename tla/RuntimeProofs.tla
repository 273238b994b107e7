---------------------------- MODULE RuntimeProofs ----------------------------
(***************************************************************************)
(* What holds of the parts the player objects are built from.  RefBase     *)
(* behind PlayerHandle: the counts of an object for every set of threads   *)
(* and every number of pointers short of the bias.  ChunkFifo: the queue   *)
(* its callers see, for every ring.  Message: the references of any number *)
(* of messages.  EventLooper: messages are delivered in the order of due   *)
(* times and, for the same time, of posts, and after stop has returned no  *)
(* thread of it runs, for any number of clients, starts and messages, any  *)
(* delays and any clock.                                                   *)
(***************************************************************************)
EXTENDS PlayerHandle, ChunkFifo, Message, EventLooper, Integers, FiniteSetTheorems,
        WellFoundedInduction, TLAPS

(* The pointers a function counts: one pair for each of each thread.       *)
Tokens(f) == {x \in Holder \X Nat : 1 <= x[2] /\ x[2] <= f[x[1]]}
Total(f) == Cardinality(Tokens(f))

(* An operation under way owns a weak reference, but for the last: the one *)
(* that frees the counts has none left.                                    *)
Owning == {"incStrong", "unbias", "delete", "decWeak", "load", "exchange"}
Flying(d) == {t \in Holder : d[t] \in Owning}
HandleRef == IF handle = "open" THEN 1 ELSE 0

RefTypeOK ==
    /\ mStrong \in Int /\ mWeak \in Int /\ impl \in BOOLEAN
    /\ object \in {"bare", "lives", "deleted"} /\ handle \in {"none", "open", "closed"}
    /\ sptrs \in [Holder -> Nat] /\ wptrs \in [Holder -> Nat]
    /\ doing \in [Holder -> Owning \union {"idle", "free"}]
    /\ curCount \in [Holder -> Int]

RefsAreFinite ==
    IsFiniteSet(Tokens(sptrs)) /\ IsFiniteSet(Tokens(wptrs)) /\ IsFiniteSet(Flying(doing))

(* Every weak reference has an owner. *)
WeakIsRight ==
    mWeak = Total(sptrs) + Total(wptrs) + Cardinality(Flying(doing)) + HandleRef

OneFrees ==
    /\ \A t \in Holder : doing[t] = "free" => mWeak = 0
    /\ \A t, u \in Holder : doing[t] = "free" /\ doing[u] = "free" => t = u

Making == {"incStrong", "unbias", "load", "exchange"}
FewPointers == \A t \in Holder :
    sptrs[t] <= IF doing[t] \in Making THEN MaxPointers[t] ELSE MaxPointers[t] + 1

(* Before the first strong pointer is counted the Maker is alone with the  *)
(* object, and the bias stands for the references to come.                 *)
OnlyMaker ==
    /\ handle = "none" /\ impl
    /\ \A t \in Holder : sptrs[t] = 0 /\ (t # Maker => wptrs[t] = 0 /\ doing[t] = "idle")

Bare ==
    /\ object = "bare" /\ OnlyMaker
    /\ doing[Maker] \in {"idle", "decWeak", "free"}
    /\ mStrong = INITIAL_STRONG_VALUE

First ==
    /\ object = "lives" /\ OnlyMaker
    /\ \/ doing[Maker] = "incStrong" /\ mStrong = INITIAL_STRONG_VALUE
       \/ doing[Maker] = "unbias" /\ mStrong = INITIAL_STRONG_VALUE + 1

(* Afterwards every strong reference has an owner, and whoever makes one   *)
(* stands on another: so the count goes to zero once, one thread deletes   *)
(* the object, and one frees the counts when the weak references are gone. *)
Deleting == \E t \in Holder : doing[t] = "delete"
Freeing == \E t \in Holder : doing[t] = "free"
Shared ==
    /\ object # "bare"
    /\ mStrong = Total(sptrs) + HandleRef
    /\ \A t \in Holder : doing[t] # "unbias"
    /\ \A t \in Holder : doing[t] = "incStrong" => sptrs[t] > 0 \/ handle = "open"
    /\ \A t, u \in Holder : doing[t] = "delete" /\ doing[u] = "delete" => t = u
    /\ mStrong > 0 => object = "lives" /\ ~Deleting
    /\ mStrong = 0 => object = (IF Deleting THEN "lives" ELSE "deleted")
    /\ impl <=> mWeak > 0 \/ Freeing

RefInv ==
    /\ RefTypeOK /\ RefsAreFinite /\ WeakIsRight /\ OneFrees /\ FewPointers
    /\ Bare \/ First \/ Shared
-----------------------------------------------------------------------------
(* The lemmas about counting: one pointer more, one less, one moved, none. *)
LEMMA TokensMore ==
    ASSUME NEW f \in [Holder -> Nat], NEW g \in [Holder -> Nat], NEW t \in Holder,
           IsFiniteSet(Tokens(f)),
           g[t] = f[t] + 1, \A u \in Holder : u # t => g[u] = f[u]
    PROVE  IsFiniteSet(Tokens(g)) /\ Total(g) = Total(f) + 1
<1> DEFINE x == <<t, f[t] + 1>>
<1>1. Tokens(g) = Tokens(f) \union {x}
  BY DEF Tokens
<1>2. x \notin Tokens(f)
  BY DEF Tokens
<1> HIDE DEF x
<1>3. /\ IsFiniteSet(Tokens(f) \union {x})
      /\ Cardinality(Tokens(f) \union {x}) = Cardinality(Tokens(f)) + 1
  BY <1>2, FS_AddElement
<1> QED
  BY <1>1, <1>3 DEF Total

LEMMA TokensLess ==
    ASSUME NEW f \in [Holder -> Nat], NEW g \in [Holder -> Nat], NEW t \in Holder,
           IsFiniteSet(Tokens(f)), f[t] > 0,
           g[t] = f[t] - 1, \A u \in Holder : u # t => g[u] = f[u]
    PROVE  IsFiniteSet(Tokens(g)) /\ Total(g) = Total(f) - 1
<1> DEFINE x == <<t, f[t]>>
<1>1. Tokens(g) = Tokens(f) \ {x}
  BY DEF Tokens
<1>2. x \in Tokens(f)
  BY DEF Tokens
<1> HIDE DEF x
<1>3. /\ IsFiniteSet(Tokens(f) \ {x})
      /\ Cardinality(Tokens(f) \ {x}) = Cardinality(Tokens(f)) - 1
  BY <1>2, FS_RemoveElement
<1> QED
  BY <1>1, <1>3 DEF Total

LEMMA TokensMoved ==
    ASSUME NEW f \in [Holder -> Nat], NEW g \in [Holder -> Nat],
           NEW t \in Holder, NEW u \in Holder, t # u,
           IsFiniteSet(Tokens(f)), f[t] > 0,
           g[t] = f[t] - 1, g[u] = f[u] + 1,
           \A v \in Holder : v \notin {t, u} => g[v] = f[v]
    PROVE  IsFiniteSet(Tokens(g)) /\ Total(g) = Total(f)
<1> DEFINE h == [f EXCEPT ![t] = @ - 1]
<1>1. /\ h \in [Holder -> Nat] /\ h[t] = f[t] - 1 /\ g[u] = h[u] + 1
      /\ \A v \in Holder : v # t => h[v] = f[v]
      /\ \A v \in Holder : v # u => g[v] = h[v]
  OBVIOUS
<1> HIDE DEF h
<1>2. IsFiniteSet(Tokens(h)) /\ Total(h) = Total(f) - 1
  BY <1>1, TokensLess
<1>3. IsFiniteSet(Tokens(g)) /\ Total(g) = Total(h) + 1
  BY <1>1, <1>2, TokensMore
<1>4. Total(f) \in Nat
  BY FS_CardinalityType DEF Total
<1> QED
  BY <1>2, <1>3, <1>4

LEMMA TokensNone ==
    ASSUME NEW f \in [Holder -> Nat], IsFiniteSet(Tokens(f))
    PROVE  /\ Total(f) \in Nat
           /\ Total(f) = 0 <=> \A t \in Holder : f[t] = 0
<1>1. Total(f) \in Nat /\ (Total(f) = 0 <=> Tokens(f) = {})
  BY FS_CardinalityType, FS_EmptySet DEF Total
<1>2. ASSUME NEW t \in Holder, f[t] # 0
      PROVE  <<t, f[t]>> \in Tokens(f)
  BY <1>2 DEF Tokens
<1>3. (\A t \in Holder : f[t] = 0) => Tokens(f) = {}
  BY DEF Tokens
<1> QED
  BY <1>1, <1>2, <1>3

(* There are fewer strong pointers than the bias.                          *)
LEMMA TokensFit ==
    ASSUME NEW f \in [Holder -> Nat],
           \A t \in Holder : f[t] <= MaxPointers[t] + 1
    PROVE  Total(f) + 1 < INITIAL_STRONG_VALUE /\ Total(f) \in Nat
<1>1. Tokens(f) \subseteq AllPointers
  <2> SUFFICES ASSUME NEW x \in Tokens(f) PROVE x \in AllPointers
    OBVIOUS
  <2>1. x[1] \in Holder /\ x = <<x[1], x[2]>> /\ x[2] \in 1 .. MaxPointers[x[1]] + 1
    BY HolderAssumption DEF Tokens
  <2> QED
    BY <2>1 DEF AllPointers
<1>2. IsFiniteSet(Tokens(f)) /\ Cardinality(Tokens(f)) <= Cardinality(AllPointers)
  BY <1>1, PointersFit, FS_Subset
<1> QED
  BY <1>2, PointersFit, HolderAssumption, FS_CardinalityType DEF Total

LEMMA FlyingNone ==
    ASSUME NEW d, IsFiniteSet(Flying(d))
    PROVE  /\ Cardinality(Flying(d)) \in Nat
           /\ Cardinality(Flying(d)) = 0 <=> \A t \in Holder : d[t] \notin Owning
<1>1. Cardinality(Flying(d)) \in Nat /\ (Cardinality(Flying(d)) = 0 <=> Flying(d) = {})
  BY FS_CardinalityType, FS_EmptySet
<1>2. Flying(d) = {} <=> \A t \in Holder : d[t] \notin Owning
  BY DEF Flying
<1> QED
  BY <1>1, <1>2

-----------------------------------------------------------------------------
(* What the invariant says of a state, before any step.                    *)
LEMMA CountsAreNat ==
    ASSUME RefInv
    PROVE  /\ Total(sptrs) \in Nat /\ Total(wptrs) \in Nat
           /\ Cardinality(Flying(doing)) \in Nat /\ HandleRef \in {0, 1}
           /\ HandleRef = 1 <=> handle = "open"
           /\ mWeak \in Nat /\ mStrong \in Nat
<1>1. /\ Total(sptrs) \in Nat /\ Total(wptrs) \in Nat
      /\ Cardinality(Flying(doing)) \in Nat
  BY TokensNone, FlyingNone DEF RefInv, RefTypeOK, RefsAreFinite
<1>2. HandleRef \in {0, 1} /\ (HandleRef = 1 <=> handle = "open")
  BY DEF HandleRef
<1>3. mWeak \in Nat
  BY <1>1, <1>2 DEF RefInv, WeakIsRight
<1>4. mStrong \in Nat
  <2>1. Shared => mStrong \in Nat
    BY <1>1, <1>2 DEF Shared
  <2> QED
    BY <2>1, HolderAssumption DEF RefInv, Bare, First
<1> QED
  BY <1>1, <1>2, <1>3, <1>4

(* Whoever has a pointer, a handle or an operation keeps the weak count up. *)
LEMMA SomethingHeld ==
    ASSUME RefInv, NEW t \in Holder,
           sptrs[t] > 0 \/ wptrs[t] > 0 \/ doing[t] \in Owning \/ handle = "open"
    PROVE  mWeak > 0 /\ impl /\ \A u \in Holder : doing[u] # "free"
<1>1. /\ Total(sptrs) = 0 => sptrs[t] = 0
      /\ Total(wptrs) = 0 => wptrs[t] = 0
      /\ Cardinality(Flying(doing)) = 0 => doing[t] \notin Owning
  BY TokensNone, FlyingNone DEF RefInv, RefTypeOK, RefsAreFinite
<1>2. mWeak = Total(sptrs) + Total(wptrs) + Cardinality(Flying(doing)) + HandleRef
  BY DEF RefInv, WeakIsRight
<1>3. sptrs[t] \in Nat /\ wptrs[t] \in Nat
  BY DEF RefInv, RefTypeOK
<1>4. mWeak > 0
  BY <1>1, <1>2, <1>3, CountsAreNat
<1>5. impl
  BY <1>4 DEF RefInv, Bare, First, OnlyMaker, Shared
<1> QED
  BY <1>4, <1>5 DEF RefInv, OneFrees

LEMMA SharedStrong ==
    ASSUME RefInv, Shared
    PROVE  /\ mStrong < INITIAL_STRONG_VALUE
           /\ \A t \in Holder : sptrs[t] > 0 \/ handle = "open" => mStrong > 0
<1>1. /\ sptrs \in [Holder -> Nat] /\ MaxPointers \in [Holder -> Nat]
      /\ IsFiniteSet(Tokens(sptrs))
  BY HolderAssumption DEF RefInv, RefTypeOK, RefsAreFinite
<1>2. \A t \in Holder : sptrs[t] <= MaxPointers[t] + 1
  BY <1>1 DEF RefInv, FewPointers
<1>3. Total(sptrs) + 1 < INITIAL_STRONG_VALUE
  BY <1>1, <1>2, TokensFit
<1>4. \A t \in Holder : Total(sptrs) = 0 => sptrs[t] = 0
  BY <1>1, TokensNone
<1>5. mStrong = Total(sptrs) + HandleRef
  BY DEF Shared
<1> QED
  BY <1>1, <1>3, <1>4, <1>5, CountsAreNat, HolderAssumption

LEMMA RefInit_RefInv == RefInit => RefInv
<1> SUFFICES ASSUME RefInit PROVE RefInv
  OBVIOUS
<1> USE DEF RefInit
<1>1. RefTypeOK
  BY HolderAssumption DEF RefTypeOK
<1>2. Tokens(sptrs) = {} /\ Tokens(wptrs) = {} /\ Flying(doing) = {}
  BY DEF Tokens, Flying, Owning
<1>3. Cardinality({}) = 0 /\ IsFiniteSet({})
  BY FS_EmptySet
<1>4. RefsAreFinite /\ WeakIsRight
  BY <1>2, <1>3 DEF RefsAreFinite, WeakIsRight, Total, HandleRef
<1>5. OneFrees /\ FewPointers /\ Bare
  BY HolderAssumption DEF OneFrees, FewPointers, Bare, OnlyMaker
<1> QED
  BY <1>1, <1>4, <1>5 DEF RefInv

(* How the counted sets follow a thread from one operation to the next.    *)
LEMMA Flies ==
    ASSUME RefInv, NEW t \in Holder, NEW v \in Owning \union {"idle", "free"},
           doing' = [doing EXCEPT ![t] = v]
    PROVE  /\ IsFiniteSet(Flying(doing')) /\ doing[t] \in Owning \union {"idle", "free"}
           /\ doing' \in [Holder -> Owning \union {"idle", "free"}]
           /\ doing'[t] = v /\ \A u \in Holder : u # t => doing'[u] = doing[u]
           /\ (doing[t] \in Owning <=> v \in Owning) =>
                  Cardinality(Flying(doing')) = Cardinality(Flying(doing))
           /\ doing[t] \notin Owning /\ v \in Owning =>
                  Cardinality(Flying(doing')) = Cardinality(Flying(doing)) + 1
           /\ doing[t] \in Owning /\ v \notin Owning =>
                  Cardinality(Flying(doing')) = Cardinality(Flying(doing)) - 1
<1>1. /\ doing \in [Holder -> Owning \union {"idle", "free"}]
      /\ IsFiniteSet(Flying(doing))
  BY DEF RefInv, RefTypeOK, RefsAreFinite
<1>2. /\ doing' \in [Holder -> Owning \union {"idle", "free"}]
      /\ doing'[t] = v /\ \A u \in Holder : u # t => doing'[u] = doing[u]
  BY <1>1
<1>3. doing[t] \in Owning \union {"idle", "free"} /\ Cardinality(Flying(doing)) \in Nat
  BY <1>1, FS_CardinalityType
<1>4. CASE doing[t] \in Owning <=> v \in Owning
  <2>1. Flying(doing') = Flying(doing)
    BY <1>2, <1>4 DEF Flying
  <2> QED
    BY <1>1, <1>2, <1>3, <1>4, <2>1
<1>5. CASE doing[t] \notin Owning /\ v \in Owning
  <2>1. Flying(doing') = Flying(doing) \union {t} /\ t \notin Flying(doing)
    BY <1>2, <1>5 DEF Flying
  <2>2. /\ IsFiniteSet(Flying(doing) \union {t})
        /\ Cardinality(Flying(doing) \union {t}) = Cardinality(Flying(doing)) + 1
    BY <1>1, <2>1, FS_AddElement
  <2> QED
    BY <1>2, <1>3, <1>5, <2>1, <2>2
<1>6. CASE doing[t] \in Owning /\ v \notin Owning
  <2>1. Flying(doing') = Flying(doing) \ {t} /\ t \in Flying(doing)
    BY <1>2, <1>6 DEF Flying
  <2>2. /\ IsFiniteSet(Flying(doing) \ {t})
        /\ Cardinality(Flying(doing) \ {t}) = Cardinality(Flying(doing)) - 1
    BY <1>1, <2>1, FS_RemoveElement
  <2> QED
    BY <1>2, <1>3, <1>6, <2>1, <2>2
<1> QED
  BY <1>4, <1>5, <1>6

(* A thread that begins to make a strong pointer from something it has.    *)
LEMMA Begins ==
    ASSUME RefInv, Shared, NEW t \in Holder, NEW v \in {"incStrong", "load"},
           doing[t] = "idle", sptrs[t] < MaxPointers[t], mWeak > 0,
           v = "incStrong" => sptrs[t] > 0 \/ handle = "open",
           mWeak' = mWeak + 1, doing' = [doing EXCEPT ![t] = v],
           UNCHANGED <<mStrong, object, impl, handle, sptrs, wptrs, curCount>>
    PROVE  RefInv'
<1>1. RefTypeOK'
  BY DEF RefInv, RefTypeOK, Owning
<1>2. /\ doing[t] \notin Owning /\ v \in Owning /\ v # "free"
      /\ doing \in [Holder -> Owning \union {"idle", "free"}]
      /\ IsFiniteSet(Flying(doing))
  BY DEF RefInv, RefTypeOK, RefsAreFinite, Owning
<1>3. /\ IsFiniteSet(Flying(doing'))
      /\ Cardinality(Flying(doing')) = Cardinality(Flying(doing)) + 1
  BY <1>2, Flies
<1>4. RefsAreFinite' /\ WeakIsRight'
  BY <1>3, CountsAreNat DEF RefInv, RefsAreFinite, WeakIsRight, HandleRef
<1>5. OneFrees' /\ FewPointers'
  BY <1>2, SomethingHeld, HolderAssumption
  DEF RefInv, RefTypeOK, OneFrees, FewPointers, Making
<1>6. Shared'
  BY <1>2, SomethingHeld, CountsAreNat
  DEF RefInv, RefTypeOK, Shared, HandleRef, Deleting, Freeing
<1> QED
  BY <1>1, <1>4, <1>5, <1>6 DEF RefInv

(* A thread that gives up a strong reference, its own or the handle's.      *)
LEMMA Releases ==
    ASSUME RefInv, Shared, NEW t \in Holder, doing[t] = "idle", mStrong > 0, mWeak > 0,
           decStrong(t), sptrs' \in [Holder -> Nat], IsFiniteSet(Tokens(sptrs')),
           handle' \in {"none", "open", "closed"},
           Total(sptrs') + HandleRef' = Total(sptrs) + HandleRef - 1,
           Total(sptrs') \in Nat, HandleRef' \in Nat,
           \A u \in Holder : sptrs'[u] <= sptrs[u],
           \A u \in Holder : doing[u] = "incStrong" => sptrs'[u] > 0 \/ handle' = "open"
    PROVE  RefInv'
<1> DEFINE v == IF mStrong = 1 THEN "delete" ELSE "decWeak"
<1>1. /\ mStrong' = mStrong - 1 /\ doing' = [doing EXCEPT ![t] = v]
      /\ v \in {"delete", "decWeak"} /\ (v = "delete" <=> mStrong = 1)
      /\ UNCHANGED <<mWeak, object, impl, wptrs, curCount>>
  BY DEF decStrong, Does
<1> HIDE DEF v
<1>2. /\ doing[t] \notin Owning /\ v \in Owning /\ v # "free"
      /\ v \in Owning \union {"idle", "free"}
  BY <1>1 DEF Owning
<1>3. /\ IsFiniteSet(Flying(doing'))
      /\ doing' \in [Holder -> Owning \union {"idle", "free"}]
      /\ doing'[t] = v /\ \A u \in Holder : u # t => doing'[u] = doing[u]
      /\ Cardinality(Flying(doing')) = Cardinality(Flying(doing)) + 1
  BY <1>1, <1>2, Flies
<1>4. RefTypeOK'
  BY <1>1, <1>3, CountsAreNat DEF RefInv, RefTypeOK
<1>5. RefsAreFinite' /\ WeakIsRight'
  BY <1>1, <1>3, CountsAreNat DEF RefInv, RefsAreFinite, WeakIsRight
<1>6. OneFrees'
  BY <1>1, <1>2, <1>3 DEF RefInv, OneFrees
<1>7. FewPointers'
  BY <1>1, <1>3, HolderAssumption DEF RefInv, RefTypeOK, FewPointers, Making
<1>8. Shared'
  <2>1. object' # "bare" /\ mStrong' = Total(sptrs') + HandleRef'
    BY <1>1, CountsAreNat DEF Shared
  <2>2. /\ \A u \in Holder : doing'[u] # "unbias"
        /\ \A u \in Holder : doing'[u] = "incStrong" => sptrs'[u] > 0 \/ handle' = "open"
    BY <1>1, <1>3 DEF Shared
  <2>3. object = "lives" /\ \A u \in Holder : doing[u] # "delete"
    BY DEF Shared, Deleting
  <2>4. impl' <=> mWeak' > 0 \/ Freeing'
    BY <1>1 DEF Shared, Freeing
  <2>5. /\ \A u \in Holder : doing'[u] = "delete" => u = t
        /\ Deleting' <=> mStrong = 1
    BY <1>1, <1>3, <2>3 DEF Deleting
  <2> QED
    BY <1>1, <2>1, <2>2, <2>3, <2>4, <2>5, CountsAreNat DEF Shared
<1> QED
  BY <1>4, <1>5, <1>6, <1>7, <1>8 DEF RefInv

-----------------------------------------------------------------------------
(* The steps of RefNext once the object is shared.                         *)
LEMMA DropPointerStep ==
    ASSUME RefInv, Shared, NEW t \in Holder, DropPointer(t)
    PROVE  RefInv'
<1>1. /\ doing[t] = "idle" /\ sptrs[t] > 0 /\ handle' = handle
      /\ sptrs' = [sptrs EXCEPT ![t] = @ - 1] /\ decStrong(t)
      /\ sptrs \in [Holder -> Nat] /\ IsFiniteSet(Tokens(sptrs))
      /\ handle \in {"none", "open", "closed"}
  BY DEF DropPointer, Idle, RefInv, RefTypeOK, RefsAreFinite
<1>2. /\ sptrs' \in [Holder -> Nat] /\ sptrs'[t] = sptrs[t] - 1
      /\ \A u \in Holder : u # t => sptrs'[u] = sptrs[u]
  BY <1>1
<1>3. IsFiniteSet(Tokens(sptrs')) /\ Total(sptrs') = Total(sptrs) - 1
  BY <1>1, <1>2, TokensLess
<1>4. mStrong > 0 /\ mWeak > 0 /\ Total(sptrs') \in Nat
  BY <1>1, <1>2, <1>3, SharedStrong, SomethingHeld, TokensNone
<1>5. \A u \in Holder : doing[u] = "incStrong" => sptrs'[u] > 0 \/ handle' = "open"
  BY <1>1, <1>2 DEF Shared
<1>6. Total(sptrs') + HandleRef' = Total(sptrs) + HandleRef - 1 /\ HandleRef' \in Nat
  BY <1>1, <1>3, CountsAreNat DEF HandleRef
<1>7. \A u \in Holder : sptrs'[u] <= sptrs[u]
  BY <1>1, <1>2
<1> QED
  BY <1>1, <1>2, <1>3, <1>4, <1>5, <1>6, <1>7, Releases

LEMMA DestroyStep ==
    ASSUME RefInv, Shared, NEW t \in Holder, Destroy(t)
    PROVE  RefInv'
<1>1. /\ doing[t] = "idle" /\ sptrs[t] > 0 /\ handle = "open" /\ handle' = "closed"
      /\ sptrs' = sptrs /\ decStrong(t)
      /\ \A u \in Holder : doing[u] = "incStrong" => sptrs[u] > 0
      /\ sptrs \in [Holder -> Nat] /\ IsFiniteSet(Tokens(sptrs))
  BY DEF Destroy, Idle, RefInv, RefTypeOK, RefsAreFinite
<1>2. mStrong > 0 /\ mWeak > 0 /\ Total(sptrs') \in Nat
  BY <1>1, SharedStrong, SomethingHeld, CountsAreNat
<1>3. HandleRef' = 0 /\ HandleRef = 1
  BY <1>1 DEF HandleRef
<1>4. Total(sptrs') + HandleRef' = Total(sptrs) + HandleRef - 1
  BY <1>1, <1>2, <1>3
<1>5. IsFiniteSet(Tokens(sptrs')) /\ \A u \in Holder : sptrs'[u] <= sptrs[u]
  BY <1>1
<1> QED
  BY <1>1, <1>2, <1>3, <1>4, <1>5, Releases

LEMMA DeleteObjectStep ==
    ASSUME RefInv, Shared, NEW t \in Holder, DeleteObject(t)
    PROVE  RefInv'
<1>1. /\ doing[t] = "delete" /\ doing' = [doing EXCEPT ![t] = "decWeak"]
      /\ object' = "deleted"
      /\ UNCHANGED <<mStrong, mWeak, impl, handle, sptrs, wptrs, curCount>>
  BY DEF DeleteObject, Does
<1>2. "decWeak" \in Owning /\ "delete" \in Owning
  BY DEF Owning
<1>3. /\ IsFiniteSet(Flying(doing'))
      /\ doing' \in [Holder -> Owning \union {"idle", "free"}]
      /\ doing'[t] = "decWeak" /\ \A u \in Holder : u # t => doing'[u] = doing[u]
      /\ Cardinality(Flying(doing')) = Cardinality(Flying(doing))
  BY <1>1, <1>2, Flies
<1>4. RefTypeOK'
  BY <1>1, <1>3 DEF RefInv, RefTypeOK
<1>5. RefsAreFinite' /\ WeakIsRight'
  BY <1>1, <1>3 DEF RefInv, RefsAreFinite, WeakIsRight, HandleRef
<1>6. OneFrees' /\ FewPointers'
  BY <1>1, <1>3, HolderAssumption
  DEF RefInv, RefTypeOK, OneFrees, FewPointers, Making
<1>7. Shared'
  <2>1. mStrong = 0
    BY <1>1, CountsAreNat DEF Shared, Deleting
  <2>2. ~Deleting' /\ Freeing' = Freeing
    BY <1>1, <1>3 DEF Shared, Deleting, Freeing
  <2>3. \A u \in Holder : doing'[u] = "incStrong" => sptrs'[u] > 0 \/ handle' = "open"
    BY <1>1, <1>3 DEF Shared
  <2> QED
    BY <1>1, <1>3, <2>1, <2>2, <2>3 DEF Shared, HandleRef
<1> QED
  BY <1>4, <1>5, <1>6, <1>7 DEF RefInv

(* decWeak in any phase: a Bare object's bias is not touched.              *)
LEMMA decWeakStep ==
    ASSUME RefInv, Bare \/ Shared, NEW t \in Holder, decWeak(t)
    PROVE  RefInv'
<1> DEFINE v == IF mWeak = 1 THEN "free" ELSE "idle"
<1>1. /\ doing[t] = "decWeak" /\ mWeak' = mWeak - 1 /\ doing' = [doing EXCEPT ![t] = v]
      /\ v \in {"free", "idle"} /\ (v = "free" <=> mWeak = 1)
      /\ UNCHANGED <<mStrong, object, impl, handle, sptrs, wptrs, curCount>>
  BY DEF decWeak, Does
<1> HIDE DEF v
<1>2. doing[t] \in Owning /\ v \notin Owning /\ v \in Owning \union {"idle", "free"}
  BY <1>1 DEF Owning
<1>3. /\ IsFiniteSet(Flying(doing'))
      /\ doing' \in [Holder -> Owning \union {"idle", "free"}]
      /\ doing'[t] = v /\ \A u \in Holder : u # t => doing'[u] = doing[u]
      /\ Cardinality(Flying(doing')) = Cardinality(Flying(doing)) - 1
  BY <1>1, <1>2, Flies
<1>4. mWeak > 0 /\ impl /\ mWeak \in Nat /\ \A u \in Holder : doing[u] # "free"
  BY <1>2, SomethingHeld, CountsAreNat
<1>5. RefTypeOK'
  BY <1>1, <1>3, <1>4 DEF RefInv, RefTypeOK
<1>6. RefsAreFinite' /\ WeakIsRight'
  BY <1>1, <1>3, CountsAreNat DEF RefInv, RefsAreFinite, WeakIsRight, HandleRef
<1>7. OneFrees' /\ FewPointers'
  BY <1>1, <1>3, <1>4, HolderAssumption
  DEF RefInv, RefTypeOK, OneFrees, FewPointers, Making
<1>8. ASSUME Bare PROVE Bare'
  BY <1>1, <1>3, <1>8, HolderAssumption DEF Bare, OnlyMaker
<1>9. ASSUME Shared PROVE Shared'
  <2>1. Deleting' <=> Deleting
    BY <1>1, <1>3 DEF Deleting
  <2>2. mWeak' > 0 \/ Freeing'
    BY <1>1, <1>3, <1>4 DEF Freeing
  <2>3. /\ \A u \in Holder : doing'[u] = "incStrong" => sptrs'[u] > 0 \/ handle' = "open"
        /\ \A u \in Holder : doing'[u] # "unbias"
        /\ \A u, w \in Holder : doing'[u] = "delete" /\ doing'[w] = "delete" => u = w
    BY <1>1, <1>3, <1>9 DEF Shared
  <2> QED
    BY <1>1, <1>4, <1>9, <2>1, <2>2, <2>3 DEF Shared, HandleRef
<1> QED
  BY <1>5, <1>6, <1>7, <1>8, <1>9 DEF RefInv

LEMMA FreeRefsStep ==
    ASSUME RefInv, Bare \/ Shared, NEW t \in Holder, FreeRefs(t)
    PROVE  RefInv'
<1>1. /\ doing[t] = "free" /\ impl' = (mStrong = INITIAL_STRONG_VALUE)
      /\ doing' = [doing EXCEPT ![t] = "idle"]
      /\ UNCHANGED <<mStrong, mWeak, object, handle, sptrs, wptrs, curCount>>
  BY DEF FreeRefs, Does
<1>2. "free" \notin Owning /\ "idle" \notin Owning
  BY DEF Owning
<1>3. /\ IsFiniteSet(Flying(doing'))
      /\ doing' \in [Holder -> Owning \union {"idle", "free"}]
      /\ doing'[t] = "idle" /\ \A u \in Holder : u # t => doing'[u] = doing[u]
      /\ Cardinality(Flying(doing')) = Cardinality(Flying(doing))
  BY <1>1, <1>2, Flies
<1>4. mWeak = 0 /\ \A u \in Holder : doing[u] = "free" => u = t
  BY <1>1 DEF RefInv, OneFrees
<1>5. RefTypeOK'
  BY <1>1, <1>3 DEF RefInv, RefTypeOK
<1>6. RefsAreFinite' /\ WeakIsRight'
  BY <1>1, <1>3 DEF RefInv, RefsAreFinite, WeakIsRight, HandleRef
<1>7. OneFrees' /\ FewPointers'
  BY <1>1, <1>3, <1>4, HolderAssumption
  DEF RefInv, RefTypeOK, OneFrees, FewPointers, Making
<1>8. ASSUME Bare PROVE Bare'
  BY <1>1, <1>3, <1>8, HolderAssumption DEF Bare, OnlyMaker
<1>9. ASSUME Shared PROVE Shared'
  <2>1. (Deleting' <=> Deleting) /\ ~Freeing'
    BY <1>1, <1>3, <1>4 DEF Deleting, Freeing
  <2>2. ~impl'
    <3>1. mStrong # INITIAL_STRONG_VALUE
      BY <1>9, SharedStrong, CountsAreNat, HolderAssumption
    <3> QED
      BY <1>1, <3>1
  <2>3. /\ \A u \in Holder : doing'[u] = "incStrong" => sptrs'[u] > 0 \/ handle' = "open"
        /\ \A u \in Holder : doing'[u] # "unbias"
        /\ \A u, w \in Holder : doing'[u] = "delete" /\ doing'[w] = "delete" => u = w
    BY <1>1, <1>3, <1>9 DEF Shared
  <2> QED
    BY <1>1, <1>4, <1>9, <2>1, <2>2, <2>3 DEF Shared, HandleRef
<1> QED
  BY <1>5, <1>6, <1>7, <1>8, <1>9 DEF RefInv

(* An attempt goes on: it looks, it looks again, it gives up.              *)
LEMMA Attempts ==
    ASSUME RefInv, NEW t \in Holder,
           doing[t] \in {"load", "exchange"},
           NEW v \in {"exchange", "decWeak"}, doing' = [doing EXCEPT ![t] = v],
           curCount' \in [Holder -> Int],
           UNCHANGED <<mStrong, mWeak, object, impl, handle, sptrs, wptrs>>
    PROVE  RefInv'
<1>1. /\ doing[t] \in Owning /\ v \in Owning /\ v # "free"
      /\ doing[t] # "idle" /\ doing[t] \in Making
  BY DEF Owning, Making
<1>2. /\ IsFiniteSet(Flying(doing'))
      /\ doing' \in [Holder -> Owning \union {"idle", "free"}]
      /\ doing'[t] = v /\ \A u \in Holder : u # t => doing'[u] = doing[u]
      /\ Cardinality(Flying(doing')) = Cardinality(Flying(doing))
  BY <1>1, Flies
<1>3. Shared
  BY HolderAssumption DEF RefInv, Bare, First, OnlyMaker
<1>4. RefTypeOK'
  BY <1>2 DEF RefInv, RefTypeOK
<1>5. RefsAreFinite' /\ WeakIsRight'
  BY <1>2 DEF RefInv, RefsAreFinite, WeakIsRight, HandleRef
<1>6. OneFrees' /\ FewPointers'
  BY <1>1, <1>2, HolderAssumption
  DEF RefInv, RefTypeOK, OneFrees, FewPointers, Making
<1>7. Shared'
  <2>1. (Deleting' <=> Deleting) /\ (Freeing' <=> Freeing)
    BY <1>1, <1>2 DEF Deleting, Freeing
  <2>2. /\ \A u \in Holder : doing'[u] = "incStrong" => sptrs'[u] > 0 \/ handle' = "open"
        /\ \A u \in Holder : doing'[u] # "unbias"
        /\ \A u, w \in Holder : doing'[u] = "delete" /\ doing'[w] = "delete" => u = w
    BY <1>2, <1>3 DEF Shared
  <2> QED
    BY <1>2, <1>3, <2>1, <2>2 DEF Shared, HandleRef
<1> QED
  BY <1>4, <1>5, <1>6, <1>7 DEF RefInv

(* A strong reference is counted: by incStrong, or by an exchange.         *)
LEMMA Counted ==
    ASSUME RefInv, Shared, NEW t \in Holder,
           doing[t] \in {"incStrong", "exchange"}, mStrong > 0,
           mStrong' = mStrong + 1, doing' = [doing EXCEPT ![t] = "idle"],
           GetsStrong(t), curCount' \in [Holder -> Int],
           UNCHANGED <<mWeak, object, impl, handle, wptrs>>
    PROVE  RefInv'
<1>1. /\ doing[t] \in Owning /\ "idle" \notin Owning /\ doing[t] \in Making
      /\ "idle" \notin Making /\ doing[t] \notin {"delete", "free"}
      /\ sptrs \in [Holder -> Nat] /\ IsFiniteSet(Tokens(sptrs))
  BY DEF Owning, Making, RefInv, RefTypeOK, RefsAreFinite
<1>2. /\ sptrs' \in [Holder -> Nat] /\ sptrs'[t] = sptrs[t] + 1
      /\ \A u \in Holder : u # t => sptrs'[u] = sptrs[u]
  BY <1>1 DEF GetsStrong
<1>3. /\ IsFiniteSet(Flying(doing'))
      /\ doing' \in [Holder -> Owning \union {"idle", "free"}]
      /\ doing'[t] = "idle" /\ \A u \in Holder : u # t => doing'[u] = doing[u]
      /\ Cardinality(Flying(doing')) = Cardinality(Flying(doing)) - 1
  BY <1>1, Flies
<1>4. IsFiniteSet(Tokens(sptrs')) /\ Total(sptrs') = Total(sptrs) + 1
  BY <1>1, <1>2, TokensMore
<1>5. RefTypeOK'
  BY <1>2, <1>3 DEF RefInv, RefTypeOK
<1>6. RefsAreFinite' /\ WeakIsRight'
  BY <1>3, <1>4, CountsAreNat DEF RefInv, RefsAreFinite, WeakIsRight, HandleRef
<1>7. OneFrees'
  BY <1>3 DEF RefInv, OneFrees
<1>8. FewPointers'
  <2>1. sptrs[t] <= MaxPointers[t] /\ MaxPointers[t] \in Nat
    BY <1>1, HolderAssumption DEF RefInv, FewPointers
  <2> QED
    BY <1>1, <1>2, <1>3, <2>1 DEF RefInv, FewPointers
<1>9. Shared'
  <2>1. (Deleting' <=> Deleting) /\ (Freeing' <=> Freeing)
    BY <1>1, <1>3 DEF Deleting, Freeing
  <2>2. /\ \A u \in Holder : doing'[u] = "incStrong" => sptrs'[u] > 0 \/ handle' = "open"
        /\ \A u \in Holder : doing'[u] # "unbias"
        /\ \A u, w \in Holder : doing'[u] = "delete" /\ doing'[w] = "delete" => u = w
    BY <1>2, <1>3 DEF Shared
  <2>3. HandleRef' = HandleRef
    BY DEF HandleRef
  <2> QED
    BY <1>4, <2>1, <2>2, <2>3, CountsAreNat DEF Shared
<1> QED
  BY <1>5, <1>6, <1>7, <1>8, <1>9 DEF RefInv

(* A weak pointer more, while making it stands on another or the object is  *)
(* still its Maker's.                                                       *)
LEMMA MakeWeakStep ==
    ASSUME RefInv, Bare \/ Shared, NEW t \in Holder, MakeWeak(t)
    PROVE  RefInv'
<1>1. /\ doing[t] = "idle" /\ mWeak' = mWeak + 1
      /\ sptrs[t] + wptrs[t] > 0 \/ (t = Maker /\ object = "bare")
      /\ wptrs' = [wptrs EXCEPT ![t] = @ + 1]
      /\ UNCHANGED <<mStrong, object, impl, handle, sptrs, doing, curCount>>
      /\ wptrs \in [Holder -> Nat] /\ sptrs \in [Holder -> Nat]
      /\ IsFiniteSet(Tokens(wptrs))
  BY DEF MakeWeak, Idle, RefInv, RefTypeOK, RefsAreFinite
<1>2. /\ wptrs' \in [Holder -> Nat] /\ wptrs'[t] = wptrs[t] + 1
      /\ \A u \in Holder : u # t => wptrs'[u] = wptrs[u]
  BY <1>1
<1>3. IsFiniteSet(Tokens(wptrs')) /\ Total(wptrs') = Total(wptrs) + 1
  BY <1>1, <1>2, TokensMore
<1>4. impl /\ \A u \in Holder : doing[u] # "free"
  <2>1. CASE sptrs[t] + wptrs[t] > 0
    BY <1>1, <2>1, SomethingHeld
  <2>2. CASE t = Maker /\ object = "bare"
    BY <1>1, <2>2 DEF Bare, Shared, OnlyMaker
  <2> QED
    BY <1>1, <2>1, <2>2
<1>5. RefTypeOK'
  BY <1>1, <1>2, CountsAreNat DEF RefInv, RefTypeOK
<1>6. RefsAreFinite' /\ WeakIsRight'
  BY <1>1, <1>3, CountsAreNat DEF RefInv, RefsAreFinite, WeakIsRight, HandleRef
<1>7. OneFrees' /\ FewPointers'
  BY <1>1, <1>4 DEF RefInv, OneFrees, FewPointers
<1>8. ASSUME Bare PROVE Bare'
  BY <1>1, <1>2, <1>8 DEF Bare, OnlyMaker
<1>9. ASSUME Shared PROVE Shared'
  BY <1>1, <1>4, <1>9, CountsAreNat DEF Shared, HandleRef, Deleting, Freeing
<1> QED
  BY <1>5, <1>6, <1>7, <1>8, <1>9 DEF RefInv

LEMMA DropWeakStep ==
    ASSUME RefInv, Bare \/ Shared, NEW t \in Holder, DropWeak(t)
    PROVE  RefInv'
<1>1. /\ doing[t] = "idle" /\ wptrs[t] > 0
      /\ wptrs' = [wptrs EXCEPT ![t] = @ - 1]
      /\ doing' = [doing EXCEPT ![t] = "decWeak"]
      /\ UNCHANGED <<mStrong, mWeak, object, impl, handle, sptrs, curCount>>
      /\ wptrs \in [Holder -> Nat] /\ IsFiniteSet(Tokens(wptrs))
      /\ "idle" \notin Owning /\ "decWeak" \in Owning
  BY DEF DropWeak, Idle, Does, RefInv, RefTypeOK, RefsAreFinite, Owning
<1>2. /\ wptrs' \in [Holder -> Nat] /\ wptrs'[t] = wptrs[t] - 1
      /\ \A u \in Holder : u # t => wptrs'[u] = wptrs[u]
  BY <1>1
<1>3. IsFiniteSet(Tokens(wptrs')) /\ Total(wptrs') = Total(wptrs) - 1
  BY <1>1, <1>2, TokensLess
<1>4. /\ IsFiniteSet(Flying(doing'))
      /\ doing' \in [Holder -> Owning \union {"idle", "free"}]
      /\ doing'[t] = "decWeak" /\ \A u \in Holder : u # t => doing'[u] = doing[u]
      /\ Cardinality(Flying(doing')) = Cardinality(Flying(doing)) + 1
  BY <1>1, Flies
<1>5. RefTypeOK'
  BY <1>1, <1>2, <1>4 DEF RefInv, RefTypeOK
<1>6. RefsAreFinite' /\ WeakIsRight'
  BY <1>1, <1>3, <1>4, CountsAreNat DEF RefInv, RefsAreFinite, WeakIsRight, HandleRef
<1>7. OneFrees' /\ FewPointers'
  BY <1>1, <1>4, HolderAssumption
  DEF RefInv, RefTypeOK, OneFrees, FewPointers, Making
<1>8. ASSUME Bare PROVE Bare'
  <2>1. t = Maker
    BY <1>1, <1>8 DEF Bare, OnlyMaker
  <2> QED
    BY <1>1, <1>2, <1>4, <1>8, <2>1 DEF Bare, OnlyMaker
<1>9. ASSUME Shared PROVE Shared'
  <2>1. (Deleting' <=> Deleting) /\ (Freeing' <=> Freeing)
    BY <1>1, <1>4 DEF Deleting, Freeing
  <2>2. /\ \A u \in Holder : doing'[u] = "incStrong" => sptrs'[u] > 0 \/ handle' = "open"
        /\ \A u \in Holder : doing'[u] # "unbias"
        /\ \A u, w \in Holder : doing'[u] = "delete" /\ doing'[w] = "delete" => u = w
    BY <1>1, <1>4, <1>9 DEF Shared
  <2> QED
    BY <1>1, <1>9, <2>1, <2>2 DEF Shared, HandleRef
<1> QED
  BY <1>5, <1>6, <1>7, <1>8, <1>9 DEF RefInv

LEMMA GivePointerStep ==
    ASSUME RefInv, Shared, NEW t \in Holder, NEW u \in Holder, GivePointer(t, u)
    PROVE  RefInv'
<1>1. /\ doing[t] = "idle" /\ sptrs[t] > 0 /\ t # u /\ sptrs[u] < MaxPointers[u]
      /\ sptrs' = [sptrs EXCEPT ![t] = @ - 1, ![u] = @ + 1]
      /\ UNCHANGED <<mStrong, mWeak, object, impl, handle, wptrs, doing, curCount>>
      /\ sptrs \in [Holder -> Nat] /\ IsFiniteSet(Tokens(sptrs))
      /\ MaxPointers \in [Holder -> Nat]
  BY HolderAssumption DEF GivePointer, Idle, RefInv, RefTypeOK, RefsAreFinite
<1>2. /\ sptrs' \in [Holder -> Nat] /\ sptrs'[t] = sptrs[t] - 1
      /\ sptrs'[u] = sptrs[u] + 1
      /\ \A v \in Holder : v \notin {t, u} => sptrs'[v] = sptrs[v]
  BY <1>1
<1>3. IsFiniteSet(Tokens(sptrs')) /\ Total(sptrs') = Total(sptrs)
  BY <1>1, <1>2, TokensMoved
<1>4. RefTypeOK' /\ RefsAreFinite' /\ WeakIsRight'
  BY <1>1, <1>2, <1>3
  DEF RefInv, RefTypeOK, RefsAreFinite, WeakIsRight, HandleRef
<1>5. OneFrees' /\ FewPointers'
  <2>1. \A v \in Holder : sptrs'[v] <= sptrs[v] \/ sptrs'[v] <= MaxPointers[v]
    BY <1>1, <1>2
  <2> QED
    BY <1>1, <1>2, <2>1 DEF RefInv, OneFrees, FewPointers
<1>6. Shared'
  <2>1. \A v \in Holder : doing'[v] = "incStrong" => sptrs'[v] > 0 \/ handle' = "open"
    BY <1>1, <1>2 DEF Shared
  <2> QED
    BY <1>1, <1>3, <2>1 DEF Shared, HandleRef, Deleting, Freeing
<1> QED
  BY <1>4, <1>5, <1>6 DEF RefInv

LEMMA GiveWeakStep ==
    ASSUME RefInv, Shared, NEW t \in Holder, NEW u \in Holder, GiveWeak(t, u)
    PROVE  RefInv'
<1>1. /\ wptrs[t] > 0 /\ t # u
      /\ wptrs' = [wptrs EXCEPT ![t] = @ - 1, ![u] = @ + 1]
      /\ UNCHANGED <<mStrong, mWeak, object, impl, handle, sptrs, doing, curCount>>
      /\ wptrs \in [Holder -> Nat] /\ IsFiniteSet(Tokens(wptrs))
  BY DEF GiveWeak, RefInv, RefTypeOK, RefsAreFinite
<1>2. /\ wptrs' \in [Holder -> Nat] /\ wptrs'[t] = wptrs[t] - 1
      /\ wptrs'[u] = wptrs[u] + 1
      /\ \A v \in Holder : v \notin {t, u} => wptrs'[v] = wptrs[v]
  BY <1>1
<1>3. IsFiniteSet(Tokens(wptrs')) /\ Total(wptrs') = Total(wptrs)
  BY <1>1, <1>2, TokensMoved
<1>4. RefTypeOK' /\ RefsAreFinite' /\ WeakIsRight'
  BY <1>1, <1>2, <1>3
  DEF RefInv, RefTypeOK, RefsAreFinite, WeakIsRight, HandleRef
<1>5. OneFrees' /\ FewPointers' /\ Shared'
  BY <1>1
  DEF RefInv, OneFrees, FewPointers, Shared, HandleRef, Deleting, Freeing
<1> QED
  BY <1>4, <1>5 DEF RefInv

(* The handle takes a reference over from the strong pointer of Create.    *)
LEMMA CreateStep ==
    ASSUME RefInv, Shared, NEW t \in Holder, Create(t)
    PROVE  RefInv'
<1>1. /\ doing[t] = "idle" /\ sptrs[t] > 1 /\ handle = "none" /\ handle' = "open"
      /\ sptrs' = [sptrs EXCEPT ![t] = @ - 1]
      /\ UNCHANGED <<mStrong, mWeak, object, impl, wptrs, doing, curCount>>
      /\ sptrs \in [Holder -> Nat] /\ IsFiniteSet(Tokens(sptrs))
      /\ MaxPointers \in [Holder -> Nat]
  BY HolderAssumption DEF Create, Idle, RefInv, RefTypeOK, RefsAreFinite
<1>2. /\ sptrs' \in [Holder -> Nat] /\ sptrs[t] > 0 /\ sptrs'[t] = sptrs[t] - 1
      /\ \A u \in Holder : u # t => sptrs'[u] = sptrs[u]
  BY <1>1
<1>3. IsFiniteSet(Tokens(sptrs')) /\ Total(sptrs') = Total(sptrs) - 1
  BY <1>1, <1>2, TokensLess
<1>4. HandleRef = 0 /\ HandleRef' = 1
  BY <1>1 DEF HandleRef
<1>5. RefTypeOK' /\ RefsAreFinite' /\ WeakIsRight'
  BY <1>1, <1>2, <1>3, <1>4, CountsAreNat
  DEF RefInv, RefTypeOK, RefsAreFinite, WeakIsRight
<1>6. OneFrees' /\ FewPointers'
  <2>1. \A u \in Holder : sptrs'[u] <= sptrs[u]
    BY <1>1, <1>2
  <2> QED
    BY <1>1, <1>2, <2>1 DEF RefInv, OneFrees, FewPointers
<1>7. Shared'
  BY <1>1, <1>3, <1>4, CountsAreNat DEF Shared, Deleting, Freeing
<1> QED
  BY <1>5, <1>6, <1>7 DEF RefInv

LEMMA SharedStep ==
    ASSUME RefInv, Shared, RefNext
    PROVE  RefInv'
<1>1. PICK t \in Holder :
        \/ FirstPointer(t) \/ CopyPointer(t) \/ DropPointer(t) \/ attemptIncStrong(t)
        \/ MakeWeak(t) \/ DropWeak(t)
        \/ \E u \in Holder : GivePointer(t, u) \/ GiveWeak(t, u)
        \/ Create(t) \/ Destroy(t) \/ \E calls \in EntryPoints : Enter(t, calls)
        \/ Continues(t)
  BY DEF RefNext
<1>2. /\ object # "bare" /\ \A u \in Holder : doing[u] # "unbias"
      /\ mStrong < INITIAL_STRONG_VALUE /\ mStrong \in Nat
      /\ curCount \in [Holder -> Int]
  BY SharedStrong, CountsAreNat DEF Shared, RefInv, RefTypeOK
<1>3. CASE FirstPointer(t)
  BY <1>2, <1>3 DEF FirstPointer
<1>4. CASE CopyPointer(t)
  <2>1. /\ doing[t] = "idle" /\ sptrs[t] > 0 /\ sptrs[t] < MaxPointers[t]
        /\ mWeak' = mWeak + 1 /\ doing' = [doing EXCEPT ![t] = "incStrong"]
        /\ UNCHANGED <<mStrong, object, impl, handle, sptrs, wptrs, curCount>>
    BY <1>4 DEF CopyPointer, incStrong, Idle, Does
  <2> QED
    BY <2>1, SomethingHeld, Begins
<1>5. CASE DropPointer(t)
  BY <1>5, DropPointerStep
<1>6. CASE attemptIncStrong(t)
  <2>1. /\ doing[t] = "idle" /\ wptrs[t] > 0 /\ sptrs[t] < MaxPointers[t]
        /\ mWeak' = mWeak + 1 /\ doing' = [doing EXCEPT ![t] = "load"]
        /\ UNCHANGED <<mStrong, object, impl, handle, sptrs, wptrs, curCount>>
    BY <1>6 DEF attemptIncStrong, Idle, Does
  <2> QED
    BY <2>1, SomethingHeld, Begins
<1>7. CASE MakeWeak(t)
  BY <1>7, MakeWeakStep
<1>8. CASE DropWeak(t)
  BY <1>8, DropWeakStep
<1>9. CASE \E u \in Holder : GivePointer(t, u) \/ GiveWeak(t, u)
  BY <1>9, GivePointerStep, GiveWeakStep
<1>10. CASE Create(t)
  BY <1>10, CreateStep
<1>11. CASE Destroy(t)
  BY <1>11, DestroyStep
<1>12. CASE \E calls \in EntryPoints : Enter(t, calls)
  <2>1. /\ doing[t] = "idle" /\ handle = "open" /\ sptrs[t] < MaxPointers[t]
        /\ mWeak' = mWeak + 1 /\ doing' = [doing EXCEPT ![t] = "incStrong"]
        /\ UNCHANGED <<mStrong, object, impl, handle, sptrs, wptrs, curCount>>
    BY <1>12 DEF Enter, incStrong, Idle, Does
  <2> QED
    BY <2>1, SomethingHeld, Begins
<1>13. CASE StrongCounted(t)
  <2>1. doing[t] = "incStrong" /\ mStrong # INITIAL_STRONG_VALUE
    BY <1>2, <1>13, HolderAssumption DEF StrongCounted
  <2>2. /\ mStrong' = mStrong + 1 /\ GetsStrong(t)
        /\ doing' = [doing EXCEPT ![t] = "idle"]
        /\ UNCHANGED <<mWeak, object, impl, handle, wptrs, curCount>>
    BY <1>13, <2>1 DEF StrongCounted, Does
  <2>3. mStrong > 0
    BY <2>1, SharedStrong DEF Shared
  <2> QED
    BY <1>2, <2>1, <2>2, <2>3, Counted
<1>14. CASE Unbias(t)
  BY <1>2, <1>14 DEF Unbias
<1>15. CASE DeleteObject(t)
  BY <1>15, DeleteObjectStep
<1>16. CASE decWeak(t)
  BY <1>16, decWeakStep
<1>17. CASE FreeRefs(t)
  BY <1>17, FreeRefsStep
<1>18. CASE LoadCount(t)
  <2>1. /\ doing[t] = "load" /\ doing' = [doing EXCEPT ![t] = "exchange"]
        /\ curCount' \in [Holder -> Int]
        /\ UNCHANGED <<mStrong, mWeak, object, impl, handle, sptrs, wptrs>>
    BY <1>2, <1>18 DEF LoadCount, Does
  <2> QED
    BY <2>1, Attempts
<1>19. CASE Exchange(t)
  <2>1. CASE mStrong = curCount[t]
    <3>1. doing[t] = "exchange" /\ mStrong > 0 /\ mStrong # INITIAL_STRONG_VALUE
      BY <1>2, <1>19, <2>1, HolderAssumption DEF Exchange
    <3>2. /\ mStrong' = mStrong + 1 /\ GetsStrong(t)
          /\ doing' = [doing EXCEPT ![t] = "idle"] /\ curCount' \in [Holder -> Int]
          /\ UNCHANGED <<mWeak, object, impl, handle, wptrs>>
      BY <1>2, <1>19, <2>1, <3>1 DEF Exchange, Does, Forgets
    <3> QED
      BY <3>1, <3>2, Counted
  <2>2. CASE mStrong # curCount[t]
    <3>1. /\ doing[t] = "exchange" /\ doing' = doing
          /\ curCount' \in [Holder -> Int]
          /\ UNCHANGED <<mStrong, mWeak, object, impl, handle, sptrs, wptrs>>
      BY <1>2, <1>19, <2>2 DEF Exchange
    <3>2. doing' = [doing EXCEPT ![t] = "exchange"]
      BY <3>1 DEF RefInv, RefTypeOK
    <3> QED
      BY <3>1, <3>2, Attempts
  <2> QED
    BY <2>1, <2>2
<1>20. CASE AttemptFails(t)
  <2>1. /\ doing[t] = "exchange" /\ doing' = [doing EXCEPT ![t] = "decWeak"]
        /\ curCount' \in [Holder -> Int]
        /\ UNCHANGED <<mStrong, mWeak, object, impl, handle, sptrs, wptrs>>
    BY <1>2, <1>20 DEF AttemptFails, Does
  <2> QED
    BY <2>1, Attempts
<1> QED
  BY <1>1, <1>3, <1>4, <1>5, <1>6, <1>7, <1>8, <1>9, <1>10, <1>11, <1>12, <1>13,
     <1>14, <1>15, <1>16, <1>17, <1>18, <1>19, <1>20 DEF Continues

(* The steps before the object is shared.                                  *)
LEMMA BareStep ==
    ASSUME RefInv, Bare, RefNext
    PROVE  RefInv'
<1>1. PICK t \in Holder :
        \/ FirstPointer(t) \/ CopyPointer(t) \/ DropPointer(t) \/ attemptIncStrong(t)
        \/ MakeWeak(t) \/ DropWeak(t)
        \/ \E u \in Holder : GivePointer(t, u) \/ GiveWeak(t, u)
        \/ Create(t) \/ Destroy(t) \/ \E calls \in EntryPoints : Enter(t, calls)
        \/ Continues(t)
  BY DEF RefNext
<1>2. /\ object = "bare" /\ handle = "none" /\ sptrs[t] = 0
      /\ doing[t] \in {"idle", "decWeak", "free"}
      /\ doing[Maker] # "idle" => t = Maker \/ doing[t] = "idle"
  BY DEF Bare, OnlyMaker
<1>3. CASE FirstPointer(t)
  <2>1. /\ t = Maker /\ doing[t] = "idle" /\ object' = "lives" /\ mWeak' = mWeak + 1
        /\ sptrs[t] < MaxPointers[t] /\ doing' = [doing EXCEPT ![t] = "incStrong"]
        /\ UNCHANGED <<mStrong, impl, handle, sptrs, wptrs, curCount>>
        /\ "idle" \notin Owning /\ "incStrong" \in Owning
    BY <1>3 DEF FirstPointer, incStrong, Idle, Does, Owning
  <2>2. /\ IsFiniteSet(Flying(doing'))
        /\ doing' \in [Holder -> Owning \union {"idle", "free"}]
        /\ doing'[t] = "incStrong" /\ \A u \in Holder : u # t => doing'[u] = doing[u]
        /\ Cardinality(Flying(doing')) = Cardinality(Flying(doing)) + 1
    BY <2>1, Flies
  <2>3. RefTypeOK'
    BY <2>1, <2>2, CountsAreNat DEF RefInv, RefTypeOK
  <2>4. RefsAreFinite' /\ WeakIsRight'
    BY <2>1, <2>2, CountsAreNat DEF RefInv, RefsAreFinite, WeakIsRight, HandleRef
  <2>5. First'
    BY <2>1, <2>2 DEF Bare, First, OnlyMaker
  <2>6. OneFrees' /\ FewPointers'
    <3>1. \A u \in Holder : sptrs'[u] = 0 /\ doing'[u] # "free" /\ MaxPointers[u] \in Nat
      BY <2>1, <2>2, HolderAssumption DEF Bare, OnlyMaker
    <3> QED
      BY <3>1 DEF OneFrees, FewPointers
  <2> QED
    BY <2>3, <2>4, <2>5, <2>6 DEF RefInv
<1>4. CASE MakeWeak(t)
  BY <1>4, MakeWeakStep
<1>5. CASE DropWeak(t)
  BY <1>5, DropWeakStep
<1>6. CASE decWeak(t)
  BY <1>6, decWeakStep
<1>7. CASE FreeRefs(t)
  BY <1>7, FreeRefsStep
<1> QED
  BY <1>1, <1>2, <1>3, <1>4, <1>5, <1>6, <1>7
  DEF CopyPointer, DropPointer, attemptIncStrong, GivePointer, GiveWeak, Create,
      Destroy, Enter, Continues, StrongCounted, Unbias, DeleteObject, LoadCount,
      Exchange, AttemptFails

LEMMA FirstStep ==
    ASSUME RefInv, First, RefNext
    PROVE  RefInv'
<1>1. PICK t \in Holder :
        \/ FirstPointer(t) \/ CopyPointer(t) \/ DropPointer(t) \/ attemptIncStrong(t)
        \/ MakeWeak(t) \/ DropWeak(t)
        \/ \E u \in Holder : GivePointer(t, u) \/ GiveWeak(t, u)
        \/ Create(t) \/ Destroy(t) \/ \E calls \in EntryPoints : Enter(t, calls)
        \/ Continues(t)
  BY DEF RefNext
<1>2. /\ object = "lives" /\ handle = "none" /\ impl /\ sptrs[t] = 0
      /\ doing[Maker] \in {"incStrong", "unbias"}
      /\ t # Maker => doing[t] = "idle" /\ wptrs[t] = 0
      /\ mStrong = (IF doing[Maker] = "unbias" THEN INITIAL_STRONG_VALUE + 1
                                                ELSE INITIAL_STRONG_VALUE)
  BY DEF First, OnlyMaker
<1>3. CASE StrongCounted(t)
  <2>1. /\ t = Maker /\ doing[t] = "incStrong" /\ mStrong = INITIAL_STRONG_VALUE
        /\ mStrong' = mStrong + 1 /\ doing' = [doing EXCEPT ![t] = "unbias"]
        /\ UNCHANGED <<mWeak, object, impl, handle, sptrs, wptrs, curCount>>
        /\ "incStrong" \in Owning /\ "unbias" \in Owning
    BY <1>2, <1>3 DEF StrongCounted, Does, Owning
  <2>2. /\ IsFiniteSet(Flying(doing'))
        /\ doing' \in [Holder -> Owning \union {"idle", "free"}]
        /\ doing'[t] = "unbias" /\ \A u \in Holder : u # t => doing'[u] = doing[u]
        /\ Cardinality(Flying(doing')) = Cardinality(Flying(doing))
    BY <2>1, Flies
  <2>3. RefTypeOK'
    BY <2>1, <2>2, CountsAreNat DEF RefInv, RefTypeOK
  <2>4. RefsAreFinite' /\ WeakIsRight'
    BY <2>1, <2>2 DEF RefInv, RefsAreFinite, WeakIsRight, HandleRef
  <2>5. First'
    BY <2>1, <2>2 DEF First, OnlyMaker
  <2>6. OneFrees' /\ FewPointers'
    <3>1. \A u \in Holder : sptrs'[u] = 0 /\ doing'[u] # "free" /\ MaxPointers[u] \in Nat
      BY <2>1, <2>2, HolderAssumption DEF First, OnlyMaker
    <3> QED
      BY <3>1 DEF OneFrees, FewPointers
  <2> QED
    BY <2>3, <2>4, <2>5, <2>6 DEF RefInv
<1>4. CASE Unbias(t)
  <2>1. /\ t = Maker /\ doing[t] = "unbias" /\ mStrong = INITIAL_STRONG_VALUE + 1
        /\ mStrong' = mStrong - INITIAL_STRONG_VALUE
        /\ doing' = [doing EXCEPT ![t] = "idle"] /\ sptrs' = [sptrs EXCEPT ![t] = @ + 1]
        /\ UNCHANGED <<mWeak, object, impl, handle, wptrs, curCount>>
        /\ "unbias" \in Owning /\ "idle" \notin Owning
        /\ sptrs \in [Holder -> Nat] /\ IsFiniteSet(Tokens(sptrs))
    BY <1>2, <1>4
    DEF Unbias, Does, GetsStrong, Owning, RefInv, RefTypeOK, RefsAreFinite
  <2>2. /\ sptrs' \in [Holder -> Nat] /\ sptrs'[t] = 1 /\ sptrs'[t] = sptrs[t] + 1
        /\ \A u \in Holder : u # t => sptrs'[u] = sptrs[u]
    BY <1>2, <2>1
  <2>3. /\ IsFiniteSet(Tokens(sptrs')) /\ Total(sptrs') = Total(sptrs) + 1
        /\ Total(sptrs) = 0
    <3>1. Total(sptrs) = 0
      BY <2>1, TokensNone DEF First, OnlyMaker
    <3>2. sptrs \in [Holder -> Nat] /\ IsFiniteSet(Tokens(sptrs)) /\ t \in Holder
      BY <2>1
    <3>3. IsFiniteSet(Tokens(sptrs')) /\ Total(sptrs') = Total(sptrs) + 1
      BY <2>2, <3>2, TokensMore
    <3> QED
      BY <3>1, <3>3
  <2>4. /\ IsFiniteSet(Flying(doing'))
        /\ doing' \in [Holder -> Owning \union {"idle", "free"}]
        /\ doing'[t] = "idle" /\ \A u \in Holder : u # t => doing'[u] = doing[u]
        /\ Cardinality(Flying(doing')) = Cardinality(Flying(doing)) - 1
    BY <2>1, Flies
  <2>5. mStrong' = 1 /\ mWeak > 0 /\ mWeak \in Nat /\ HandleRef = 0 /\ HandleRef' = 0
    BY <1>2, <2>1, HolderAssumption, SomethingHeld, CountsAreNat DEF HandleRef
  <2>6. RefTypeOK'
    BY <2>1, <2>2, <2>4, <2>5 DEF RefInv, RefTypeOK
  <2>7. RefsAreFinite' /\ WeakIsRight'
    BY <2>1, <2>3, <2>4, <2>5, CountsAreNat DEF RefInv, RefsAreFinite, WeakIsRight
  <2>8. \A u \in Holder : doing'[u] = "idle"
    BY <2>1, <2>4 DEF First, OnlyMaker
  <2>9. OneFrees' /\ FewPointers'
    <3>1. /\ \A u \in Holder : sptrs'[u] \in {0, 1}
          /\ MaxPointers' = MaxPointers /\ MaxPointers \in [Holder -> Nat]
      BY <2>2, HolderAssumption DEF First, OnlyMaker
    <3>2. \A u \in Holder : doing'[u] \notin Making /\ sptrs'[u] <= MaxPointers[u] + 1
      BY <2>8, <3>1 DEF Making
    <3>3. FewPointers'
      BY <3>2 DEF FewPointers
    <3> QED
      BY <2>8, <3>3 DEF OneFrees
  <2>10. Shared'
    BY <1>2, <2>1, <2>3, <2>5, <2>8 DEF Shared, Deleting, Freeing
  <2> QED
    BY <2>6, <2>7, <2>9, <2>10 DEF RefInv
<1> QED
  <2>1. CASE t = Maker
    BY <1>1, <1>2, <1>3, <1>4, <2>1
    DEF FirstPointer, CopyPointer, DropPointer, attemptIncStrong, GivePointer, GiveWeak,
        Create, Destroy, Enter, incStrong, Idle, MakeWeak, DropWeak, Continues,
        DeleteObject, decWeak, FreeRefs, LoadCount, Exchange, AttemptFails
  <2>2. CASE t # Maker
    <3>1. doing[t] = "idle" /\ sptrs[t] = 0 /\ wptrs[t] = 0 /\ sptrs[t] + wptrs[t] = 0
      BY <1>2, <2>2
    <3> QED
      BY <1>1, <1>2, <1>3, <1>4, <2>2, <3>1
      DEF FirstPointer, CopyPointer, DropPointer, attemptIncStrong, GivePointer, GiveWeak,
          Create, Destroy, Enter, MakeWeak, DropWeak, Continues,
          DeleteObject, decWeak, FreeRefs, LoadCount, Exchange, AttemptFails
  <2> QED
    BY <2>1, <2>2

LEMMA RefInvariance == RefSpec => []RefInv
<1>1. RefInv /\ [RefNext]_refvars => RefInv'
  <2>1. ASSUME RefInv, RefNext PROVE RefInv'
    BY <2>1, BareStep, FirstStep, SharedStep DEF RefInv
  <2>2. ASSUME RefInv, UNCHANGED refvars PROVE RefInv'
    BY <2>2
    DEF refvars, RefInv, RefTypeOK, RefsAreFinite, WeakIsRight, OneFrees, FewPointers,
        Bare, First, Shared, OnlyMaker, HandleRef, Deleting, Freeing
  <2> QED
    BY <2>1, <2>2
<1> QED
  BY <1>1, RefInit_RefInv, PTL DEF RefSpec

(* However copies, drops, promotions and handle calls of any number of     *)
(* threads interleave, what a pointer, the handle or an operation under    *)
(* way stands on is there: no object is used or deleted twice, no counts   *)
(* are used after they are freed (AmlMpRefBase.cpp, AmlMpStrongPointer.h). *)
THEOREM NoUseAfterFree == RefSpec => []NothingIsUsedAfterFree
<1>1. RefInv => NothingIsUsedAfterFree
  <2> SUFFICES ASSUME RefInv PROVE NothingIsUsedAfterFree
    OBVIOUS
  <2>1. ASSUME NEW t \in Holder, handle = "open" \/ sptrs[t] > 0
        PROVE  object = "lives" /\ impl
    <3>1. Shared
      BY <2>1 DEF RefInv, Bare, First, OnlyMaker
    <3>2. mStrong > 0 /\ impl
      BY <2>1, <3>1, SharedStrong, SomethingHeld
    <3> QED
      BY <3>1, <3>2 DEF Shared
  <2>2. ASSUME NEW t \in Holder, doing[t] = "delete"
        PROVE  object = "lives" /\ impl
    <3>1. Shared /\ Deleting
      BY <2>2 DEF RefInv, Bare, First, OnlyMaker, Deleting
    <3>2. mStrong = 0 /\ impl
      BY <2>2, <3>1, SomethingHeld, CountsAreNat DEF Shared, Owning
    <3> QED
      BY <3>1, <3>2 DEF Shared
  <2>3. ASSUME NEW t \in Holder, wptrs[t] > 0 \/ ~Idle(t)
        PROVE  impl
    <3>1. CASE doing[t] = "free"
      BY <3>1 DEF RefInv, Bare, First, OnlyMaker, Shared, Freeing
    <3>2. CASE doing[t] # "free"
      BY <2>3, <3>2, SomethingHeld DEF Idle, RefInv, RefTypeOK
    <3> QED
      BY <3>1, <3>2
  <2>4. (handle = "open" \/ \E t \in Holder : sptrs[t] > 0 \/ doing[t] = "delete")
            => object = "lives" /\ impl
    BY <2>1, <2>2, HolderAssumption
  <2> QED
    BY <2>3, <2>4, CountsAreNat DEF NothingIsUsedAfterFree
<1> QED
  BY <1>1, RefInvariance, PTL

(* When the last strong reference is gone the object is deleted, and the   *)
(* counts go with the last weak one: nothing is left behind, and nothing   *)
(* that a weak pointer still needs goes early.                             *)
THEOREM NothingLeaks == RefSpec => []NothingIsLeft
<1>1. RefInv => NothingIsLeft
  <2> SUFFICES ASSUME RefInv, \A t \in Holder : Idle(t) /\ sptrs[t] = 0,
                      handle # "open", object # "bare"
               PROVE  object = "deleted" /\ impl = (\E t \in Holder : wptrs[t] > 0)
    BY DEF NothingIsLeft
  <2>1. Shared
    BY HolderAssumption DEF RefInv, Bare, First, Idle
  <2>2. /\ Total(sptrs) = 0 /\ Cardinality(Flying(doing)) = 0 /\ HandleRef = 0
        /\ Total(wptrs) = 0 <=> \A t \in Holder : wptrs[t] = 0
    BY TokensNone, FlyingNone
    DEF RefInv, RefTypeOK, RefsAreFinite, Idle, Owning, HandleRef
  <2>3. mStrong = 0 /\ ~Deleting /\ ~Freeing
    BY <2>1, <2>2 DEF Shared, Deleting, Freeing, Idle
  <2>4. mWeak = Total(wptrs) /\ mWeak \in Nat
    BY <2>2, CountsAreNat DEF RefInv, WeakIsRight
  <2>5. impl <=> \E t \in Holder : wptrs[t] > 0
    <3>1. \A t \in Holder : wptrs[t] \in Nat
      BY DEF RefInv, RefTypeOK
    <3> QED
      BY <2>1, <2>2, <2>3, <2>4, <3>1 DEF Shared
  <2>6. impl \in BOOLEAN
    BY DEF RefInv, RefTypeOK
  <2> QED
    BY <2>1, <2>3, <2>5, <2>6 DEF Shared
<1> QED
  BY <1>1, RefInvariance, PTL

-----------------------------------------------------------------------------
(***************************************************************************)
(* ChunkFifo implements ByteQueue for every size of chunk, every number of *)
(* chunks and every word their product divides.  The invariant names a     *)
(* byte by its distance from the read position; two distances below the    *)
(* size of the ring never meet in one place of a chunk.                    *)
(***************************************************************************)
Counter == 0 .. Word - 1
Symbol == Byte \union {Garbage}
Chunk == [0 .. ChunkSize - 1 -> Symbol]

FifoTypeOK ==
    /\ table \in [0 .. ChunkCount - 1 -> Chunk \union {Null}]
    /\ putSize \in Counter /\ getSize \in Counter
    /\ access \in [op : {"none", "put", "get"}, start : Counter, left : Nat, bytes : Seq(Symbol)]

(* A byte of the FIFO is named by its distance from the read position.     *)
Pos(d) == Plus(getSize, d)
There(d) == table[Index(Pos(d))] # Null

Allocated == Size <= MaxSize /\ \A d \in 0 .. Size - 1 : There(d)

(* What a put found, and what it has stored so far. *)
Found == Minus(access.start, getSize)
Stored == Len(access.bytes) - access.left

PutGoesOn ==
    /\ access.left <= Len(access.bytes)
    /\ Found + Len(access.bytes) <= MaxSize
    /\ putSize = Pos(Found + Stored)
    /\ \A d \in 1 .. Stored : ByteAt(Pos(Found + d - 1)) = access.bytes[d]
    /\ \E s \in Inputs :
          access.bytes = SubSeq(s, 1, Least(Len(s), MaxSize - Found))

GetGoesOn ==
    /\ access.left <= Size
    /\ \E k \in Asks :
          Len(access.bytes) + access.left = Least(k, Len(access.bytes) + Size)

FifoInv ==
    /\ FifoTypeOK
    /\ Allocated
    /\ access.op = "put" => PutGoesOn
    /\ access.op = "get" => GetGoesOn

-----------------------------------------------------------------------------
(* The arithmetic of size_t: what Plus and Minus do without a remainder.   *)
LEMMA ModSmall == ASSUME NEW w \in Nat \ {0}, NEW x \in 0 .. w - 1 PROVE x % w = x
  OBVIOUS

LEMMA ModWraps ==
    ASSUME NEW w \in Nat \ {0}, NEW x \in 0 .. w - 1 PROVE (x + w) % w = x
  OBVIOUS

LEMMA MaxSizeType ==
    MaxSize \in Nat /\ MaxSize > 0 /\ Word \in Nat /\ MaxSize < Word
  BY SizeAssumption DEF MaxSize

LEMMA PlusAny ==
    ASSUME NEW a \in Counter, NEW x \in Counter
    PROVE  /\ Plus(a, x) \in Counter
           /\ a + x < Word => Plus(a, x) = a + x
           /\ a + x >= Word => Plus(a, x) = a + x - Word
<1>0. Word \in Nat \ {0} BY MaxSizeType
<1>1. CASE a + x < Word
  <2>1. a + x \in 0 .. Word - 1 BY <1>0, <1>1 DEF Counter
  <2>2. (a + x) % Word = a + x BY <1>0, <2>1, ModSmall
  <2> QED BY <1>0, <1>1, <2>1, <2>2 DEF Plus, Counter
<1>2. CASE a + x >= Word
  <2>1. a + x - Word \in 0 .. Word - 1 BY <1>0, <1>2 DEF Counter
  <2>2. ((a + x - Word) + Word) % Word = a + x - Word BY <1>0, <2>1, ModWraps
  <2>3. (a + x - Word) + Word = a + x BY <1>0 DEF Counter
  <2> QED BY <1>0, <1>2, <2>1, <2>2, <2>3 DEF Plus, Counter
<1> QED BY <1>0, <1>1, <1>2 DEF Counter

LEMMA PlusIs ==
    ASSUME NEW a \in Counter, NEW x \in 0 .. MaxSize
    PROVE  /\ Plus(a, x) \in Counter
           /\ a + x < Word => Plus(a, x) = a + x
           /\ a + x >= Word => Plus(a, x) = a + x - Word
  BY PlusAny, MaxSizeType DEF Counter

LEMMA MinusIs ==
    ASSUME NEW b \in Counter, NEW a \in Counter
    PROVE  /\ Minus(b, a) \in Counter
           /\ b >= a => Minus(b, a) = b - a
           /\ b < a => Minus(b, a) = b + Word - a
<1>0. Word \in Nat \ {0} BY MaxSizeType
<1>1. CASE b < a
  <2>1. b + Word - a \in 0 .. Word - 1 BY <1>0, <1>1 DEF Counter
  <2>2. (b + Word - a) % Word = b + Word - a BY <1>0, <2>1, ModSmall
  <2> QED BY <1>0, <1>1, <2>1, <2>2 DEF Minus, Counter
<1>2. CASE b >= a
  <2>1. b - a \in 0 .. Word - 1 BY <1>0, <1>2 DEF Counter
  <2>2. ((b - a) + Word) % Word = b - a BY <1>0, <2>1, ModWraps
  <2>3. (b - a) + Word = b + Word - a BY <1>0 DEF Counter
  <2> QED BY <1>0, <1>2, <2>1, <2>2, <2>3 DEF Minus, Counter
<1> QED BY <1>0, <1>1, <1>2 DEF Counter

(* Going on from a place that was reached from a. *)
LEMMA PlusPlus ==
    ASSUME NEW a \in Counter, NEW x \in Nat, NEW y \in Nat, x + y <= MaxSize
    PROVE  Plus(Plus(a, x), y) = Plus(a, x + y)
<1>0. Word \in Nat /\ MaxSize < Word /\ MaxSize \in Nat BY MaxSizeType
<1>1. x \in 0 .. MaxSize /\ y \in 0 .. MaxSize /\ x + y \in 0 .. MaxSize BY <1>0
<1> DEFINE b == Plus(a, x)
<1>2. /\ b \in Counter
      /\ a + x < Word => b = a + x
      /\ a + x >= Word => b = a + x - Word BY <1>1, PlusIs
<1> HIDE DEF b
<1>3. /\ Plus(b, y) \in Counter
      /\ b + y < Word => Plus(b, y) = b + y
      /\ b + y >= Word => Plus(b, y) = b + y - Word BY <1>1, <1>2, PlusIs
<1>4. /\ Plus(a, x + y) \in Counter
      /\ a + (x + y) < Word => Plus(a, x + y) = a + (x + y)
      /\ a + (x + y) >= Word => Plus(a, x + y) = a + (x + y) - Word BY <1>1, PlusIs
<1>5. Plus(b, y) = Plus(a, x + y) BY <1>0, <1>1, <1>2, <1>3, <1>4 DEF Counter
<1> QED BY <1>5 DEF b

(* The distance of a place from where it was reached. *)
LEMMA MinusOfPlus ==
    ASSUME NEW a \in Counter, NEW x \in 0 .. MaxSize
    PROVE  Minus(Plus(a, x), a) = x
<1>0. Word \in Nat /\ MaxSize < Word /\ MaxSize \in Nat BY MaxSizeType
<1> DEFINE b == Plus(a, x)
<1>2. /\ b \in Counter
      /\ a + x < Word => b = a + x
      /\ a + x >= Word => b = a + x - Word BY PlusIs
<1> HIDE DEF b
<1>3. /\ b >= a => Minus(b, a) = b - a
      /\ b < a => Minus(b, a) = b + Word - a BY <1>2, MinusIs
<1>4. Minus(b, a) = x BY <1>0, <1>2, <1>3 DEF Counter
<1> QED BY <1>4 DEF b

LEMMA PlusOfMinus ==
    ASSUME NEW a \in Counter, NEW b \in Counter, Minus(b, a) <= MaxSize
    PROVE  Minus(b, a) \in 0 .. MaxSize /\ Plus(a, Minus(b, a)) = b
<1>0. Word \in Nat /\ MaxSize < Word /\ MaxSize \in Nat BY MaxSizeType
<1> DEFINE d == Minus(b, a)
<1>1. d <= MaxSize OBVIOUS
<1>2. /\ d \in Counter
      /\ b >= a => d = b - a
      /\ b < a => d = b + Word - a BY MinusIs
<1> HIDE DEF d
<1>3. d \in 0 .. MaxSize BY <1>0, <1>1, <1>2 DEF Counter
<1>4. /\ Plus(a, d) \in Counter
      /\ a + d < Word => Plus(a, d) = a + d
      /\ a + d >= Word => Plus(a, d) = a + d - Word BY <1>3, PlusIs
<1>5. Plus(a, d) = b BY <1>0, <1>2, <1>3, <1>4 DEF Counter
<1> QED BY <1>3, <1>5 DEF d

(* What is left when the nearer end moves on. *)
LEMMA MinusAfterPlus ==
    ASSUME NEW a \in Counter, NEW b \in Counter, NEW x \in 0 .. MaxSize,
           x <= Minus(b, a)
    PROVE  Minus(b, Plus(a, x)) = Minus(b, a) - x
<1>0. Word \in Nat /\ MaxSize < Word /\ MaxSize \in Nat BY MaxSizeType
<1> DEFINE c == Plus(a, x)
<1> DEFINE d == Minus(b, a)
<1>1. /\ c \in Counter
      /\ a + x < Word => c = a + x
      /\ a + x >= Word => c = a + x - Word BY PlusIs
<1>2. /\ d \in Counter /\ x <= d
      /\ b >= a => d = b - a
      /\ b < a => d = b + Word - a BY MinusIs
<1> HIDE DEF c, d
<1>3. /\ b >= c => Minus(b, c) = b - c
      /\ b < c => Minus(b, c) = b + Word - c BY <1>1, MinusIs
<1>4. Minus(b, c) = d - x BY <1>0, <1>1, <1>2, <1>3 DEF Counter
<1> QED BY <1>4 DEF c, d

-----------------------------------------------------------------------------
(* Chunk and offset of a counter: the remainder of a division is unique.   *)
LEMMA DivMod ==
    ASSUME NEW a \in Nat, NEW n \in Nat \ {0}
    PROVE  a \div n \in Nat /\ a % n \in 0 .. n - 1 /\ a = n * (a \div n) + (a % n)
  OBVIOUS

LEMMA Multiples ==
    ASSUME NEW n \in Nat \ {0}, NEW q \in Nat, NEW p \in Nat, q < p
    PROVE  n * q + n <= n * p
<1>1. n * (p - q) >= n * 1 OBVIOUS
<1>2. n * (p - q) = n * p - n * q OBVIOUS
<1>3. n * p \in Nat /\ n * q \in Nat OBVIOUS
<1> QED BY <1>1, <1>2, <1>3

LEMMA DivisionIsUnique ==
    ASSUME NEW n \in Nat \ {0}, NEW q \in Nat, NEW p \in Nat,
           NEW r \in 0 .. n - 1, NEW s \in 0 .. n - 1,
           n * q + r = n * p + s
    PROVE  q = p /\ r = s
<1>0. n * p \in Nat /\ n * q \in Nat OBVIOUS
<1>1. ~(q < p) BY <1>0, Multiples
<1>2. ~(p < q) BY <1>0, Multiples
<1>3. q = p BY <1>1, <1>2
<1>4. n * q = n * p BY <1>3
<1> QED BY <1>0, <1>3, <1>4

LEMMA DivisionIs ==
    ASSUME NEW n \in Nat \ {0}, NEW q \in Nat, NEW r \in 0 .. n - 1
    PROVE  (n * q + r) \div n = q /\ (n * q + r) % n = r
<1> DEFINE a == n * q + r
<1>1. a \in Nat OBVIOUS
<1>2. a = n * q + r OBVIOUS
<1> HIDE DEF a
<1>3. /\ a \div n \in Nat /\ a % n \in 0 .. n - 1
      /\ a = n * (a \div n) + (a % n) BY <1>1, DivMod
<1>4. q = a \div n /\ r = a % n BY <1>2, <1>3, DivisionIsUnique
<1> QED BY <1>4 DEF a

LEMMA Places ==
    ASSUME NEW c \in Counter
    PROVE  /\ Index(c) \in 0 .. ChunkCount - 1 /\ Offset(c) \in 0 .. ChunkSize - 1
           /\ c % MaxSize = ChunkSize * Index(c) + Offset(c)
<1> DEFINE q == c \div ChunkSize
<1> DEFINE o == c % ChunkSize
<1> DEFINE k == q \div ChunkCount
<1> DEFINE i == q % ChunkCount
<1>0. /\ ChunkSize \in Nat \ {0} /\ ChunkCount \in Nat \ {0} /\ MaxSize \in Nat \ {0}
      /\ Word \in Nat
  BY SizeAssumption, MaxSizeType
<1>1. c \in Nat BY <1>0 DEF Counter
<1>2. q \in Nat /\ o \in 0 .. ChunkSize - 1 /\ c = ChunkSize * q + o BY <1>0, <1>1, DivMod
<1>3. Offset(c) = o /\ Index(c) = i BY DEF Offset, Index
<1> HIDE DEF q, o
<1>4. k \in Nat /\ i \in 0 .. ChunkCount - 1 /\ q = ChunkCount * k + i
  BY <1>0, <1>2, DivMod
<1> HIDE DEF k, i
<1>5. ChunkSize * q = ChunkSize * (ChunkCount * k) + ChunkSize * i BY <1>0, <1>4
<1>6. ChunkSize * (ChunkCount * k) = MaxSize * k BY <1>0, <1>4 DEF MaxSize
<1>7. ChunkSize * i + ChunkSize <= ChunkSize * ChunkCount BY <1>0, <1>4, Multiples
<1>8. ChunkSize * i \in Nat /\ MaxSize * k \in Nat BY <1>0, <1>4
<1> DEFINE s == ChunkSize * i + o
<1>9. s \in 0 .. MaxSize - 1 BY <1>0, <1>2, <1>7, <1>8 DEF MaxSize
<1>10. c = MaxSize * k + s
  <2> DEFINE a == ChunkSize * q
  <2> DEFINE b == MaxSize * k
  <2> DEFINE d == ChunkSize * i
  <2>1. c = a + o /\ a = b + d /\ b \in Nat /\ d \in Nat BY <1>2, <1>5, <1>6, <1>8
  <2>2. o \in Nat BY <1>0, <1>2
  <2> HIDE DEF a, b, d
  <2>3. c = b + (d + o) BY <2>1, <2>2
  <2> QED BY <2>3 DEF b, d
<1> HIDE DEF s
<1>11. c % MaxSize = s BY <1>0, <1>4, <1>9, <1>10, DivisionIs
<1> QED BY <1>2, <1>3, <1>4, <1>11 DEF s

(* Where a step forward leads in the ring. *)
LEMMA StepInRing ==
    ASSUME NEW c \in Counter, NEW x \in 0 .. MaxSize
    PROVE  /\ c % MaxSize \in 0 .. MaxSize - 1
           /\ (c % MaxSize) + x < MaxSize => Plus(c, x) % MaxSize = (c % MaxSize) + x
           /\ (c % MaxSize) + x >= MaxSize /\ x < MaxSize
                 => Plus(c, x) % MaxSize = (c % MaxSize) + x - MaxSize
<1> DEFINE M == MaxSize
<1> DEFINE k == c \div M
<1> DEFINE s == c % M
<1> DEFINE w == Word \div M
<1> DEFINE p == Plus(c, x)
<1>0. M \in Nat \ {0} /\ Word \in Nat /\ M < Word BY MaxSizeType
<1>1. c \in Nat /\ c < Word BY <1>0 DEF Counter
<1>2. k \in Nat /\ s \in 0 .. M - 1 /\ c = M * k + s BY <1>0, <1>1, DivMod
<1>3. w \in Nat /\ Word = M * w
  <2>1. Word % M = 0 BY SizeAssumption
  <2>2. w \in Nat /\ Word = M * w + (Word % M) BY <1>0, DivMod
  <2>3. M * w \in Int BY <1>0, <2>2
  <2> QED BY <2>1, <2>2, <2>3
<1>4. /\ p \in Counter
      /\ c + x < Word => p = c + x
      /\ c + x >= Word => p = c + x - Word BY PlusIs
<1>5. x \in 0 .. M OBVIOUS
<1> SUFFICES /\ s \in 0 .. M - 1
             /\ s + x < M => p % M = s + x
             /\ s + x >= M /\ x < M => p % M = s + x - M
  OBVIOUS
<1> HIDE DEF M, k, s, w, p
<1>6. M * k \in Nat /\ M * w \in Nat /\ M * (k + 1) = M * k + M BY <1>0, <1>2, <1>3
<1>7. k < w
  <2>1. CASE w < k BY <2>1, <1>0, <1>1, <1>2, <1>3, <1>6, Multiples
  <2>2. CASE w = k BY <2>2, <1>0, <1>1, <1>2, <1>3, <1>6
  <2> QED BY <2>1, <2>2, <1>2, <1>3
<1>8. M * k + M <= Word BY <1>0, <1>2, <1>3, <1>7, Multiples
<1>9. ASSUME s + x < M PROVE p % M = s + x
  <2>1. s + x \in 0 .. M - 1 BY <1>0, <1>2, <1>5, <1>9
  <2>2. p = M * k + (s + x) BY <1>0, <1>2, <1>4, <1>5, <1>6, <1>8, <1>9
  <2> DEFINE r == s + x
  <2> HIDE DEF r
  <2>3. p % M = r BY <1>0, <1>2, <2>1, <2>2, DivisionIs DEF r
  <2> QED BY <2>3 DEF r
<1>10. ASSUME s + x >= M, x < M PROVE p % M = s + x - M
  <2> DEFINE r == s + x - M
  <2>1. r \in 0 .. M - 1 BY <1>0, <1>2, <1>5, <1>10
  <2>2. CASE k + 1 = w
    <3>1. Word = M * k + M BY <1>3, <1>6, <2>2
    <3>2. p = r BY <1>0, <1>2, <1>4, <1>5, <1>6, <1>10, <3>1
    <3> QED BY <1>0, <2>1, <3>2, ModSmall
  <2>3. CASE k + 1 < w
    <3>1. k + 1 \in Nat BY <1>2
    <3>2. M * (k + 1) + M <= M * w BY <1>0, <1>3, <2>3, <3>1, Multiples
    <3>3. p = M * (k + 1) + r BY <1>0, <1>2, <1>3, <1>4, <1>5, <1>6, <1>10, <3>2
    <3> HIDE DEF r
    <3>4. p % M = r BY <1>0, <2>1, <3>1, <3>3, DivisionIs
    <3> QED BY <3>4 DEF r
  <2> QED BY <1>2, <1>3, <1>7, <2>2, <2>3
<1> QED BY <1>2, <1>9, <1>10

(* Within a chunk the counter and the offset move together. *)
LEMMA SameChunk ==
    ASSUME NEW c \in Counter, NEW x \in Nat, Offset(c) + x < ChunkSize
    PROVE  Index(Plus(c, x)) = Index(c) /\ Offset(Plus(c, x)) = Offset(c) + x
<1> DEFINE p == Plus(c, x)
<1> DEFINE i == Index(c)
<1> DEFINE o == Offset(c)
<1>0. /\ ChunkSize \in Nat \ {0} /\ ChunkCount \in Nat \ {0} /\ MaxSize \in Nat \ {0}
      /\ Word \in Nat
  BY SizeAssumption, MaxSizeType
<1>1. i \in 0 .. ChunkCount - 1 /\ o \in 0 .. ChunkSize - 1 /\ c % MaxSize = ChunkSize * i + o
  BY Places
<1>2. o + x < ChunkSize OBVIOUS
<1>3. ChunkSize * i + ChunkSize <= MaxSize BY <1>0, <1>1, Multiples DEF MaxSize
<1>4. ChunkSize * i \in Nat BY <1>0, <1>1
<1>5. x \in 0 .. MaxSize BY <1>0, <1>1, <1>2, <1>3, <1>4
<1>6. p \in Counter BY <1>5, PlusIs
<1>7. (c % MaxSize) + x < MaxSize => p % MaxSize = (c % MaxSize) + x BY <1>5, StepInRing
<1>8. /\ Index(p) \in 0 .. ChunkCount - 1 /\ Offset(p) \in 0 .. ChunkSize - 1
      /\ p % MaxSize = ChunkSize * Index(p) + Offset(p)
  BY <1>6, Places
<1> HIDE DEF i, o, p
<1>9. (ChunkSize * i + o) + x < MaxSize /\ (ChunkSize * i + o) + x = ChunkSize * i + (o + x)
  BY <1>0, <1>1, <1>2, <1>3, <1>4
<1>10. ChunkSize * Index(p) + Offset(p) = ChunkSize * i + (o + x)
  BY <1>1, <1>7, <1>8, <1>9
<1>11. o + x \in 0 .. ChunkSize - 1 BY <1>0, <1>1, <1>2
<1>12. i \in Nat /\ Index(p) \in Nat BY <1>0, <1>1, <1>8
<1>13. Index(p) = i /\ Offset(p) = o + x
  BY <1>0, <1>8, <1>10, <1>11, <1>12, DivisionIsUnique
<1> QED BY <1>13 DEF i, o, p

(* Two places less than the size of the ring apart are not the same.       *)
LEMMA Apart ==
    ASSUME NEW c \in Counter, NEW x \in 0 .. MaxSize - 1, NEW y \in 0 .. MaxSize - 1, x # y,
           Index(Plus(c, x)) = Index(Plus(c, y))
    PROVE  Offset(Plus(c, x)) # Offset(Plus(c, y))
<1> SUFFICES ASSUME Offset(Plus(c, x)) = Offset(Plus(c, y)) PROVE FALSE OBVIOUS
<1>0. MaxSize \in Nat /\ x \in 0 .. MaxSize /\ y \in 0 .. MaxSize BY MaxSizeType
<1>1. Plus(c, x) \in Counter /\ Plus(c, y) \in Counter BY <1>0, PlusIs
<1>2. /\ Plus(c, x) % MaxSize = ChunkSize * Index(Plus(c, x)) + Offset(Plus(c, x))
      /\ Plus(c, y) % MaxSize = ChunkSize * Index(Plus(c, y)) + Offset(Plus(c, y))
  BY <1>1, Places
<1>3. Plus(c, x) % MaxSize = Plus(c, y) % MaxSize BY <1>2
<1> DEFINE s == c % MaxSize
<1> DEFINE u == Plus(c, x) % MaxSize
<1> DEFINE v == Plus(c, y) % MaxSize
<1>4. u = v BY <1>3
<1>5. /\ s \in 0 .. MaxSize - 1
      /\ s + x < MaxSize => u = s + x
      /\ s + x >= MaxSize /\ x < MaxSize => u = s + x - MaxSize BY <1>0, StepInRing
<1>6. /\ s + y < MaxSize => v = s + y
      /\ s + y >= MaxSize /\ y < MaxSize => v = s + y - MaxSize BY <1>0, StepInRing
<1>7. x # y OBVIOUS
<1> HIDE DEF s, u, v
<1> QED BY <1>0, <1>4, <1>5, <1>6, <1>7

-----------------------------------------------------------------------------
(* What one memcpy of put does to the ring.                                *)
LEMMA AccessType ==
    ASSUME FifoTypeOK
    PROVE  /\ access.op \in {"none", "put", "get"} /\ access.start \in Counter
           /\ access.left \in Nat /\ access.bytes \in Seq(Symbol)
           /\ Len(access.bytes) \in Nat
  BY DEF FifoTypeOK

LEMMA PieceType ==
    ASSUME FifoTypeOK, NEW c \in Counter, access.left > 0
    PROVE  /\ Piece(c) \in Nat /\ 0 < Piece(c) /\ Piece(c) <= access.left
           /\ Offset(c) + Piece(c) <= ChunkSize
<1>1. ChunkSize \in Nat BY SizeAssumption
<1>2. Offset(c) \in 0 .. ChunkSize - 1 BY Places
<1>3. access.left \in Nat BY AccessType
<1> QED BY <1>1, <1>2, <1>3 DEF Piece, Least

(* The chunk as one memcpy of put leaves it. *)
Written ==
    LET i == Index(putSize)
        o == Offset(putSize)
        k == Len(access.bytes) - access.left
        f == IF table[i] = Null THEN NewChunk ELSE table[i]
    IN  [x \in 0 .. ChunkSize - 1 |->
            IF x \in o .. o + Piece(putSize) - 1 THEN access.bytes[k + 1 + x - o] ELSE f[x]]

LEMMA WrittenType ==
    ASSUME FifoTypeOK, access.left > 0, access.left <= Len(access.bytes)
    PROVE  Written \in Chunk
<1> DEFINE i == Index(putSize)
<1> DEFINE o == Offset(putSize)
<1> DEFINE n == Piece(putSize)
<1> DEFINE k == Len(access.bytes) - access.left
<1> DEFINE f == IF table[i] = Null THEN NewChunk ELSE table[i]
<1>1. /\ putSize \in Counter
      /\ table \in [0 .. ChunkCount - 1 -> Chunk \union {Null}]
  BY DEF FifoTypeOK
<1>2. i \in 0 .. ChunkCount - 1 /\ o \in 0 .. ChunkSize - 1 BY <1>1, Places
<1>3. n \in Nat /\ 0 < n /\ n <= access.left BY <1>1, PieceType
<1>4. ChunkSize \in Nat BY SizeAssumption
<1>5. ASSUME NEW x \in 0 .. ChunkSize - 1 PROVE f[x] \in Symbol
  BY <1>1, <1>2 DEF Chunk, NewChunk, Symbol
<1>6. ASSUME NEW x \in 0 .. ChunkSize - 1, x \in o .. o + n - 1
      PROVE  access.bytes[k + 1 + x - o] \in Symbol
  <2> DEFINE l == Len(access.bytes)
  <2> DEFINE b == access.left
  <2>1. l \in Nat /\ b \in Nat /\ b <= l /\ k = l - b /\ n <= b BY <1>3, AccessType
  <2>2. x - o \in 0 .. n - 1 BY <1>2, <1>3, <1>4, <1>6
  <2>3. o \in Nat BY <1>2, <1>4
  <2> HIDE DEF l, b, k, o, n
  <2>4. k + 1 + x - o \in 1 .. l BY <1>3, <2>1, <2>2, <2>3
  <2> QED BY <2>4, AccessType DEF l
<1>7. Written = [x \in 0 .. ChunkSize - 1 |->
          IF x \in o .. o + n - 1 THEN access.bytes[k + 1 + x - o] ELSE f[x]]
  BY DEF Written
<1> HIDE DEF f, o, n, k
<1> QED BY <1>5, <1>6, <1>7 DEF Chunk

LEMMA PieceWritten ==
    ASSUME FifoTypeOK, PutPiece, Size + Piece(putSize) <= MaxSize,
           access.left <= Len(access.bytes),
           NEW d \in 0 .. MaxSize - 1
    PROVE  /\ d \in Size .. Size + Piece(putSize) - 1
                => /\ There(d)'
                   /\ ByteAt(Pos(d))' = access.bytes[Stored + 1 + d - Size]
           /\ d \notin Size .. Size + Piece(putSize) - 1 /\ There(d)
                => There(d)' /\ ByteAt(Pos(d))' = ByteAt(Pos(d))
<1> DEFINE i == Index(putSize)
<1> DEFINE o == Offset(putSize)
<1> DEFINE n == Piece(putSize)
<1> DEFINE k == Len(access.bytes) - access.left
<1> DEFINE f == IF table[i] = Null THEN NewChunk ELSE table[i]
<1> DEFINE g == [x \in 0 .. ChunkSize - 1 |->
                    IF x \in o .. o + n - 1 THEN access.bytes[k + 1 + x - o] ELSE f[x]]
<1> DEFINE D == Size
<1>1. table' = [table EXCEPT ![i] = g] /\ getSize' = getSize /\ access.left > 0
  BY DEF PutPiece
<1>2. /\ putSize \in Counter /\ getSize \in Counter
      /\ table \in [0 .. ChunkCount - 1 -> Chunk \union {Null}]
  BY DEF FifoTypeOK
<1>3. MaxSize \in Nat /\ ChunkSize \in Nat \ {0} BY MaxSizeType, SizeAssumption
<1>4. i \in 0 .. ChunkCount - 1 /\ o \in 0 .. ChunkSize - 1 BY <1>2, Places
<1>5. n \in Nat /\ 0 < n /\ o + n <= ChunkSize /\ n <= access.left
  BY <1>1, <1>2, PieceType
<1>6. D \in Nat /\ D + n <= MaxSize
  <2>1. D \in Counter BY <1>2, MinusIs DEF Size
  <2> QED BY <2>1, MaxSizeType DEF Counter
<1>7. Pos(D) = putSize
  BY <1>2, <1>3, <1>5, <1>6, PlusOfMinus DEF Pos, Size
<1>8. Pos(d)' = Pos(d) /\ Pos(d) \in Counter
  BY <1>1, <1>2, <1>3, PlusIs DEF Pos
<1>9. k \in Nat /\ Stored = k BY AccessType DEF Stored
<1>10. g \in Chunk /\ g # Null
  <2>1. g \in Chunk BY <1>1, WrittenType DEF Written
  <2> QED BY <2>1, SizeAssumption DEF Chunk, Symbol
<1>11. \A x \in 0 .. ChunkSize - 1 :
          /\ x \in o .. o + n - 1 => g[x] = access.bytes[k + 1 + x - o]
          /\ x \notin o .. o + n - 1 => g[x] = f[x]
  OBVIOUS
<1> DEFINE I == Index(Pos(d))
<1> DEFINE O == Offset(Pos(d))
<1>12. I \in 0 .. ChunkCount - 1 /\ O \in 0 .. ChunkSize - 1 BY <1>8, Places
<1>13. ByteAt(Pos(d))' = table'[I][O] /\ ByteAt(Pos(d)) = table[I][O]
       /\ (There(d)' <=> table'[I] # Null) /\ (There(d) <=> table[I] # Null)
  BY <1>8 DEF ByteAt, There
<1>14. (table[i] # Null => f = table[i]) OBVIOUS
<1>15. \A y \in 0 .. n - 1 : Pos(D + y) = Plus(putSize, y)
                             /\ Index(Plus(putSize, y)) = i /\ Offset(Plus(putSize, y)) = o + y
  <2> TAKE y \in 0 .. n - 1
  <2>1. y \in Nat /\ D + y <= MaxSize BY <1>3, <1>5, <1>6
  <2>2. Pos(D + y) = Plus(Pos(D), y) BY <2>1, <1>2, <1>6, PlusPlus DEF Pos
  <2>3. o + y < ChunkSize BY <1>3, <1>4, <1>5
  <2>4. Index(Plus(putSize, y)) = i /\ Offset(Plus(putSize, y)) = o + y
    BY <1>2, <2>1, <2>3, SameChunk
  <2> QED BY <2>2, <2>4, <1>7
<1> SUFFICES /\ d \in D .. D + n - 1
                => table'[I] # Null /\ table'[I][O] = access.bytes[k + 1 + d - D]
             /\ d \notin D .. D + n - 1 /\ table[I] # Null
                => table'[I] # Null /\ table'[I][O] = table[I][O]
  BY <1>9, <1>13
<1>16. ASSUME d \in D .. D + n - 1
       PROVE  table'[I] # Null /\ table'[I][O] = access.bytes[k + 1 + d - D]
  <2>1. d - D \in 0 .. n - 1 /\ D + (d - D) = d BY <1>3, <1>5, <1>6, <1>16
  <2>2. I = i /\ O = o + (d - D) BY <2>1, <1>15
  <2>3. table'[I] = g BY <1>1, <1>2, <1>4, <2>2
  <2>4. O \in o .. o + n - 1 /\ k + 1 + O - o = k + 1 + d - D
    BY <2>1, <2>2, <1>4, <1>5, <1>6, <1>9
  <2> HIDE DEF g, I, O, o, n, k, D
  <2> QED BY <2>3, <2>4, <1>10, <1>11, <1>12
<1>17. ASSUME d \notin D .. D + n - 1, table[I] # Null
       PROVE  table'[I] # Null /\ table'[I][O] = table[I][O]
  <2>1. CASE I # i
    <3> HIDE DEF g, I, i, O
    <3> QED BY <1>1, <1>2, <1>4, <1>12, <1>17, <2>1
  <2>2. CASE I = i
    <3>1. O \notin o .. o + n - 1
      <4> SUFFICES ASSUME O \in o .. o + n - 1 PROVE FALSE OBVIOUS
      <4> DEFINE y == O - o
      <4>1. y \in 0 .. n - 1 /\ O = o + y BY <1>4, <1>5, <1>12
      <4>2. Index(Pos(D + y)) = I /\ Offset(Pos(D + y)) = O BY <4>1, <1>15, <2>2
      <4>3. D + y \in 0 .. MaxSize - 1 /\ D + y # d
        BY <4>1, <1>3, <1>5, <1>6, <1>17
      <4> HIDE DEF y, D
      <4> QED BY <4>2, <4>3, <1>2, Apart DEF Pos
    <3>2. table'[I] = g /\ f = table[I] BY <1>1, <1>2, <1>4, <1>14, <1>17, <2>2
    <3>3. g[O] = f[O] BY <3>1, <1>11, <1>12
    <3> HIDE DEF g, f, I, O
    <3> QED BY <3>2, <3>3, <1>10
  <2> QED BY <2>1, <2>2
<1> QED BY <1>16, <1>17

-----------------------------------------------------------------------------
(* The invariant.                                                          *)
LEMMA SizeType == ASSUME FifoTypeOK PROVE Size \in Nat /\ Size \in Counter
<1>1. putSize \in Counter /\ getSize \in Counter BY DEF FifoTypeOK
<1>2. Size \in Counter BY <1>1, MinusIs DEF Size
<1> QED BY <1>2, MaxSizeType DEF Counter

(* space() is what size() leaves. *)
LEMMA SpaceIs == ASSUME FifoTypeOK, Size <= MaxSize PROVE Space = MaxSize - Size
<1> DEFINE m == Minus(MaxSize, putSize)
<1>0. MaxSize \in Nat /\ Word \in Nat /\ MaxSize < Word BY MaxSizeType
<1>1. putSize \in Counter /\ getSize \in Counter BY DEF FifoTypeOK
<1>2. MaxSize \in Counter BY <1>0 DEF Counter
<1>3. /\ m \in Counter
      /\ MaxSize >= putSize => m = MaxSize - putSize
      /\ MaxSize < putSize => m = MaxSize + Word - putSize BY <1>1, <1>2, MinusIs
<1>4. Space = Plus(m, getSize) BY DEF Space
<1> HIDE DEF m
<1>5. /\ m + getSize < Word => Space = m + getSize
      /\ m + getSize >= Word => Space = m + getSize - Word BY <1>1, <1>3, <1>4, PlusAny
<1>6. /\ putSize >= getSize => Size = putSize - getSize
      /\ putSize < getSize => Size = putSize + Word - getSize BY <1>1, MinusIs DEF Size
<1>7. Size <= MaxSize OBVIOUS
<1> QED BY <1>0, <1>1, <1>3, <1>5, <1>6, <1>7 DEF Counter

LEMMA LeastIs ==
    ASSUME NEW m \in Nat, NEW n \in Nat
    PROVE  Least(m, n) \in Nat /\ Least(m, n) <= m /\ Least(m, n) <= n
  BY DEF Least

LEMMA FifoInitOK == ASSUME FifoInit PROVE FifoInv
<1>0. Word \in Nat /\ MaxSize < Word /\ MaxSize \in Nat BY MaxSizeType
<1>1. 0 \in Counter BY <1>0 DEF Counter
<1>2. access = [op |-> "none", start |-> 0, left |-> 0, bytes |-> <<>>] /\ putSize = 0 /\ getSize = 0
  BY DEF FifoInit, NoCall
<1>3. FifoTypeOK
  <2>1. table \in [0 .. ChunkCount - 1 -> Chunk \union {Null}] BY DEF FifoInit
  <2> QED BY <1>1, <1>2, <2>1 DEF FifoTypeOK
<1>4. Size = 0 BY <1>1, <1>2, MinusIs DEF Size
<1>5. Allocated BY <1>0, <1>4 DEF Allocated
<1> QED BY <1>2, <1>3, <1>5 DEF FifoInv

(* A put that begins. *)
LEMMA BeginPutKeeps == ASSUME FifoInv, BeginPut PROVE FifoInv'
<1>0. MaxSize \in Nat BY MaxSizeType
<1>1. FifoTypeOK /\ Allocated BY DEF FifoInv
<1>2. table' = table /\ putSize' = putSize /\ getSize' = getSize BY DEF BeginPut
<1>3. PICK s \in Inputs :
        access' = [op |-> "put", start |-> putSize, left |-> Least(Len(s), Space),
                   bytes |-> SubSeq(s, 1, Least(Len(s), Space))]
  BY DEF BeginPut
<1>4. Size \in Nat /\ Size <= MaxSize BY <1>1, SizeType DEF Allocated
<1>5. Space = MaxSize - Size BY <1>1, <1>4, SpaceIs
<1>6. s \in Seq(Byte) /\ Len(s) \in Nat BY SizeAssumption
<1> DEFINE n == Least(Len(s), Space)
<1> DEFINE b == SubSeq(s, 1, n)
<1>7. n \in Nat /\ n <= Len(s) /\ n <= MaxSize - Size
  <2>1. Space \in Nat BY <1>0, <1>4, <1>5
  <2>2. n \in Nat /\ n <= Len(s) /\ n <= Space BY <1>6, <2>1, LeastIs
  <2> QED BY <1>5, <2>2
<1> HIDE DEF n
<1>8. b \in Seq(Byte) /\ Len(b) = n BY <1>6, <1>7
<1>9. b \in Seq(Symbol) BY <1>8 DEF Symbol
<1> HIDE DEF b
<1>10. access' = [op |-> "put", start |-> putSize, left |-> n, bytes |-> b] BY <1>3 DEF n, b
<1>11. /\ access'.op = "put" /\ access'.start = putSize /\ access'.left = n
       /\ access'.bytes = b BY <1>10
<1>12. putSize \in Counter /\ getSize \in Counter BY <1>1 DEF FifoTypeOK
<1>13. FifoTypeOK'
  BY <1>1, <1>2, <1>7, <1>9, <1>10, <1>12 DEF FifoTypeOK
<1>14. Allocated' BY <1>1, <1>2 DEF Allocated, There, Pos, Size
<1>15. Found' = Size BY <1>2, <1>11 DEF Found, Size
<1>16. Stored' = 0 BY <1>7, <1>8, <1>11 DEF Stored
<1>17. putSize = Pos(Size) BY <1>4, <1>12, PlusOfMinus DEF Pos, Size
<1>18. PutGoesOn'
  <2>1. (access.left <= Len(access.bytes))' BY <1>7, <1>8, <1>11
  <2>2. (Found + Len(access.bytes) <= MaxSize)' BY <1>0, <1>4, <1>7, <1>8, <1>11, <1>15
  <2>3. (putSize = Pos(Found + Stored))'
    BY <1>2, <1>4, <1>15, <1>16, <1>17 DEF Pos
  <2>4. (\A d \in 1 .. Stored : ByteAt(Pos(Found + d - 1)) = access.bytes[d])'
    BY <1>16
  <2>5. (\E r \in Inputs : access.bytes = SubSeq(r, 1, Least(Len(r), MaxSize - Found)))'
    BY <1>3, <1>5, <1>11, <1>15 DEF n, b
  <2> QED BY <2>1, <2>2, <2>3, <2>4, <2>5 DEF PutGoesOn
<1> QED BY <1>11, <1>13, <1>14, <1>18 DEF FifoInv

(* What the next memcpy of put may rely on. *)
LEMMA PutHasRoom ==
    ASSUME FifoInv, access.op = "put"
    PROVE  /\ PutGoesOn /\ Found \in Nat /\ Stored \in Nat
           /\ Stored + access.left = Len(access.bytes)
           /\ Size = Found + Stored
           /\ Size + access.left <= MaxSize
<1>0. MaxSize \in Nat /\ Word \in Nat BY MaxSizeType
<1>1. FifoTypeOK /\ PutGoesOn BY DEF FifoInv
<1>2. putSize \in Counter /\ getSize \in Counter BY <1>1 DEF FifoTypeOK
<1>3. Found \in Nat
  <2>1. access.start \in Counter BY <1>1, AccessType
  <2>2. Found \in Counter BY <1>2, <2>1, MinusIs DEF Found
  <2> QED BY <1>0, <2>2 DEF Counter
<1>4. /\ access.left \in Nat /\ Len(access.bytes) \in Nat /\ access.left <= Len(access.bytes)
      /\ Found + Len(access.bytes) <= MaxSize /\ putSize = Pos(Found + Stored)
  BY <1>1, AccessType DEF PutGoesOn
<1>5. Stored \in Nat /\ Stored + access.left = Len(access.bytes) BY <1>4 DEF Stored
<1>6. Found + Stored \in 0 .. MaxSize BY <1>0, <1>3, <1>4, <1>5
<1>7. Size = Found + Stored BY <1>2, <1>4, <1>6, MinusOfPlus DEF Size, Pos
<1> QED BY <1>0, <1>1, <1>3, <1>4, <1>5, <1>7

LEMMA PutPieceMoves ==
    ASSUME FifoInv, PutPiece
    PROVE  /\ access.op = "put" /\ access.left > 0
           /\ getSize' = getSize /\ putSize' = Plus(putSize, Piece(putSize))
           /\ access' = [access EXCEPT !.left = @ - Piece(putSize)]
           /\ Size' = Size + Piece(putSize) /\ Size' <= MaxSize
           /\ Found' = Found /\ Stored' = Stored + Piece(putSize)
           /\ putSize' = Pos(Found + Stored)'
<1> DEFINE n == Piece(putSize)
<1>0. MaxSize \in Nat /\ Word \in Nat BY MaxSizeType
<1>1. FifoTypeOK BY DEF FifoInv
<1>2. putSize \in Counter /\ getSize \in Counter BY <1>1 DEF FifoTypeOK
<1>3. /\ access.op = "put" /\ access.left > 0
      /\ getSize' = getSize /\ putSize' = Plus(putSize, n)
      /\ access' = [access EXCEPT !.left = @ - n]
  BY DEF PutPiece
<1>4. n \in Nat /\ n <= access.left BY <1>1, <1>2, <1>3, PieceType
<1>5. /\ PutGoesOn /\ Found \in Nat /\ Stored \in Nat
      /\ Stored + access.left = Len(access.bytes)
      /\ Size = Found + Stored /\ Size + access.left <= MaxSize BY <1>3, PutHasRoom
<1>6. access.left \in Nat /\ Len(access.bytes) \in Nat BY <1>1, AccessType
<1>7. /\ access'.left = access.left - n /\ access'.bytes = access.bytes
      /\ access'.start = access.start
  BY <1>1, <1>3 DEF FifoTypeOK
<1>8. Found' = Found BY <1>3, <1>7 DEF Found
<1>9. Stored' = Stored + n
  <2>1. Stored' = Len(access.bytes) - (access.left - n) BY <1>7 DEF Stored
  <2> QED BY <2>1, <1>4, <1>5, <1>6
<1>10. Size \in Nat /\ Size + n <= MaxSize BY <1>0, <1>4, <1>5, <1>6
<1>11. putSize = Pos(Size) BY <1>5 DEF PutGoesOn
<1>12. putSize' = Plus(getSize, Size + n)
  BY <1>2, <1>3, <1>4, <1>10, <1>11, PlusPlus DEF Pos
<1>13. Size + n \in 0 .. MaxSize BY <1>0, <1>4, <1>10
<1>14. Size' = Size + n
  <2>1. Size' = Minus(putSize', getSize') BY DEF Size
  <2>2. Minus(Plus(getSize, Size + n), getSize) = Size + n BY <1>2, <1>13, MinusOfPlus
  <2> QED BY <1>3, <1>12, <2>1, <2>2
<1>15. putSize' = Pos(Found + Stored)'
  <2>1. Found' + Stored' = Size + n BY <1>4, <1>5, <1>8, <1>9
  <2> QED BY <1>3, <1>12, <2>1 DEF Pos
<1> QED BY <1>3, <1>8, <1>9, <1>10, <1>14, <1>15

(* The bytes that are held stay what they are, and the piece joins them.   *)
LEMMA PutPieceStores ==
    ASSUME FifoInv, PutPiece, NEW d \in Nat
    PROVE  /\ d < Size => There(d)' /\ ByteAt(Pos(d))' = ByteAt(Pos(d))
           /\ d \in Size .. Size + Piece(putSize) - 1
                 => There(d)' /\ ByteAt(Pos(d))' = access.bytes[Stored + 1 + d - Size]
<1> DEFINE n == Piece(putSize)
<1>0. MaxSize \in Nat BY MaxSizeType
<1>1. FifoTypeOK /\ Allocated /\ Size \in Nat BY SizeType DEF FifoInv
<1>2. putSize \in Counter BY <1>1 DEF FifoTypeOK
<1>3. access.op = "put" /\ access.left > 0 BY DEF PutPiece
<1>4. n \in Nat /\ n <= access.left BY <1>1, <1>2, <1>3, PieceType
<1>5. Size' = Size + n /\ Size' <= MaxSize BY PutPieceMoves
<1>6. access.left <= Len(access.bytes) BY <1>3, PutHasRoom DEF PutGoesOn
<1>7. Size + n <= MaxSize BY <1>5
<1>8. ASSUME d < Size PROVE There(d)' /\ ByteAt(Pos(d))' = ByteAt(Pos(d))
  <2>1. d \in 0 .. MaxSize - 1 /\ d \notin Size .. Size + n - 1
    BY <1>0, <1>1, <1>4, <1>7, <1>8
  <2>2. There(d) BY <1>1, <1>8 DEF Allocated
  <2> QED BY <1>1, <1>6, <1>7, <2>1, <2>2, PieceWritten
<1>9. ASSUME d \in Size .. Size + n - 1
      PROVE  There(d)' /\ ByteAt(Pos(d))' = access.bytes[Stored + 1 + d - Size]
  <2>1. d \in 0 .. MaxSize - 1 BY <1>0, <1>1, <1>4, <1>7, <1>9
  <2> QED BY <1>1, <1>6, <1>7, <1>9, <2>1, PieceWritten
<1> QED BY <1>8, <1>9

LEMMA PutPieceTable ==
    ASSUME FifoInv, PutPiece
    PROVE  (table \in [0 .. ChunkCount - 1 -> Chunk \union {Null}])'
<1>1. FifoTypeOK BY DEF FifoInv
<1>2. access.op = "put" /\ access.left > 0 /\ table' = [table EXCEPT ![Index(putSize)] = Written]
  BY DEF PutPiece, Written
<1>3. access.left <= Len(access.bytes) BY <1>2, PutHasRoom DEF PutGoesOn
<1>4. Written \in Chunk BY <1>1, <1>2, <1>3, WrittenType
<1> QED BY <1>1, <1>2, <1>4 DEF FifoTypeOK

(* A put that goes on. *)
LEMMA PutPieceKeeps == ASSUME FifoInv, PutPiece PROVE FifoInv'
<1> DEFINE n == Piece(putSize)
<1>0. MaxSize \in Nat BY MaxSizeType
<1>1. FifoTypeOK /\ Allocated /\ Size \in Nat BY SizeType DEF FifoInv
<1>2. putSize \in Counter /\ getSize \in Counter BY <1>1 DEF FifoTypeOK
<1>3. /\ access.op = "put" /\ access.left > 0
      /\ getSize' = getSize /\ putSize' = Plus(putSize, n)
      /\ access' = [access EXCEPT !.left = @ - n]
      /\ Size' = Size + n /\ Size' <= MaxSize
      /\ Found' = Found /\ Stored' = Stored + n
      /\ putSize' = Pos(Found + Stored)'
  BY PutPieceMoves
<1>4. n \in Nat /\ n <= access.left BY <1>1, <1>2, <1>3, PieceType
<1>5. /\ PutGoesOn /\ Found \in Nat /\ Stored \in Nat
      /\ Stored + access.left = Len(access.bytes)
      /\ Size = Found + Stored /\ Size + access.left <= MaxSize BY <1>3, PutHasRoom
<1>6. access.left \in Nat /\ Len(access.bytes) \in Nat BY <1>1, AccessType
<1>7. /\ access'.left = access.left - n /\ access'.bytes = access.bytes
      /\ access'.start = access.start /\ access'.op = "put"
  BY <1>1, <1>3 DEF FifoTypeOK
<1> HIDE DEF n
<1>8. FifoTypeOK'
  <2>1. n \in 0 .. MaxSize BY <1>0, <1>1, <1>3, <1>4
  <2>2. putSize' \in Counter BY <1>2, <1>3, <2>1, PlusIs
  <2>3. access.left - n \in Nat BY <1>4, <1>6
  <2>4. access' \in [op : {"none", "put", "get"}, start : Counter, left : Nat, bytes : Seq(Symbol)]
    BY <1>1, <1>3, <2>3 DEF FifoTypeOK
  <2>5. (table \in [0 .. ChunkCount - 1 -> Chunk \union {Null}])' BY PutPieceTable
  <2> QED BY <1>2, <1>3, <2>2, <2>4, <2>5 DEF FifoTypeOK
<1>9. Allocated'
  <2>1. ASSUME NEW d \in 0 .. Size' - 1 PROVE There(d)'
    <3>1. d \in Nat /\ (d < Size \/ d \in Size .. Size + n - 1) BY <1>1, <1>3, <1>4
    <3> QED BY <3>1, PutPieceStores DEF n
  <2> QED BY <1>3, <2>1 DEF Allocated
<1>10. PutGoesOn'
  <2>1. (access.left <= Len(access.bytes))' BY <1>4, <1>5, <1>6, <1>7
  <2>2. (Found + Len(access.bytes) <= MaxSize)' BY <1>3, <1>5, <1>7 DEF PutGoesOn
  <2>3. ASSUME NEW d \in 1 .. Stored'
        PROVE  (ByteAt(Pos(Found + d - 1)) = access.bytes[d])'
    <3>0. Found + d - 1 \in Nat BY <1>5
    <3>1. PICK e \in Nat : e = Found + d - 1 BY <3>0
    <3>2. ByteAt(Pos(e))' = access.bytes[d]
      <4>1. CASE d <= Stored
        <5>1. e < Size BY <1>5, <3>1, <4>1
        <5>a. d \in 1 .. Stored BY <1>5, <4>1
        <5>b. ByteAt(Pos(Found + d - 1)) = access.bytes[d] BY <1>5, <5>a DEF PutGoesOn
        <5>2. ByteAt(Pos(e)) = access.bytes[d] BY <3>1, <5>b
        <5> QED BY <3>1, <5>1, <5>2, PutPieceStores
      <4>2. CASE d > Stored
        <5>1. e \in Size .. Size + n - 1 /\ Stored + 1 + e - Size = d
          BY <1>3, <1>4, <1>5, <3>1, <4>2
        <5> QED BY <3>1, <5>1, PutPieceStores DEF n
      <4> QED BY <1>3, <1>4, <1>5, <4>1, <4>2
    <3>3. ByteAt(Pos(Found + d - 1))' = ByteAt(Pos(e))' BY <1>3, <3>1
    <3> QED BY <1>7, <3>2, <3>3
  <2>4. (\E r \in Inputs : access.bytes = SubSeq(r, 1, Least(Len(r), MaxSize - Found)))'
    BY <1>3, <1>5, <1>7 DEF PutGoesOn
  <2> QED BY <1>3, <2>1, <2>2, <2>3, <2>4 DEF PutGoesOn
<1> QED BY <1>7, <1>8, <1>9, <1>10 DEF FifoInv

LEMMA EndPutKeeps == ASSUME FifoInv, EndPut PROVE FifoInv'
<1>1. FifoTypeOK /\ Allocated BY DEF FifoInv
<1>2. /\ table' = table /\ putSize' = putSize /\ getSize' = getSize
      /\ access' = [op |-> "none", start |-> 0, left |-> 0, bytes |-> <<>>]
  BY DEF EndPut, NoCall
<1>3. 0 \in Counter BY MaxSizeType DEF Counter
<1>4. FifoTypeOK' BY <1>1, <1>2, <1>3 DEF FifoTypeOK
<1>5. Allocated' BY <1>1, <1>2 DEF Allocated, There, Pos, Size
<1> QED BY <1>2, <1>4, <1>5 DEF FifoInv

(* A get that begins. *)
LEMMA BeginGetKeeps == ASSUME FifoInv, BeginGet PROVE FifoInv'
<1>1. FifoTypeOK /\ Allocated BY DEF FifoInv
<1>2. table' = table /\ putSize' = putSize /\ getSize' = getSize BY DEF BeginGet
<1>3. PICK k \in Asks : access' = [op |-> "get", start |-> getSize,
                                   left |-> Least(k, Size), bytes |-> <<>>]
  BY DEF BeginGet
<1>4. Size \in Nat /\ k \in Nat BY <1>1, SizeType, SizeAssumption
<1> DEFINE n == Least(k, Size)
<1>5. n \in Nat /\ n <= Size BY <1>4, LeastIs
<1> HIDE DEF n
<1>6. access' = [op |-> "get", start |-> getSize, left |-> n, bytes |-> <<>>] BY <1>3 DEF n
<1>7. getSize \in Counter BY <1>1 DEF FifoTypeOK
<1>8. FifoTypeOK' BY <1>1, <1>2, <1>5, <1>6, <1>7 DEF FifoTypeOK
<1>9. Allocated' BY <1>1, <1>2 DEF Allocated, There, Pos, Size
<1>10. Size' = Size BY <1>2 DEF Size
<1>11. GetGoesOn'
  <2>1. access'.left = n /\ Len(access'.bytes) = 0 BY <1>6
  <2>2. n = Least(k, Size) BY DEF n
  <2>3. (access.left <= Size)' BY <1>5, <1>10, <2>1
  <2>4. (Len(access.bytes) + access.left)' = n /\ (Len(access.bytes) + Size)' = Size
    BY <1>4, <1>5, <1>10, <2>1
  <2>5. (\E j \in Asks : Len(access.bytes) + access.left = Least(j, Len(access.bytes) + Size))'
    BY <2>2, <2>4
  <2> QED BY <2>3, <2>5 DEF GetGoesOn
<1> QED BY <1>6, <1>8, <1>9, <1>11 DEF FifoInv

(* What one memcpy of get takes. *)
Taken == [x \in 1 .. Piece(getSize) |-> table[Index(getSize)][Offset(getSize) + x - 1]]

LEMMA GetPieceMoves ==
    ASSUME FifoInv, GetPiece
    PROVE  /\ access.op = "get" /\ access.left > 0 /\ access.left <= Size
           /\ Piece(getSize) \in Nat /\ Piece(getSize) <= access.left
           /\ Piece(getSize) \in 0 .. MaxSize
           /\ getSize' = Plus(getSize, Piece(getSize)) /\ getSize' \in Counter
           /\ table' = table /\ putSize' = putSize
           /\ access' = [access EXCEPT !.left = @ - Piece(getSize), !.bytes = @ \o Taken]
           /\ Size' = Size - Piece(getSize)
           /\ \A d \in Nat : d + Piece(getSize) <= MaxSize => Pos(d)' = Pos(d + Piece(getSize))
<1> DEFINE n == Piece(getSize)
<1>0. MaxSize \in Nat BY MaxSizeType
<1>1. FifoTypeOK /\ Size \in Nat /\ Size <= MaxSize BY SizeType DEF FifoInv, Allocated
<1>2. putSize \in Counter /\ getSize \in Counter BY <1>1 DEF FifoTypeOK
<1>3. /\ access.op = "get" /\ access.left > 0
      /\ access' = [access EXCEPT !.left = @ - n, !.bytes = @ \o Taken]
      /\ getSize' = Plus(getSize, n) /\ table' = table /\ putSize' = putSize
  BY DEF GetPiece, Taken
<1>4. access.left <= Size BY <1>3 DEF FifoInv, GetGoesOn
<1>5. n \in Nat /\ n <= access.left BY <1>1, <1>2, <1>3, PieceType
<1>6. access.left \in Nat BY <1>1, AccessType
<1>7. n \in 0 .. MaxSize BY <1>0, <1>1, <1>4, <1>5, <1>6
<1>8. getSize' \in Counter BY <1>2, <1>3, <1>7, PlusIs
<1>9. Size' = Size - n
  <2>1. Size' = Minus(putSize', getSize') BY DEF Size
  <2>2. n <= Minus(putSize, getSize) BY <1>1, <1>4, <1>5, <1>6 DEF Size
  <2>3. Minus(putSize, Plus(getSize, n)) = Minus(putSize, getSize) - n
    BY <1>2, <1>7, <2>2, MinusAfterPlus
  <2> QED BY <1>3, <2>1, <2>3 DEF Size
<1>10. ASSUME NEW d \in Nat, d + n <= MaxSize PROVE Pos(d)' = Pos(d + n)
  <2>1. Pos(d)' = Plus(Plus(getSize, n), d) BY <1>3 DEF Pos
  <2>2. n + d <= MaxSize /\ n + d = d + n BY <1>5, <1>10
  <2>3. Plus(Plus(getSize, n), d) = Plus(getSize, n + d) BY <1>2, <1>5, <2>2, PlusPlus
  <2> QED BY <2>1, <2>2, <2>3 DEF Pos
<1> QED BY <1>3, <1>4, <1>5, <1>7, <1>8, <1>9, <1>10

(* It takes the bytes the FIFO held first. *)
LEMMA GetPieceTakes ==
    ASSUME FifoInv, GetPiece
    PROVE  /\ Taken \in Seq(Symbol) /\ Len(Taken) = Piece(getSize)
           /\ \A x \in 1 .. Piece(getSize) : Taken[x] = ByteAt(Pos(x - 1))
<1> DEFINE n == Piece(getSize)
<1> DEFINE o == Offset(getSize)
<1> DEFINE i == Index(getSize)
<1>1. FifoTypeOK BY DEF FifoInv
<1>2. /\ getSize \in Counter /\ table \in [0 .. ChunkCount - 1 -> Chunk \union {Null}]
  BY <1>1 DEF FifoTypeOK
<1>3. access.left > 0 /\ table[i] # Null BY DEF GetPiece
<1>4. n \in Nat /\ o + n <= ChunkSize BY <1>1, <1>2, <1>3, PieceType
<1>5. i \in 0 .. ChunkCount - 1 /\ o \in 0 .. ChunkSize - 1 /\ ChunkSize \in Nat
  BY <1>2, Places, SizeAssumption
<1>6. table[i] \in [0 .. ChunkSize - 1 -> Symbol] BY <1>2, <1>3, <1>5 DEF Chunk
<1>7. Taken = [x \in 1 .. n |-> table[i][o + x - 1]] BY DEF Taken
<1>8. ASSUME NEW x \in 1 .. n
      PROVE  table[i][o + x - 1] \in Symbol /\ table[i][o + x - 1] = ByteAt(Pos(x - 1))
  <2>1. x - 1 \in Nat /\ o + (x - 1) < ChunkSize /\ o + (x - 1) = o + x - 1
    BY <1>4, <1>5
  <2>2. Index(Plus(getSize, x - 1)) = i /\ Offset(Plus(getSize, x - 1)) = o + (x - 1)
    BY <1>2, <2>1, SameChunk
  <2>3. ByteAt(Pos(x - 1)) = table[i][o + x - 1] BY <2>1, <2>2 DEF ByteAt, Pos
  <2>4. o + x - 1 \in 0 .. ChunkSize - 1 BY <1>4, <1>5
  <2> QED BY <1>6, <2>3, <2>4
<1> HIDE DEF n, o, i
<1>9. Taken \in [1 .. n -> Symbol] BY <1>7, <1>8
<1>10. Taken \in Seq(Symbol) /\ Len(Taken) = n BY <1>4, <1>9
<1> QED BY <1>7, <1>8, <1>10 DEF n

(* A get that goes on. *)
LEMMA GetPieceKeeps == ASSUME FifoInv, GetPiece PROVE FifoInv'
<1> DEFINE n == Piece(getSize)
<1> DEFINE l == Len(access.bytes)
<1>0. MaxSize \in Nat BY MaxSizeType
<1>1. FifoTypeOK /\ Allocated /\ Size \in Nat BY SizeType DEF FifoInv
<1>2. /\ access.op = "get" /\ access.left > 0 /\ access.left <= Size
      /\ n \in Nat /\ n <= access.left /\ n \in 0 .. MaxSize
      /\ getSize' = Plus(getSize, n) /\ getSize' \in Counter
      /\ table' = table /\ putSize' = putSize
      /\ access' = [access EXCEPT !.left = @ - n, !.bytes = @ \o Taken]
      /\ Size' = Size - n
      /\ \A d \in Nat : d + n <= MaxSize => Pos(d)' = Pos(d + n)
  BY GetPieceMoves
<1>3. Taken \in Seq(Symbol) /\ Len(Taken) = n BY GetPieceTakes
<1>4. GetGoesOn BY <1>2 DEF FifoInv
<1>5. access.left \in Nat /\ access.bytes \in Seq(Symbol) /\ l \in Nat BY <1>1, AccessType
<1> HIDE DEF n
<1>6. access.bytes \o Taken \in Seq(Symbol) /\ Len(access.bytes \o Taken) = l + n
  BY <1>3, <1>5
<1>7. /\ access'.left = access.left - n /\ access'.bytes = access.bytes \o Taken
      /\ access'.op = "get"
  BY <1>1, <1>2 DEF FifoTypeOK
<1>8. FifoTypeOK'
  <2>1. access.left - n \in Nat BY <1>2, <1>5
  <2>2. access' \in [op : {"none", "put", "get"}, start : Counter, left : Nat, bytes : Seq(Symbol)]
    BY <1>1, <1>2, <1>6, <2>1 DEF FifoTypeOK
  <2> QED BY <1>1, <1>2, <2>2 DEF FifoTypeOK
<1>9. Allocated'
  <2>1. Size' \in Nat /\ Size' <= MaxSize BY <1>0, <1>1, <1>2, <1>5 DEF Allocated
  <2>2. ASSUME NEW d \in 0 .. Size' - 1 PROVE There(d)'
    <3>1. d \in Nat /\ d + n <= MaxSize /\ d + n \in 0 .. Size - 1
      BY <1>0, <1>1, <1>2, <1>5, <2>1 DEF Allocated
    <3>2. There(d + n) BY <1>1, <3>1 DEF Allocated
    <3>3. Pos(d)' = Pos(d + n) BY <1>2, <3>1
    <3> QED BY <1>2, <3>2, <3>3 DEF There
  <2> QED BY <2>1, <2>2 DEF Allocated
<1>10. GetGoesOn'
  <2> DEFINE m == Len(access'.bytes)
  <2>1. m = l + n BY <1>6, <1>7
  <2> HIDE DEF m, l
  <2>2. m + access'.left = l + access.left /\ m + Size' = l + Size
    BY <1>1, <1>2, <1>5, <1>7, <2>1
  <2>3. \E k \in Asks : m + access'.left = Least(k, m + Size')
    BY <1>4, <2>2 DEF GetGoesOn, l
  <2>4. access'.left <= Size' BY <1>1, <1>2, <1>5, <1>7
  <2> QED BY <2>3, <2>4 DEF GetGoesOn, m
<1> QED BY <1>7, <1>8, <1>9, <1>10 DEF FifoInv

(* A get never meets a chunk that is missing. *)
LEMMA GetIsComplete ==
    ASSUME FifoInv, EndGet
    PROVE  /\ access.op = "get" /\ access.left = 0 /\ GetGoesOn
           /\ table' = table /\ putSize' = putSize /\ getSize' = getSize
           /\ access' = [op |-> "none", start |-> 0, left |-> 0, bytes |-> <<>>]
           /\ answer' = Answer(Len(access.bytes), access.bytes)
<1>1. FifoTypeOK /\ Allocated /\ Size \in Nat BY SizeType DEF FifoInv
<1>2. /\ access.op = "get" /\ (access.left = 0 \/ table[Index(getSize)] = Null)
      /\ table' = table /\ putSize' = putSize /\ getSize' = getSize
      /\ access' = [op |-> "none", start |-> 0, left |-> 0, bytes |-> <<>>]
      /\ answer' = Answer(Len(access.bytes), access.bytes)
  BY DEF EndGet, NoCall
<1>3. GetGoesOn BY <1>2 DEF FifoInv
<1>4. access.left \in Nat /\ access.left <= Size BY <1>1, <1>3, AccessType DEF GetGoesOn
<1>5. ASSUME access.left # 0 PROVE FALSE
  <2>1. 0 \in 0 .. Size - 1 BY <1>1, <1>4, <1>5
  <2>2. There(0) BY <1>1, <2>1 DEF Allocated
  <2>3. getSize \in Counter /\ MaxSize \in Nat /\ Word \in Nat BY <1>1, MaxSizeType DEF FifoTypeOK
  <2>4. Pos(0) = getSize BY <2>3, PlusIs DEF Pos, Counter
  <2> QED BY <1>2, <1>5, <2>2, <2>4 DEF There
<1> QED BY <1>2, <1>3, <1>5

LEMMA EndGetKeeps == ASSUME FifoInv, EndGet PROVE FifoInv'
<1>1. FifoTypeOK /\ Allocated BY DEF FifoInv
<1>2. /\ table' = table /\ putSize' = putSize /\ getSize' = getSize
      /\ access' = [op |-> "none", start |-> 0, left |-> 0, bytes |-> <<>>]
  BY GetIsComplete
<1>3. 0 \in Counter BY MaxSizeType DEF Counter
<1>4. FifoTypeOK' BY <1>1, <1>2, <1>3 DEF FifoTypeOK
<1>5. Allocated' BY <1>1, <1>2 DEF Allocated, There, Pos, Size
<1> QED BY <1>2, <1>4, <1>5 DEF FifoInv

LEMMA ResetKeeps == ASSUME FifoInv, Reset PROVE FifoInv'
<1>1. FifoTypeOK BY DEF FifoInv
<1>2. /\ table' = table /\ putSize' = 0 /\ getSize' = 0 /\ access' = access
      /\ access.op = "none"
  BY DEF Reset
<1>3. 0 \in Counter BY MaxSizeType DEF Counter
<1>4. FifoTypeOK' BY <1>1, <1>2, <1>3 DEF FifoTypeOK
<1>5. Size' = 0
  <2>1. Minus(0, 0) = 0 BY <1>3, MinusIs
  <2> QED BY <1>2, <2>1 DEF Size
<1>6. Allocated' BY <1>5, MaxSizeType DEF Allocated
<1> QED BY <1>2, <1>4, <1>6 DEF FifoInv

LEMMA FifoStep == ASSUME FifoInv, [FifoNext]_fifovars PROVE FifoInv'
<1>1. CASE BeginPut BY <1>1, BeginPutKeeps
<1>2. CASE PutPiece BY <1>2, PutPieceKeeps
<1>3. CASE EndPut BY <1>3, EndPutKeeps
<1>4. CASE BeginGet BY <1>4, BeginGetKeeps
<1>5. CASE GetPiece BY <1>5, GetPieceKeeps
<1>6. CASE EndGet BY <1>6, EndGetKeeps
<1>7. CASE Reset BY <1>7, ResetKeeps
<1>8. CASE UNCHANGED fifovars
  <2>1. table' = table /\ putSize' = putSize /\ getSize' = getSize /\ access' = access
    BY <1>8 DEF fifovars
  <2> QED BY <2>1 DEF FifoInv, FifoTypeOK, Allocated, PutGoesOn, GetGoesOn, There, Pos,
                      Size, Found, Stored, ByteAt
<1> QED BY <1>1, <1>2, <1>3, <1>4, <1>5, <1>6, <1>7, <1>8 DEF FifoNext

-----------------------------------------------------------------------------
(* The refinement.                                                         *)
LEMMA HeldIs ==
    ASSUME FifoTypeOK, NEW m \in Nat, m <= MaxSize, \A d \in 0 .. m - 1 : There(d),
           NEW to \in Counter, Minus(to, getSize) = m
    PROVE  /\ Held(getSize, to) = [x \in 1 .. m |-> ByteAt(Pos(x - 1))]
           /\ Held(getSize, to) \in Seq(Symbol) /\ Len(Held(getSize, to)) = m
<1> DEFINE h == [x \in 1 .. m |-> ByteAt(Pos(x - 1))]
<1>0. MaxSize \in Nat BY MaxSizeType
<1>1. Held(getSize, to) = h BY DEF Held, Pos
<1>2. ASSUME NEW x \in 1 .. m PROVE ByteAt(Pos(x - 1)) \in Symbol
  <2>1. x - 1 \in 0 .. m - 1 /\ x - 1 \in 0 .. MaxSize BY <1>0
  <2>2. getSize \in Counter /\ table \in [0 .. ChunkCount - 1 -> Chunk \union {Null}]
    BY DEF FifoTypeOK
  <2>3. Pos(x - 1) \in Counter BY <2>1, <2>2, PlusIs DEF Pos
  <2>4. /\ Index(Pos(x - 1)) \in 0 .. ChunkCount - 1
        /\ Offset(Pos(x - 1)) \in 0 .. ChunkSize - 1 BY <2>3, Places
  <2>5. table[Index(Pos(x - 1))] # Null BY <2>1 DEF There
  <2> QED BY <2>2, <2>4, <2>5 DEF ByteAt, Chunk
<1>3. h \in [1 .. m -> Symbol] BY <1>2
<1> HIDE DEF h
<1>4. h \in Seq(Symbol) /\ Len(h) = m BY <1>3
<1> QED BY <1>1, <1>4 DEF h

LEMMA SameElements ==
    ASSUME NEW S, NEW s \in Seq(S), NEW t \in Seq(S), Len(s) = Len(t),
           \A i \in 1 .. Len(s) : s[i] = t[i]
    PROVE  s = t
  OBVIOUS

LEMMA JoinThree ==
    ASSUME NEW S, NEW s \in Seq(S), NEW t \in Seq(S), NEW u \in Seq(S)
    PROVE  (s \o t) \o u = s \o (t \o u)
  OBVIOUS

LEMMA JoinParts ==
    ASSUME NEW S, NEW s \in Seq(S), NEW t \in Seq(S)
    PROVE  /\ s \o t \in Seq(S) /\ Len(s \o t) = Len(s) + Len(t)
           /\ SubSeq(s \o t, 1, Len(s)) = s
           /\ SubSeq(s \o t, Len(s) + 1, Len(s \o t)) = t
           /\ <<>> \o t = t
<1>1. s \o t \in Seq(S) /\ Len(s \o t) = Len(s) + Len(t) OBVIOUS
<1>2. SubSeq(s \o t, 1, Len(s)) = s OBVIOUS
<1>3. SubSeq(s \o t, Len(s) + 1, Len(s \o t)) = t OBVIOUS
<1>4. <<>> \o t = t OBVIOUS
<1> QED BY <1>1, <1>2, <1>3, <1>4

(* The bytes between the read and the write position. *)
LEMMA HeldNow ==
    ASSUME FifoInv
    PROVE  /\ Held(getSize, putSize) = [x \in 1 .. Size |-> ByteAt(Pos(x - 1))]
           /\ Held(getSize, putSize) \in Seq(Symbol) /\ Len(Held(getSize, putSize)) = Size
<1>1. FifoTypeOK /\ Allocated /\ Size \in Nat BY SizeType DEF FifoInv
<1>2. Size <= MaxSize /\ \A d \in 0 .. Size - 1 : There(d) BY <1>1 DEF Allocated
<1>3. putSize \in Counter /\ Minus(putSize, getSize) = Size BY <1>1 DEF FifoTypeOK, Size
<1> QED BY <1>1, <1>2, <1>3, HeldIs

(* The bytes a put found. *)
LEMMA HeldBefore ==
    ASSUME FifoInv, access.op = "put"
    PROVE  /\ Queue = [x \in 1 .. Found |-> ByteAt(Pos(x - 1))]
           /\ Queue \in Seq(Symbol) /\ Len(Queue) = Found
<1>1. FifoTypeOK /\ Allocated BY DEF FifoInv
<1>2. Found \in Nat /\ Stored \in Nat /\ Size = Found + Stored BY PutHasRoom
<1>3. MaxSize \in Nat BY MaxSizeType
<1>4. Found <= MaxSize BY <1>1, <1>2, <1>3 DEF Allocated
<1>5. \A d \in 0 .. Found - 1 : There(d) BY <1>1, <1>2 DEF Allocated
<1>6. access.start \in Counter /\ Minus(access.start, getSize) = Found
  BY <1>1, AccessType DEF Found
<1>7. Queue = Held(getSize, access.start) BY DEF Queue
<1> QED BY <1>1, <1>2, <1>4, <1>5, <1>6, <1>7, HeldIs

LEMMA InitRefines == ASSUME FifoInit PROVE BQ!Init
<1>1. FifoInv BY FifoInitOK
<1>2. access.op = "none" /\ putSize = 0 /\ getSize = 0 /\ answer = [count |-> 0, bytes |-> <<>>]
  BY DEF FifoInit, NoCall, Answer
<1>3. 0 \in Counter BY MaxSizeType DEF Counter
<1>4. Size = 0 BY <1>2, <1>3, MinusIs DEF Size
<1>5. Queue = Held(getSize, putSize) BY <1>2 DEF Queue
<1>6. Queue \in Seq(Symbol) /\ Len(Queue) = 0 BY <1>1, <1>4, <1>5, HeldNow
<1>7. Queue = <<>> BY <1>6
<1> QED BY <1>2, <1>7 DEF BQ!Init, BQ!Answer

LEMMA BeginPutStutters == ASSUME FifoInv, BeginPut PROVE Queue' = Queue /\ answer' = answer
<1>1. /\ access.op = "none" /\ access'.op = "put" /\ access'.start = putSize
      /\ table' = table /\ getSize' = getSize /\ answer' = answer
  BY DEF BeginPut
<1>2. Queue = Held(getSize, putSize) BY <1>1 DEF Queue
<1>3. Queue' = Held(getSize, putSize)
  BY <1>1 DEF Queue, Held, ByteAt
<1> QED BY <1>1, <1>2, <1>3

LEMMA PutPieceStutters == ASSUME FifoInv, PutPiece PROVE Queue' = Queue /\ answer' = answer
<1>1. FifoInv' BY PutPieceKeeps
<1>2. /\ access.op = "put" /\ getSize' = getSize /\ Found' = Found
      /\ access' = [access EXCEPT !.left = @ - Piece(putSize)]
  BY PutPieceMoves
<1>3. access'.op = "put"
  <2>1. FifoTypeOK BY DEF FifoInv
  <2> QED BY <1>2, <2>1 DEF FifoTypeOK
<1>4. Queue = [x \in 1 .. Found |-> ByteAt(Pos(x - 1))] BY <1>2, HeldBefore
<1>5. Queue' = [x \in 1 .. Found' |-> ByteAt(Pos(x - 1))']
  <2>1. (FifoInv /\ access.op = "put" => Queue = [x \in 1 .. Found |-> ByteAt(Pos(x - 1))])'
    BY HeldBefore, PTL
  <2> QED BY <1>1, <1>3, <2>1
<1>6. Found \in Nat /\ Stored \in Nat /\ Size = Found + Stored BY <1>2, PutHasRoom
<1>7. ASSUME NEW x \in 1 .. Found PROVE ByteAt(Pos(x - 1))' = ByteAt(Pos(x - 1))
  <2>1. x - 1 \in Nat /\ x - 1 < Size BY <1>6
  <2> QED BY <2>1, PutPieceStores
<1>8. answer' = answer BY DEF PutPiece
<1> QED BY <1>2, <1>4, <1>5, <1>7, <1>8

LEMMA EndPutRefines == ASSUME FifoInv, EndPut PROVE BQ!Put
<1> DEFINE b == access.bytes
<1> DEFINE q == Queue
<1>0. MaxSize \in Nat BY MaxSizeType
<1>1. /\ access.op = "put" /\ access.left = 0 /\ access'.op = "none"
      /\ table' = table /\ putSize' = putSize /\ getSize' = getSize
      /\ answer' = [count |-> Len(b), bytes |-> <<>>]
  BY DEF EndPut, NoCall, Answer
<1>2. /\ PutGoesOn /\ Found \in Nat /\ Stored \in Nat
      /\ Stored + access.left = Len(b)
      /\ Size = Found + Stored /\ Size + access.left <= MaxSize
  BY <1>1, PutHasRoom
<1>3. b \in Seq(Symbol) /\ Len(b) \in Nat BY AccessType DEF FifoInv
<1>4. Stored = Len(b) /\ Size = Found + Len(b) BY <1>1, <1>2, <1>3
<1>5. /\ q = [x \in 1 .. Found |-> ByteAt(Pos(x - 1))]
      /\ q \in Seq(Symbol) /\ Len(q) = Found BY <1>1, HeldBefore
<1>6. Queue' = Held(getSize, putSize) BY <1>1 DEF Queue, Held, ByteAt
<1>7. /\ Queue' = [x \in 1 .. Size |-> ByteAt(Pos(x - 1))]
      /\ Queue' \in Seq(Symbol) /\ Len(Queue') = Size BY <1>6, HeldNow
<1> HIDE DEF q, b
<1>8. q \o b \in Seq(Symbol) /\ Len(q \o b) = Size
  <2>1. b \in Seq(Symbol) BY <1>3 DEF b
  <2>2. q \in Seq(Symbol) BY <1>5
  <2>3. q \o b \in Seq(Symbol) /\ Len(q \o b) = Len(q) + Len(b) BY <2>1, <2>2, JoinParts
  <2>4. Size = Len(q) + Len(b) BY <1>4, <1>5
  <2> QED BY <2>3, <2>4
<1>9. ASSUME NEW x \in 1 .. Size PROVE Queue'[x] = (q \o b)[x]
  <2>0. x \in Nat /\ Found \in Nat /\ Size \in Nat
    <3>1. Found \in Nat /\ Len(b) \in Nat /\ Size = Found + Len(b) BY <1>2, <1>3, <1>4
    <3> QED BY <3>1
  <2>1. CASE x <= Found
    <3>1. (q \o b)[x] = q[x] BY <1>2, <1>3, <1>5, <2>1
    <3> QED BY <1>2, <1>5, <1>7, <2>1, <3>1
  <2>2. CASE x > Found
    <3>1. (q \o b)[x] = b[x - Found] BY <1>2, <1>3, <1>4, <1>5, <2>2
    <3>2. x - Found \in 1 .. Stored /\ Found + (x - Found) - 1 = x - 1 BY <1>2, <1>3, <1>4, <2>2
    <3>3. ByteAt(Pos(Found + (x - Found) - 1)) = b[x - Found] BY <1>2, <3>2 DEF PutGoesOn, b
    <3>4. ByteAt(Pos(x - 1)) = b[x - Found] BY <3>2, <3>3
    <3> QED BY <1>7, <3>1, <3>4
  <2>3. x <= Found \/ x > Found BY <2>0
  <2> QED BY <2>1, <2>2, <2>3, Zenon
<1>10. Queue' = q \o b BY <1>7, <1>8, <1>9, SameElements
<1>11. PICK s \in Inputs : b = SubSeq(s, 1, Least(Len(s), MaxSize - Found))
  BY <1>2 DEF PutGoesOn, b
<1> DEFINE n == Least(Len(s), MaxSize - Found)
<1>12. s \in Seq(Byte) /\ Len(s) \in Nat BY SizeAssumption
<1>13. n \in Nat /\ n <= Len(s)
  <2>1. MaxSize - Found \in Nat BY <1>0, <1>1, <1>2, <1>3, <1>4
  <2> QED BY <1>12, <2>1, LeastIs
<1>14. b = SubSeq(s, 1, n) BY <1>11
<1>15. n = BQ!Least(Len(s), MaxSize - Len(q)) BY <1>5 DEF Least, BQ!Least
<1> HIDE DEF n
<1>16. Len(b) = n BY <1>12, <1>13, <1>14
<1>17. answer' = BQ!Answer(n, <<>>) BY <1>1, <1>16 DEF BQ!Answer, b
<1>18. Queue' = q \o SubSeq(s, 1, n) BY <1>10, <1>14
<1> QED BY <1>15, <1>17, <1>18 DEF BQ!Put, q

LEMMA BeginGetStutters == ASSUME FifoInv, BeginGet PROVE Queue' = Queue /\ answer' = answer
<1>1. /\ access.op = "none" /\ access'.op = "get" /\ access'.bytes = <<>>
      /\ table' = table /\ putSize' = putSize /\ getSize' = getSize /\ answer' = answer
  BY DEF BeginGet
<1>2. Queue = Held(getSize, putSize) BY <1>1 DEF Queue
<1>3. Held(getSize, putSize)' = Held(getSize, putSize) BY <1>1 DEF Held, ByteAt
<1>4. Queue' = <<>> \o Held(getSize, putSize) BY <1>1, <1>3 DEF Queue
<1>5. Held(getSize, putSize) \in Seq(Symbol) BY HeldNow
<1>6. <<>> \o Held(getSize, putSize) = Held(getSize, putSize) BY <1>5, JoinParts
<1> QED BY <1>1, <1>2, <1>4, <1>6

LEMMA GetPieceStutters == ASSUME FifoInv, GetPiece PROVE Queue' = Queue /\ answer' = answer
<1> DEFINE n == Piece(getSize)
<1> DEFINE b == access.bytes
<1> DEFINE h == Held(getSize, putSize)
<1> DEFINE g == Held(getSize, putSize)'
<1> DEFINE m == Size
<1>0. MaxSize \in Nat BY MaxSizeType
<1>1. FifoInv' BY GetPieceKeeps
<1>2. /\ access.op = "get" /\ access.left > 0 /\ access.left <= m
      /\ n \in Nat /\ n <= access.left
      /\ access' = [access EXCEPT !.left = @ - n, !.bytes = @ \o Taken]
      /\ Size' = m - n /\ table' = table
      /\ \A d \in Nat : d + n <= MaxSize => Pos(d)' = Pos(d + n)
  BY GetPieceMoves
<1>3. FifoTypeOK /\ m \in Nat /\ m <= MaxSize BY SizeType DEF FifoInv, Allocated
<1>4. access'.op = "get" /\ access'.bytes = b \o Taken BY <1>2, <1>3 DEF FifoTypeOK
<1>5. b \in Seq(Symbol) /\ access.left \in Nat BY <1>3, AccessType
<1>6. /\ Taken \in Seq(Symbol) /\ Len(Taken) = n
      /\ \A x \in 1 .. n : Taken[x] = ByteAt(Pos(x - 1))
  BY GetPieceTakes
<1>7. /\ h = [x \in 1 .. m |-> ByteAt(Pos(x - 1))]
      /\ h \in Seq(Symbol) /\ Len(h) = m BY HeldNow
<1>8. /\ g = [x \in 1 .. Size' |-> ByteAt(Pos(x - 1))']
      /\ g \in Seq(Symbol) /\ Len(g) = Size'
  <2>1. (FifoInv => /\ Held(getSize, putSize) = [x \in 1 .. Size |-> ByteAt(Pos(x - 1))]
                    /\ Held(getSize, putSize) \in Seq(Symbol)
                    /\ Len(Held(getSize, putSize)) = Size)'
    BY HeldNow, PTL
  <2> QED BY <1>1, <2>1
<1>9. Queue = b \o h BY <1>2 DEF Queue
<1>10. Queue' = (b \o Taken) \o g BY <1>4 DEF Queue
<1> HIDE DEF n, b, h, g, m
<1>11. \A x \in 1 .. m - n : g[x] = ByteAt(Pos(x + n - 1))
  <2> TAKE x \in 1 .. m - n
  <2>1. g[x] = ByteAt(Pos(x - 1))' BY <1>2, <1>8
  <2>2. x - 1 \in Nat /\ (x - 1) + n <= MaxSize /\ (x - 1) + n = x + n - 1
    BY <1>0, <1>2, <1>3
  <2>3. Pos(x - 1)' = Pos(x + n - 1) BY <1>2, <2>2
  <2>4. ByteAt(Pos(x - 1))' = ByteAt(Pos(x + n - 1)) BY <1>2, <2>3 DEF ByteAt
  <2> QED BY <2>1, <2>4
<1>12. m - n \in Nat /\ n + (m - n) = m BY <1>2, <1>3, <1>5
<1>13. Taken \o g \in Seq(Symbol) /\ Len(Taken \o g) = m
  <2>1. Taken \in Seq(Symbol) /\ g \in Seq(Symbol)
    BY <1>6, <1>8
  <2>2. Taken \o g \in Seq(Symbol) /\ Len(Taken \o g) = Len(Taken) + Len(g)
    BY <2>1, JoinParts
  <2> QED BY <1>2, <1>6, <1>8, <1>12, <2>2
<1>14. ASSUME NEW x \in 1 .. m PROVE h[x] = (Taken \o g)[x]
  <2>0. x \in Nat /\ n \in Nat /\ h[x] = ByteAt(Pos(x - 1)) BY <1>2, <1>3, <1>7
  <2>1. CASE x <= n
    <3>1. (Taken \o g)[x] = Taken[x] BY <1>2, <1>3, <1>6, <1>8, <1>12, <2>1
    <3>2. Taken[x] = ByteAt(Pos(x - 1)) BY <1>3, <1>6, <2>0, <2>1
    <3> QED BY <2>0, <3>1, <3>2
  <2>2. CASE x > n
    <3>1. x - n \in 1 .. m - n /\ (x - n) + n - 1 = x - 1 BY <1>3, <1>12, <2>0, <2>2
    <3>2. (Taken \o g)[x] = g[x - n] BY <1>2, <1>3, <1>6, <1>8, <1>12, <2>0, <2>2, <3>1
    <3>3. g[x - n] = ByteAt(Pos((x - n) + n - 1)) BY <1>11, <3>1
    <3> QED BY <2>0, <3>1, <3>2, <3>3
  <2>3. x <= n \/ x > n BY <2>0
  <2> QED BY <2>1, <2>2, <2>3, Zenon
<1>15. h = Taken \o g BY <1>7, <1>13, <1>14, SameElements
<1>16. (b \o Taken) \o g = b \o (Taken \o g)
  <2>1. b \in Seq(Symbol) /\ Taken \in Seq(Symbol) /\ g \in Seq(Symbol) BY <1>5, <1>6, <1>8 DEF b
  <2>2. \A s, t, u \in Seq(Symbol) : (s \o t) \o u = s \o (t \o u) BY JoinThree
  <2> HIDE DEF Taken
  <2> QED BY <2>1, <2>2, Zenon
<1>17. answer' = answer BY DEF GetPiece
<1> QED BY <1>9, <1>10, <1>15, <1>16, <1>17

LEMMA EndGetRefines == ASSUME FifoInv, EndGet PROVE BQ!Get
<1> DEFINE b == access.bytes
<1> DEFINE h == Held(getSize, putSize)
<1> DEFINE q == Queue
<1>1. /\ access.op = "get" /\ access.left = 0 /\ GetGoesOn
      /\ table' = table /\ putSize' = putSize /\ getSize' = getSize
      /\ access' = [op |-> "none", start |-> 0, left |-> 0, bytes |-> <<>>]
      /\ answer' = Answer(Len(b), b)
  BY GetIsComplete
<1>2. b \in Seq(Symbol) /\ Len(b) \in Nat BY AccessType DEF FifoInv
<1>3. h \in Seq(Symbol) /\ Len(h) = Size BY HeldNow
<1>4. q = b \o h BY <1>1 DEF Queue
<1>5. Queue' = h BY <1>1 DEF Queue, Held, ByteAt
<1>6. PICK k \in Asks : Len(b) + access.left = Least(k, Len(b) + Size)
  BY <1>1 DEF GetGoesOn
<1>7. answer' = [count |-> Len(b), bytes |-> b] BY <1>1 DEF Answer
<1> HIDE DEF b, h, q
<1>8. /\ Len(q) = Len(b) + Size
      /\ SubSeq(q, 1, Len(b)) = b /\ SubSeq(q, Len(b) + 1, Len(q)) = h
  <2>1. b \in Seq(Symbol) /\ h \in Seq(Symbol) BY <1>2, <1>3
  <2>2. /\ Len(b \o h) = Len(b) + Len(h)
        /\ SubSeq(b \o h, 1, Len(b)) = b
        /\ SubSeq(b \o h, Len(b) + 1, Len(b \o h)) = h BY <2>1, JoinParts
  <2> QED BY <1>3, <1>4, <2>2
<1>9. Len(b) = BQ!Least(k, Len(q))
  <2>1. Len(b) = Least(k, Len(q)) BY <1>1, <1>2, <1>6, <1>8 DEF b
  <2> QED BY <2>1 DEF Least, BQ!Least
<1>10. answer' = BQ!Answer(Len(b), SubSeq(q, 1, Len(b))) BY <1>7, <1>8 DEF BQ!Answer
<1>11. Queue' = SubSeq(q, Len(b) + 1, Len(q)) BY <1>5, <1>8
<1> QED BY <1>9, <1>10, <1>11 DEF BQ!Get, q

LEMMA ResetRefines == ASSUME FifoInv, Reset PROVE BQ!Reset
<1>1. FifoInv' BY ResetKeeps
<1>2. access'.op = "none" /\ putSize' = 0 /\ getSize' = 0 /\ answer' = [count |-> 0, bytes |-> <<>>]
  BY DEF Reset, Answer
<1>3. 0 \in Counter BY MaxSizeType DEF Counter
<1>4. Size' = 0
  <2>1. Minus(0, 0) = 0 BY <1>3, MinusIs
  <2> QED BY <1>2, <2>1 DEF Size
<1>5. Queue' \in Seq(Symbol) /\ Len(Queue') = 0
  <2>1. (FifoInv => /\ Held(getSize, putSize) \in Seq(Symbol)
                    /\ Len(Held(getSize, putSize)) = Size)'
    BY HeldNow, PTL
  <2>2. Queue' = Held(getSize, putSize)' BY <1>2 DEF Queue
  <2> QED BY <1>1, <1>4, <2>1, <2>2
<1>6. Queue' = <<>> BY <1>5
<1> QED BY <1>2, <1>6 DEF BQ!Reset, BQ!Answer

LEMMA StepRefines ==
    ASSUME FifoInv, [FifoNext]_fifovars PROVE [BQ!Next]_(BQ!vars)
<1>1. CASE BeginPut BY <1>1, BeginPutStutters DEF BQ!vars
<1>2. CASE PutPiece BY <1>2, PutPieceStutters DEF BQ!vars
<1>3. CASE EndPut BY <1>3, EndPutRefines DEF BQ!Next
<1>4. CASE BeginGet BY <1>4, BeginGetStutters DEF BQ!vars
<1>5. CASE GetPiece BY <1>5, GetPieceStutters DEF BQ!vars
<1>6. CASE EndGet BY <1>6, EndGetRefines DEF BQ!Next
<1>7. CASE Reset BY <1>7, ResetRefines DEF BQ!Next
<1>8. CASE UNCHANGED fifovars
  BY <1>8 DEF fifovars, BQ!vars, Queue, Held, ByteAt
<1> QED BY <1>1, <1>2, <1>3, <1>4, <1>5, <1>6, <1>7, <1>8 DEF FifoNext

(* AmlMpChunkFifo is the bounded queue of its callers: every call takes    *)
(* effect at once, puts what fits and gets what there is, bytes come out   *)
(* in order and unharmed, and get meets no chunk that is missing (put,     *)
(* get, reset of utils/AmlMpChunkFifo.cpp), for every size and number of   *)
(* chunks and any counters that wrap at a multiple of the ring.            *)
THEOREM FifoIsByteQueue == FifoSpec => ImplementsByteQueue
<1>1. FifoInit => FifoInv BY FifoInitOK
<1>2. FifoInv /\ [FifoNext]_fifovars => FifoInv' BY FifoStep
<1>3. FifoInit => BQ!Init BY InitRefines
<1>4. FifoInv /\ [FifoNext]_fifovars => [BQ!Next]_(BQ!vars) BY StepRefines
<1> QED BY <1>1, <1>2, <1>3, <1>4, PTL DEF FifoSpec, ImplementsByteQueue, BQ!Spec

-----------------------------------------------------------------------------
(* Message: the items of all messages against the counts of the objects.   *)

ItemSet == [name : ItemName, type : {"plain"}, value : {1, 2}]
               \union [name : ItemName, type : {"string"}, value : {1}]
               \union [name : ItemName, type : {"object"}, value : Object \union {NoObject}]

Is(v, o) == Refers(v) /\ v.value = o
One(b) == IF b THEN 1 ELSE 0
AtTo(items, n, o) == {i \in 1 .. n : Is(items[i], o)}
At(items, o) == AtTo(items, Len(items), o)

DistinctNames(items) ==
    \A i, j \in 1 .. Len(items) : items[i].name = items[j].name => i = j

(* The counts exceed the references of the items by what base says, for the *)
(* references of all other messages.                                        *)
Fits(t, base) ==
    /\ t.items \in Seq(ItemSet) /\ DistinctNames(t.items)
    /\ t.count \in [Object -> Int]
    /\ \A o \in Object : t.count[o] = base[o] + Cardinality(At(t.items, o))

HoldingIn(tables, o) == {p \in UNION {{m} \X DOMAIN tables[m] : m \in Msg} :
                             Is(tables[p[1]][p[2]], o)}
Holding(o) == HoldingIn(mItems, o)
OfOthers(tables, m, o) == {p \in HoldingIn(tables, o) : p[1] # m}
OfMessage(tables, m, o) == {<<m, i>> : i \in At(tables[m], o)}
Base(m) == [o \in Object |-> refCount[o] - Cardinality(At(mItems[m], o))]

MessageInv ==
    /\ mItems \in [Msg -> Seq(ItemSet)] /\ refCount \in [Object -> Int]
    /\ \A m \in Msg : DistinctNames(mItems[m])
    /\ \A o \in Object : IsFiniteSet(Holding(o)) /\ refCount[o] = Cardinality(Holding(o))

LEMMA AtIsFinite ==
    ASSUME NEW items, NEW n \in Nat, NEW o
    PROVE  IsFiniteSet(AtTo(items, n, o)) /\ Cardinality(AtTo(items, n, o)) \in Nat
<1>1. IsFiniteSet(1 .. n)
  BY FS_Interval
<1>2. AtTo(items, n, o) \in SUBSET (1 .. n)
  BY DEF AtTo
<1> QED
  BY <1>1, <1>2, FS_Subset, FS_CardinalityType

LEMMA FreeingAValue ==
    ASSUME NEW count \in [Object -> Int], NEW v
    PROVE  /\ freeItemValue(count, v) \in [Object -> Int]
           /\ incStrongBy(count, v) \in [Object -> Int]
           /\ \A o \in Object :
                 /\ freeItemValue(count, v)[o] = count[o] - One(Is(v, o))
                 /\ incStrongBy(count, v)[o] = count[o] + One(Is(v, o))
<1>1. CASE Refers(v) /\ v.value \in Object
  <2>1. /\ freeItemValue(count, v) = [count EXCEPT ![v.value] = @ - 1]
        /\ incStrongBy(count, v) = [count EXCEPT ![v.value] = @ + 1]
    BY <1>1 DEF freeItemValue, incStrongBy
  <2> QED
    BY <1>1, <2>1 DEF One, Is
<1>3. CASE Refers(v) /\ v.value \notin Object
  <2>1. freeItemValue(count, v) = count /\ incStrongBy(count, v) = count
    BY <1>3 DEF freeItemValue, incStrongBy
  <2> QED
    BY <1>3, <2>1 DEF One, Is
<1>2. CASE ~Refers(v)
  BY <1>2 DEF freeItemValue, incStrongBy, One, Is
<1> QED
  BY <1>1, <1>2, <1>3

(* An item written over, at place i. *)
LEMMA WritingOver ==
    ASSUME NEW items \in Seq(ItemSet), NEW i \in 1 .. Len(items), NEW it \in ItemSet, NEW o
    PROVE  LET new == [items EXCEPT ![i] = it] IN
           /\ new \in Seq(ItemSet) /\ Len(new) = Len(items)
           /\ Cardinality(At(new, o)) =
                 Cardinality(At(items, o)) - One(Is(items[i], o)) + One(Is(it, o))
<1> DEFINE new == [items EXCEPT ![i] = it]
<1>1. new \in Seq(ItemSet) /\ Len(new) = Len(items)
  OBVIOUS
<1>2. \A j \in 1 .. Len(items) : new[j] = IF j = i THEN it ELSE items[j]
  OBVIOUS
<1> HIDE DEF new
<1> DEFINE others == At(items, o) \ {i}
<1>3. IsFiniteSet(At(items, o)) /\ Cardinality(At(items, o)) \in Nat
  BY AtIsFinite DEF At
<1>4. i \in At(items, o) <=> Is(items[i], o)
  BY DEF At, AtTo
<1>5. IsFiniteSet(others) /\ Cardinality(others) = Cardinality(At(items, o)) - One(Is(items[i], o))
  BY <1>3, <1>4, FS_RemoveElement DEF One
<1>6. CASE Is(it, o)
  <2>1. At(new, o) = others \union {i}
    BY <1>1, <1>2, <1>6 DEF At, AtTo
  <2>2. Cardinality(others \union {i}) = Cardinality(others) + 1
    BY <1>5, FS_AddElement
  <2> HIDE DEF others
  <2> QED
    BY <1>1, <1>3, <1>5, <1>6, <2>1, <2>2 DEF One, new
<1>7. CASE ~Is(it, o)
  <2>1. At(new, o) = others
    BY <1>1, <1>2, <1>7 DEF At, AtTo
  <2> HIDE DEF others
  <2> QED
    BY <1>1, <1>3, <1>5, <1>7, <2>1 DEF One, new
<1> QED
  BY <1>6, <1>7

LEMMA AppendingAnItem ==
    ASSUME NEW items \in Seq(ItemSet), NEW it \in ItemSet, NEW o
    PROVE  /\ Append(items, it) \in Seq(ItemSet)
           /\ Cardinality(At(Append(items, it), o)) =
                 Cardinality(At(items, o)) + One(Is(it, o))
<1> DEFINE new == Append(items, it)
           L == Len(items)
<1>1. new \in Seq(ItemSet) /\ Len(new) = L + 1 /\ L \in Nat
  OBVIOUS
<1>2. \A j \in 1 .. L + 1 : new[j] = IF j = L + 1 THEN it ELSE items[j]
  OBVIOUS
<1>3. IsFiniteSet(At(items, o)) /\ Cardinality(At(items, o)) \in Nat
  BY AtIsFinite, <1>1 DEF At
<1>4. L + 1 \notin At(items, o)
  BY <1>1 DEF At, AtTo
<1> HIDE DEF new
<1>5. CASE Is(it, o)
  <2>1. At(new, o) = At(items, o) \union {L + 1}
    BY <1>1, <1>2, <1>5 DEF At, AtTo
  <2>2. Cardinality(At(items, o) \union {L + 1}) = Cardinality(At(items, o)) + 1
    BY <1>3, <1>4, FS_AddElement
  <2> QED
    BY <1>1, <1>5, <2>1, <2>2 DEF One, new
<1>6. CASE ~Is(it, o)
  <2>1. At(new, o) = At(items, o)
    BY <1>1, <1>2, <1>6 DEF At, AtTo
  <2> QED
    BY <1>1, <1>3, <1>6, <2>1 DEF One, new
<1> QED
  BY <1>5, <1>6

LEMMA FindsTheItem ==
    ASSUME NEW items \in Seq(ItemSet), NEW name
    PROVE  LET i == findItemIndex(items, name) IN
           \/ i \in 1 .. Len(items) /\ items[i].name = name
           \/ i = Len(items) + 1 /\ \A j \in 1 .. Len(items) : items[j].name # name
<1>1. DOMAIN items = 1 .. Len(items) /\ Len(items) \in Nat
  OBVIOUS
<1>2. CASE name \in Names(items)
  <2>1. \E i \in DOMAIN items : items[i].name = name
    BY <1>2 DEF Names
  <2> DEFINE i == CHOOSE i \in DOMAIN items : items[i].name = name
  <2>2. i \in DOMAIN items /\ items[i].name = name
    BY <2>1
  <2>3. findItemIndex(items, name) = i
    BY <1>2 DEF findItemIndex
  <2> HIDE DEF i
  <2> QED
    BY <1>1, <2>2, <2>3
<1>3. CASE name \notin Names(items)
  <2>1. findItemIndex(items, name) = Len(items) + 1
    BY <1>3 DEF findItemIndex
  <2>2. \A j \in 1 .. Len(items) : items[j].name # name
    BY <1>1, <1>3 DEF Names
  <2> QED
    BY <2>1, <2>2
<1> QED
  BY <1>2, <1>3

(* allocateItem and the assignment after it. *)
LEMMA AssignedFits ==
    ASSUME NEW t, NEW base \in [Object -> Int], Fits(t, base),
           NEW name \in ItemName, NEW v, Item(name, v) \in ItemSet
    PROVE  Fits(Assigned(t, name, v), base)
<1> DEFINE items == t.items
           count == t.count
           it == Item(name, v)
           i == findItemIndex(items, name)
           s == Assigned(t, name, v)
<1>1. /\ items \in Seq(ItemSet) /\ DistinctNames(items) /\ count \in [Object -> Int]
      /\ Len(items) \in Nat
      /\ \A o \in Object : count[o] = base[o] + Cardinality(At(items, o))
  BY DEF Fits
<1>2. it.name = name /\ \A o : One(Is(it, o)) = One(Is(v, o))
  BY DEF Item, Is, Refers, One
<1>3. \/ i \in 1 .. Len(items) /\ items[i].name = name
      \/ i = Len(items) + 1 /\ \A j \in 1 .. Len(items) : items[j].name # name
  BY <1>1, FindsTheItem
<1>4. \A o \in Object : Cardinality(At(items, o)) \in Nat /\ base[o] \in Int
  BY <1>1, AtIsFinite DEF At
<1>5. CASE i \in 1 .. Len(items)
  <2> DEFINE new == [items EXCEPT ![i] = it]
             mid == freeItemValue(count, items[i])
             end == incStrongBy(mid, v)
  <2>1. i <= Len(items) /\ items[i].name = name
    BY <1>1, <1>3, <1>5
  <2>2. s.items = new /\ s.count = end
    BY <2>1 DEF Assigned
  <2>3. mid \in [Object -> Int] /\ \A o \in Object : mid[o] = count[o] - One(Is(items[i], o))
    BY <1>1, FreeingAValue
  <2>4. end \in [Object -> Int] /\ \A o \in Object : end[o] = mid[o] + One(Is(v, o))
    BY <2>3, FreeingAValue
  <2>5. new \in Seq(ItemSet) /\ Len(new) = Len(items)
    BY <1>1, <1>5
  <2>6. \A j \in 1 .. Len(items) : new[j].name = items[j].name
    BY <1>1, <1>2, <2>1
  <2>7. DistinctNames(new)
    BY <1>1, <2>5, <2>6 DEF DistinctNames
  <2>8. \A o \in Object : Cardinality(At(new, o)) =
            Cardinality(At(items, o)) - One(Is(items[i], o)) + One(Is(it, o))
    BY <1>1, <1>5, WritingOver
  <2> HIDE DEF new, mid, end, it, items, count, s, i
  <2>9. ASSUME NEW o \in Object PROVE end[o] = base[o] + Cardinality(At(new, o))
    <3>1. /\ end[o] = mid[o] + One(Is(v, o)) /\ mid[o] = count[o] - One(Is(items[i], o))
          /\ count[o] = base[o] + Cardinality(At(items, o))
          /\ Cardinality(At(new, o)) =
                Cardinality(At(items, o)) - One(Is(items[i], o)) + One(Is(v, o))
      BY <1>1, <1>2, <2>3, <2>4, <2>8
    <3>2. One(Is(v, o)) \in Int /\ One(Is(items[i], o)) \in Int
      BY DEF One
    <3> QED
      BY <1>4, <3>1, <3>2
  <2>10. Fits(s, base)
    BY <2>2, <2>4, <2>5, <2>7, <2>9 DEF Fits
  <2> QED
    BY <2>10 DEF s
<1>6. CASE i = Len(items) + 1
  <2> DEFINE new == Append(items, it)
             end == incStrongBy(count, v)
  <2>1. ~(i <= Len(items)) /\ \A j \in 1 .. Len(items) : items[j].name # name
    BY <1>1, <1>3, <1>6
  <2>2. s.items = new /\ s.count = end
    BY <2>1 DEF Assigned
  <2>4. end \in [Object -> Int] /\ \A o \in Object : end[o] = count[o] + One(Is(v, o))
    BY <1>1, FreeingAValue
  <2>5. new \in Seq(ItemSet) /\ Len(new) = Len(items) + 1
    BY <1>1
  <2>6. \A j \in 1 .. Len(items) + 1 : new[j] = IF j = Len(items) + 1 THEN it ELSE items[j]
    BY <1>1
  <2>8. \A o \in Object : Cardinality(At(new, o)) = Cardinality(At(items, o)) + One(Is(it, o))
    BY <1>1, AppendingAnItem
  <2> HIDE DEF new, end, it, items, count, s, i
  <2>7. DistinctNames(new)
    <3> SUFFICES ASSUME NEW j \in 1 .. Len(items) + 1, NEW k \in 1 .. Len(items) + 1,
                        new[j].name = new[k].name
                 PROVE  j = k
      BY <2>5 DEF DistinctNames
    <3>1. \A x \in 1 .. Len(items) + 1 :
             new[x].name = IF x = Len(items) + 1 THEN name ELSE items[x].name
      BY <1>2, <2>6
    <3>2. \A x \in 1 .. Len(items) + 1 : x = Len(items) + 1 \/ x \in 1 .. Len(items)
      BY <1>1
    <3> QED
      <4>1. \A x, y \in 1 .. Len(items) : items[x].name = items[y].name => x = y
        BY <1>1 DEF DistinctNames
      <4>2. CASE j = Len(items) + 1
        BY <2>1, <3>1, <3>2, <4>2
      <4>3. CASE k = Len(items) + 1
        BY <2>1, <3>1, <3>2, <4>3
      <4>4. CASE j # Len(items) + 1 /\ k # Len(items) + 1
        <5>1. j \in 1 .. Len(items) /\ k \in 1 .. Len(items)
          BY <3>2, <4>4
        <5>2. new[j].name = items[j].name /\ new[k].name = items[k].name
          BY <3>1, <4>4
        <5> QED
          BY <4>1, <5>1, <5>2
      <4> QED
        BY <4>2, <4>3, <4>4
  <2>9. ASSUME NEW o \in Object PROVE end[o] = base[o] + Cardinality(At(new, o))
    <3>1. /\ end[o] = count[o] + One(Is(v, o))
          /\ count[o] = base[o] + Cardinality(At(items, o))
          /\ Cardinality(At(new, o)) = Cardinality(At(items, o)) + One(Is(v, o))
      BY <1>1, <1>2, <2>4, <2>8
    <3>2. One(Is(v, o)) \in Int
      BY DEF One
    <3> QED
      BY <1>4, <3>1, <3>2
  <2>10. Fits(s, base)
    BY <2>2, <2>4, <2>5, <2>7, <2>9 DEF Fits
  <2> QED
    BY <2>10 DEF s
<1> HIDE DEF items, i
<1> QED
  BY <1>3, <1>5, <1>6


(* removeEntryAt: the last item takes the place of the removed one. *)
LEMMA RemovingFits ==
    ASSUME NEW items \in Seq(ItemSet), NEW count, NEW base \in [Object -> Int],
           Fits([items |-> items, count |-> count], base), NEW i \in 1 .. Len(items)
    PROVE  Fits([items |-> Front([items EXCEPT ![i] = Last(items)]),
                 count |-> freeItemValue(count, items[i])], base)
<1> DEFINE L == Len(items)
           over == [items EXCEPT ![i] = items[L]]
           new == SubSeq(over, 1, L - 1)
           end == freeItemValue(count, items[i])
<1>1. /\ DistinctNames(items) /\ count \in [Object -> Int] /\ L \in Nat /\ L >= 1
      /\ \A o \in Object : count[o] = base[o] + Cardinality(At(items, o))
  BY DEF Fits
<1>2. Front([items EXCEPT ![i] = Last(items)]) = new
  BY <1>1 DEF Front, Last
<1>3. over \in Seq(ItemSet) /\ Len(over) = L /\ items[L] \in ItemSet
  BY <1>1
<1>4. \A j \in 1 .. L : over[j] = IF j = i THEN items[L] ELSE items[j]
  OBVIOUS
<1> HIDE DEF over
<1>5. new \in Seq(ItemSet) /\ Len(new) = L - 1 /\ \A j \in 1 .. L - 1 : new[j] = over[j]
  BY <1>1, <1>3
<1> HIDE DEF new, end
<1>6. DistinctNames(new)
  <2> SUFFICES ASSUME NEW j \in 1 .. L - 1, NEW k \in 1 .. L - 1,
                      new[j].name = new[k].name
               PROVE  j = k
    BY <1>5 DEF DistinctNames
  <2>1. \A x \in 1 .. L - 1 : new[x] = IF x = i THEN items[L] ELSE items[x]
    BY <1>1, <1>4, <1>5
  <2>2. \A x \in 1 .. L - 1 : x \in 1 .. L /\ x # L
    BY <1>1
  <2>3. L \in 1 .. L
    BY <1>1
  <2> QED
    BY <1>1, <2>1, <2>2, <2>3 DEF DistinctNames
<1>7. end \in [Object -> Int] /\ \A o \in Object : end[o] = count[o] - One(Is(items[i], o))
  BY <1>1, FreeingAValue DEF end
<1>8. ASSUME NEW o \in Object
      PROVE  Cardinality(At(new, o)) = Cardinality(At(items, o)) - One(Is(items[i], o))
  <2>1. /\ IsFiniteSet(At(over, o)) /\ Cardinality(At(over, o)) \in Nat
        /\ Cardinality(At(items, o)) \in Nat
    BY <1>1, <1>3, AtIsFinite DEF At
  <2>2. Cardinality(At(over, o)) =
            Cardinality(At(items, o)) - One(Is(items[i], o)) + One(Is(items[L], o))
    BY <1>3, WritingOver DEF over
  <2>3. L \in At(over, o) <=> Is(items[L], o)
    <3>1. over[L] = items[L] /\ L \in 1 .. L
      BY <1>1, <1>4
    <3> QED
      BY <1>3, <3>1 DEF At, AtTo
  <2>4. At(new, o) = At(over, o) \ {L}
    <3>1. At(new, o) = {j \in 1 .. L - 1 : Is(new[j], o)}
      BY <1>5 DEF At, AtTo
    <3>2. At(over, o) = {j \in 1 .. L : Is(over[j], o)}
      BY <1>3 DEF At, AtTo
    <3>3. \A j : j \in 1 .. L - 1 <=> j \in 1 .. L /\ j # L
      BY <1>1
    <3>4. \A j : j \in At(new, o) <=> j \in 1 .. L - 1 /\ Is(new[j], o)
      BY <3>1
    <3>5. \A j \in 1 .. L - 1 : Is(new[j], o) <=> Is(over[j], o)
      BY <1>5
    <3>6. \A j : j \in At(new, o) <=> j \in At(over, o) \ {L}
      BY <3>2, <3>3, <3>4, <3>5, Zenon
    <3> QED
      BY <3>6
  <2>5. Cardinality(At(over, o) \ {L}) = Cardinality(At(over, o)) - One(Is(items[L], o))
    <3>1. Cardinality(At(over, o) \ {L}) =
              IF L \in At(over, o) THEN Cardinality(At(over, o)) - 1 ELSE Cardinality(At(over, o))
      BY <2>1, FS_RemoveElement
    <3> QED
      BY <2>1, <2>3, <3>1 DEF One
  <2>6. One(Is(items[i], o)) \in Int /\ One(Is(items[L], o)) \in Int
    BY DEF One
  <2> QED
    BY <2>1, <2>2, <2>4, <2>5, <2>6
<1>9. ASSUME NEW o \in Object PROVE end[o] = base[o] + Cardinality(At(new, o))
  <2>1. One(Is(items[i], o)) \in Int /\ Cardinality(At(items, o)) \in Nat
    BY <1>1, AtIsFinite DEF One, At
  <2> QED
    BY <1>1, <1>7, <1>8, <2>1
<1>10. Fits([items |-> new, count |-> end], base)
  BY <1>5, <1>6, <1>7, <1>9 DEF Fits
<1> QED
  BY <1>2, <1>10 DEF end

LEMMA LeastExists ==
    ASSUME NEW I, I \subseteq Nat, I # {}
    PROVE  \E j \in I : \A i \in I : j <= i
<1>1. PICK x \in I : \A y \in I : ~(<<y, x>> \in OpToRel(<, Nat))
  BY NatLessThanWellFounded, WFMin, Zenon
<1>2. \A y \in I : ~(y < x)
  BY <1>1, Zenon DEF OpToRel
<1> QED
  BY <1>2

LEMMA InductionToLength ==
    ASSUME NEW L \in Nat, NEW T, 0 \in T,
           \A n \in 1 .. L : n - 1 \in T => n \in T
    PROVE  \A n \in 0 .. L : n \in T
<1> DEFINE Rest == {n \in 0 .. L : n \notin T}
<1>1. ASSUME Rest # {} PROVE FALSE
  <2>1. Rest \subseteq Nat
    OBVIOUS
  <2> HIDE DEF Rest
  <2>2. PICK x \in Rest : \A y \in Rest : x <= y
    BY <2>1, <1>1, LeastExists, Zenon
  <2> USE DEF Rest
  <2>4. x \in 1 .. L /\ x - 1 \notin Rest
    BY <2>2
  <2> QED
    BY <2>4
<1> QED
  BY <1>1

IsLoop(f, L, S, b, step) ==
    /\ f \in [0 .. L -> S] /\ f[0] = b
    /\ \A n \in 1 .. L : f[n] = step[n][f[n - 1]]

LEMMA LoopExists ==
    ASSUME NEW L \in Nat, NEW S, NEW b \in S, NEW step \in [1 .. L -> [S -> S]]
    PROVE  \E f : IsLoop(f, L, S, b, step)
<1> DEFINE Upto(f, m) == /\ f \in [0 .. m -> S] /\ f[0] = b
                         /\ \A n \in 1 .. m : f[n] = step[n][f[n - 1]]
           T == {m \in 0 .. L : \E f : Upto(f, m)}
<1>1. 0 \in T
  <2> DEFINE g == [n \in 0 .. 0 |-> b]
  <2>1. Upto(g, 0)
    OBVIOUS
  <2> HIDE DEF g, Upto
  <2> QED
    BY <2>1
<1>2. ASSUME NEW m \in 1 .. L, m - 1 \in T PROVE m \in T
  <2>1. PICK f : Upto(f, m - 1)
    BY <1>2
  <2> DEFINE g == [n \in 0 .. m |-> IF n = m THEN step[m][f[m - 1]] ELSE f[n]]
  <2>2. f[m - 1] \in S
    BY <2>1
  <2>3. step[m] \in [S -> S]
    OBVIOUS
  <2>4. step[m][f[m - 1]] \in S
    BY <2>2, <2>3
  <2>5. g \in [0 .. m -> S]
    BY <2>4, <2>1
  <2>6. g[0] = b
    BY <2>1
  <2>7. ASSUME NEW n \in 1 .. m PROVE g[n] = step[n][g[n - 1]]
    BY <2>1
  <2> HIDE DEF g
  <2>8. Upto(g, m)
    BY <2>5, <2>6, <2>7
  <2> HIDE DEF Upto
  <2> QED
    BY <2>8
<1>3. \A m \in 1 .. L : m - 1 \in T => m \in T
  BY <1>2
<1> HIDE DEF T
<1>4. \A n \in 0 .. L : n \in T
  BY <1>1, <1>3, InductionToLength
<1>5. L \in T
  BY <1>4
<1>6. PICK f : Upto(f, L)
  BY <1>5 DEF T
<1>7. IsLoop(f, L, S, b, step)
  BY <1>6 DEF IsLoop
<1> QED
  BY <1>7


(* Up to one item more. *)
LEMMA OneMore ==
    ASSUME NEW items, NEW n \in Nat \ {0}, NEW o
    PROVE  Cardinality(AtTo(items, n, o)) =
               Cardinality(AtTo(items, n - 1, o)) + One(Is(items[n], o))
<1>1. /\ IsFiniteSet(AtTo(items, n - 1, o)) /\ Cardinality(AtTo(items, n - 1, o)) \in Nat
  BY AtIsFinite
<1>2. n \notin AtTo(items, n - 1, o)
  BY DEF AtTo
<1>3. CASE Is(items[n], o)
  <2>1. AtTo(items, n, o) = AtTo(items, n - 1, o) \union {n}
    BY <1>3 DEF AtTo
  <2> QED
    BY <1>1, <1>2, <1>3, <2>1, FS_AddElement DEF One
<1>4. CASE ~Is(items[n], o)
  <2>1. AtTo(items, n, o) = AtTo(items, n - 1, o)
    BY <1>4 DEF AtTo
  <2> QED
    BY <1>1, <1>4, <2>1 DEF One
<1> QED
  BY <1>3, <1>4

LEMMA NoneYet ==
    ASSUME NEW items, NEW o PROVE Cardinality(AtTo(items, 0, o)) = 0
<1>1. AtTo(items, 0, o) = {}
  BY DEF AtTo
<1> QED
  BY <1>1, FS_EmptySet


(* All items freed, one after the other. *)
LEMMA FreedCounts ==
    ASSUME NEW items \in Seq(ItemSet), NEW count \in [Object -> Int]
    PROVE  /\ Freed(count, items) \in [Object -> Int]
           /\ \A o \in Object :
                 Freed(count, items)[o] = count[o] - Cardinality(At(items, o))
<1> DEFINE L == Len(items)
           S == [Object -> Int]
           step == [n \in 1 .. L |-> [c \in S |-> freeItemValue(c, items[n])]]
           rounds(f) == [n \in 0 .. L |-> IF n = 0 THEN count ELSE freeItemValue(f[n - 1], items[n])]
           after == CHOOSE f : f = rounds(f)
<1>1. L \in Nat
  OBVIOUS
<1>2. \E f : f = rounds(f)
  <2>1. step \in [1 .. L -> [S -> S]] /\ count \in S
    BY FreeingAValue
  <2> HIDE DEF step
  <2>2. PICK f : IsLoop(f, L, S, count, step)
    BY <2>1, <1>1, LoopExists
  <2> USE DEF IsLoop
  <2>3. ASSUME NEW n \in 1 .. L PROVE f[n] = freeItemValue(f[n - 1], items[n])
    <3>1. f[n - 1] \in S
      <4>1. n - 1 \in 0 .. L
        BY <1>1
      <4>2. f \in [0 .. L -> S]
        BY <2>2, Zenon
      <4> HIDE DEF L, S
      <4> QED
        BY <4>1, <4>2
    <3>2. step[n] = [c \in S |-> freeItemValue(c, items[n])]
      BY DEF step
    <3>3. step[n][f[n - 1]] = freeItemValue(f[n - 1], items[n])
      BY <3>1, <3>2, Zenon
    <3>4. f[n] = step[n][f[n - 1]]
      BY <2>2, Zenon
    <3> QED
      BY <3>3, <3>4
  <2>4. ASSUME NEW n \in 0 .. L PROVE f[n] = rounds(f)[n]
    <3>1. CASE n = 0
      BY <3>1, <2>2
    <3>2. CASE n # 0
      BY <3>2, <2>3, <1>1
    <3> QED
      BY <3>1, <3>2
  <2>5. f = [n \in 0 .. L |-> f[n]] /\ rounds(f) = [n \in 0 .. L |-> rounds(f)[n]]
    BY <2>2
  <2>6. f = rounds(f)
    BY <2>4, <2>5, Zenon
  <2> QED
    BY <2>6
<1>3. after = rounds(after)
  BY <1>2
<1>4. Freed(count, items) = after[L]
  BY DEF Freed
<1> HIDE DEF after
<1>5. after[0] = count /\ \A n \in 1 .. L : after[n] = freeItemValue(after[n - 1], items[n])
  <2>1. \A n \in 0 .. L : after[n] = rounds(after)[n]
    BY <1>3
  <2> QED
    BY <2>1, <1>1
<1> DEFINE Right(n) == /\ after[n] \in S
                       /\ \A o \in Object :
                             after[n][o] = count[o] - Cardinality(AtTo(items, n, o))
           T == {n \in 0 .. L : Right(n)}
<1>6. Right(0)
  BY <1>5, NoneYet
<1>7. ASSUME NEW n \in 1 .. L, Right(n - 1) PROVE Right(n)
  <2>1. after[n - 1] \in [Object -> Int] /\ after[n] = freeItemValue(after[n - 1], items[n])
    BY <1>5, <1>7
  <2>2. /\ after[n] \in [Object -> Int]
        /\ \A o \in Object : after[n][o] = after[n - 1][o] - One(Is(items[n], o))
    BY <2>1, FreeingAValue
  <2>3. ASSUME NEW o \in Object
        PROVE  after[n][o] = count[o] - Cardinality(AtTo(items, n, o))
    <3>1. Cardinality(AtTo(items, n, o)) =
              Cardinality(AtTo(items, n - 1, o)) + One(Is(items[n], o))
      BY <1>1, OneMore
    <3>2. after[n - 1][o] = count[o] - Cardinality(AtTo(items, n - 1, o))
      BY <1>7
    <3>3. One(Is(items[n], o)) \in Int /\ n - 1 \in Nat
      BY <1>1 DEF One
    <3>4. Cardinality(AtTo(items, n - 1, o)) \in Nat
      BY <3>3, AtIsFinite
    <3> QED
      BY <2>2, <3>1, <3>2, <3>3, <3>4
  <2> QED
    BY <2>2, <2>3
<1>8. 0 \in T /\ \A n \in 1 .. L : n - 1 \in T => n \in T
  <2> HIDE DEF Right
  <2> QED
    BY <1>6, <1>7, <1>1
<1> HIDE DEF T
<1>9. \A n \in 0 .. L : n \in T
  BY <1>8, <1>1, InductionToLength
<1>10. L \in T
  BY <1>9, <1>1
<1> QED
  BY <1>10, <1>4 DEF T, At

(* All items of a copy take a reference. *)
LEMMA TakenCounts ==
    ASSUME NEW items \in Seq(ItemSet), NEW count \in [Object -> Int]
    PROVE  /\ TakenAgain(count, items) \in [Object -> Int]
           /\ \A o \in Object :
                 TakenAgain(count, items)[o] = count[o] + Cardinality(At(items, o))
<1> DEFINE L == Len(items)
           S == [Object -> Int]
           step == [n \in 1 .. L |-> [c \in S |-> incStrongBy(c, items[n])]]
           rounds(f) == [n \in 0 .. L |-> IF n = 0 THEN count ELSE incStrongBy(f[n - 1], items[n])]
           after == CHOOSE f : f = rounds(f)
<1>1. L \in Nat
  OBVIOUS
<1>2. \E f : f = rounds(f)
  <2>1. step \in [1 .. L -> [S -> S]] /\ count \in S
    BY FreeingAValue
  <2> HIDE DEF step
  <2>2. PICK f : IsLoop(f, L, S, count, step)
    BY <2>1, <1>1, LoopExists
  <2> USE DEF IsLoop
  <2>3. ASSUME NEW n \in 1 .. L PROVE f[n] = incStrongBy(f[n - 1], items[n])
    <3>1. f[n - 1] \in S
      <4>1. n - 1 \in 0 .. L
        BY <1>1
      <4>2. f \in [0 .. L -> S]
        BY <2>2, Zenon
      <4> HIDE DEF L, S
      <4> QED
        BY <4>1, <4>2
    <3>2. step[n] = [c \in S |-> incStrongBy(c, items[n])]
      BY DEF step
    <3>3. step[n][f[n - 1]] = incStrongBy(f[n - 1], items[n])
      BY <3>1, <3>2, Zenon
    <3>4. f[n] = step[n][f[n - 1]]
      BY <2>2, Zenon
    <3> QED
      BY <3>3, <3>4
  <2>4. ASSUME NEW n \in 0 .. L PROVE f[n] = rounds(f)[n]
    <3>1. CASE n = 0
      BY <3>1, <2>2
    <3>2. CASE n # 0
      BY <3>2, <2>3, <1>1
    <3> QED
      BY <3>1, <3>2
  <2>5. f = [n \in 0 .. L |-> f[n]] /\ rounds(f) = [n \in 0 .. L |-> rounds(f)[n]]
    BY <2>2
  <2>6. f = rounds(f)
    BY <2>4, <2>5, Zenon
  <2> QED
    BY <2>6
<1>3. after = rounds(after)
  BY <1>2
<1>4. TakenAgain(count, items) = after[L]
  BY DEF TakenAgain
<1> HIDE DEF after
<1>5. after[0] = count /\ \A n \in 1 .. L : after[n] = incStrongBy(after[n - 1], items[n])
  <2>1. \A n \in 0 .. L : after[n] = rounds(after)[n]
    BY <1>3
  <2> QED
    BY <2>1, <1>1
<1> DEFINE Right(n) == /\ after[n] \in S
                       /\ \A o \in Object :
                             after[n][o] = count[o] + Cardinality(AtTo(items, n, o))
           T == {n \in 0 .. L : Right(n)}
<1>6. Right(0)
  BY <1>5, NoneYet
<1>7. ASSUME NEW n \in 1 .. L, Right(n - 1) PROVE Right(n)
  <2>1. after[n - 1] \in [Object -> Int] /\ after[n] = incStrongBy(after[n - 1], items[n])
    BY <1>5, <1>7
  <2>2. /\ after[n] \in [Object -> Int]
        /\ \A o \in Object : after[n][o] = after[n - 1][o] + One(Is(items[n], o))
    BY <2>1, FreeingAValue
  <2>3. ASSUME NEW o \in Object
        PROVE  after[n][o] = count[o] + Cardinality(AtTo(items, n, o))
    <3>1. Cardinality(AtTo(items, n, o)) =
              Cardinality(AtTo(items, n - 1, o)) + One(Is(items[n], o))
      BY <1>1, OneMore
    <3>2. after[n - 1][o] = count[o] + Cardinality(AtTo(items, n - 1, o))
      BY <1>7
    <3>3. One(Is(items[n], o)) \in Int /\ n - 1 \in Nat
      BY <1>1 DEF One
    <3>4. Cardinality(AtTo(items, n - 1, o)) \in Nat
      BY <3>3, AtIsFinite
    <3> QED
      BY <2>2, <3>1, <3>2, <3>3, <3>4
  <2> QED
    BY <2>2, <2>3
<1>8. 0 \in T /\ \A n \in 1 .. L : n - 1 \in T => n \in T
  <2> HIDE DEF Right
  <2> QED
    BY <1>6, <1>7, <1>1
<1> HIDE DEF T
<1>9. \A n \in 0 .. L : n \in T
  BY <1>8, <1>1, InductionToLength
<1>10. L \in T
  BY <1>9, <1>1
<1> QED
  BY <1>10, <1>4 DEF T, At

(* All items of one table set in another. *)
LEMMA MergedFits ==
    ASSUME NEW items \in Seq(ItemSet), NEW base \in [Object -> Int],
           NEW t \in [items : Seq(ItemSet), count : [Object -> Int]], Fits(t, base)
    PROVE  Fits(Merged(t, items), base)
<1> DEFINE L == Len(items)
           S == {u \in [items : Seq(ItemSet), count : [Object -> Int]] : Fits(u, base)}
           set(u, n) == Assigned(u, items[n].name, items[n])
           step == [n \in 1 .. L |-> [u \in S |-> set(u, n)]]
           rounds(f) == [n \in 0 .. L |-> IF n = 0 THEN t ELSE set(f[n - 1], n)]
           after == CHOOSE f : f = rounds(f)
<1>1. L \in Nat
  OBVIOUS
<1>2. ASSUME NEW n \in 1 .. L, NEW u \in S PROVE set(u, n) \in S
  <2>1. items[n] \in ItemSet
    OBVIOUS
  <2>2. items[n].name \in ItemName /\ Item(items[n].name, items[n]) \in ItemSet
    BY <2>1 DEF Item, ItemSet
  <2>3. Fits(set(u, n), base)
    BY <2>2, AssignedFits
  <2>4. set(u, n) = [items |-> set(u, n).items, count |-> set(u, n).count]
    BY DEF Assigned
  <2> QED
    BY <2>3, <2>4 DEF Fits
<1>3. step \in [1 .. L -> [S -> S]] /\ t \in S
  BY <1>2
<1>4. PICK f : IsLoop(f, L, S, t, step)
  <2> HIDE DEF step, S
  <2> QED
    BY <1>3, <1>1, LoopExists
<1> USE DEF IsLoop
<1>5. ASSUME NEW n \in 1 .. L PROVE f[n] = set(f[n - 1], n)
  <2> HIDE DEF S, set, step
  <2>0. f \in [0 .. L -> S] /\ n - 1 \in 0 .. L
    BY <1>4, <1>1
  <2>1. f[n - 1] \in S
    BY <2>0, Zenon
  <2>2. step[n] = [u \in S |-> set(u, n)]
    BY DEF step
  <2>3. step[n][f[n - 1]] = set(f[n - 1], n)
    BY <2>1, <2>2, Zenon
  <2>4. f[n] = step[n][f[n - 1]]
    BY <1>4, Zenon
  <2> QED
    BY <2>3, <2>4
<1> HIDE DEF step, S, set
<1>6. ASSUME NEW n \in 0 .. L PROVE f[n] = rounds(f)[n]
  <2>1. CASE n = 0
    BY <2>1, <1>4
  <2>2. CASE n # 0
    BY <2>2, <1>5, <1>1
  <2> QED
    BY <2>1, <2>2
<1>7. f = [n \in 0 .. L |-> f[n]] /\ rounds(f) = [n \in 0 .. L |-> rounds(f)[n]]
  BY <1>4
<1>8. f = rounds(f)
  BY <1>6, <1>7, Zenon
<1>9. \E g : g = rounds(g)
  BY <1>8
<1>10. after = rounds(after)
  BY <1>9
<1>11. Merged(t, items) = after[L]
  BY DEF Merged, set
<1> HIDE DEF after
<1>12. after[0] = t /\ \A n \in 1 .. L : after[n] = set(after[n - 1], n)
  <2>1. \A n \in 0 .. L : after[n] = rounds(after)[n]
    BY <1>10
  <2> QED
    BY <2>1, <1>1
<1> DEFINE T == {n \in 0 .. L : after[n] \in S}
<1>13. 0 \in T /\ \A n \in 1 .. L : n - 1 \in T => n \in T
  BY <1>1, <1>2, <1>3, <1>12
<1> HIDE DEF T
<1>14. \A n \in 0 .. L : n \in T
  BY <1>13, <1>1, InductionToLength
<1>15. L \in T
  BY <1>14, <1>1
<1> QED
  BY <1>11, <1>15 DEF T, S


(* The references to an object are those of one message and of the others.  *)
LEMMA OneMessage ==
    ASSUME NEW tables \in [Msg -> Seq(ItemSet)], NEW m \in Msg, NEW o
    PROVE  /\ HoldingIn(tables, o) = OfOthers(tables, m, o) \union OfMessage(tables, m, o)
           /\ OfOthers(tables, m, o) \intersect OfMessage(tables, m, o) = {}
           /\ IsFiniteSet(OfMessage(tables, m, o))
           /\ Cardinality(OfMessage(tables, m, o)) = Cardinality(At(tables[m], o))
<1> DEFINE A == At(tables[m], o)
           B == OfMessage(tables, m, o)
           f == [i \in A |-> <<m, i>>]
<1>1. \A n \in Msg : DOMAIN tables[n] = 1 .. Len(tables[n]) /\ Len(tables[n]) \in Nat
  OBVIOUS
<1>2. ASSUME NEW p
      PROVE  p \in HoldingIn(tables, o) <=>
                 \E n \in Msg : \E i \in At(tables[n], o) : p = <<n, i>>
  BY <1>1 DEF HoldingIn, At, AtTo
<1>3. HoldingIn(tables, o) = OfOthers(tables, m, o) \union B
  BY <1>2 DEF OfOthers, OfMessage
<1>4. OfOthers(tables, m, o) \intersect B = {}
  BY DEF OfOthers, OfMessage
<1>5. f \in Bijection(A, B)
  <2>1. f \in [A -> B]
    BY DEF OfMessage
  <2>2. \A i, j \in A : f[i] = f[j] => i = j
    OBVIOUS
  <2>3. \A b \in B : \E i \in A : f[i] = b
    BY DEF OfMessage
  <2> HIDE DEF f, A, B
  <2> QED
    BY <2>1, <2>2, <2>3 DEF Bijection, Injection, Surjection, IsInjective
<1>6. IsFiniteSet(A)
  BY <1>1, AtIsFinite DEF At
<1>7. IsFiniteSet(B) /\ Cardinality(B) = Cardinality(A)
  <2> HIDE DEF f, A, B
  <2> QED
    BY <1>5, <1>6, FS_Bijection DEF ExistsBijection
<1> QED
  BY <1>3, <1>4, <1>7

LEMMA TableFits ==
    ASSUME MessageInv, NEW m \in Msg
    PROVE  /\ Base(m) \in [Object -> Int] /\ Fits(Table(m), Base(m))
           /\ Table(m) \in [items : Seq(ItemSet), count : [Object -> Int]]
           /\ mItems[m] \in Seq(ItemSet) /\ DOMAIN mItems[m] = 1 .. Len(mItems[m])
<1>1. /\ mItems[m] \in Seq(ItemSet) /\ refCount \in [Object -> Int]
      /\ DistinctNames(mItems[m]) /\ Len(mItems[m]) \in Nat
  BY DEF MessageInv
<1>2. \A o : Cardinality(At(mItems[m], o)) \in Nat
  BY <1>1, AtIsFinite DEF At
<1> QED
  BY <1>1, <1>2 DEF Base, Fits, Table

(* A message is given a table that fits: the counts stay those of the items. *)
LEMMA TableChanges ==
    ASSUME MessageInv, NEW m \in Msg, NEW t, Fits(t, Base(m)), Becomes(m, t)
    PROVE  MessageInv'
<1>1. /\ mItems \in [Msg -> Seq(ItemSet)] /\ refCount \in [Object -> Int]
      /\ \A n \in Msg : DistinctNames(mItems[n])
      /\ \A o \in Object : IsFiniteSet(Holding(o)) /\ refCount[o] = Cardinality(Holding(o))
  BY DEF MessageInv
<1>2. /\ mItems' = [mItems EXCEPT ![m] = t.items] /\ refCount' = t.count
      /\ t.items \in Seq(ItemSet) /\ t.count \in [Object -> Int] /\ DistinctNames(t.items)
      /\ \A o \in Object : t.count[o] = Base(m)[o] + Cardinality(At(t.items, o))
  BY DEF Becomes, Fits
<1>3. mItems' \in [Msg -> Seq(ItemSet)] /\ mItems'[m] = t.items
  BY <1>1, <1>2
<1>4. \A n \in Msg : n # m => mItems'[n] = mItems[n]
  BY <1>1, <1>2
<1>5. \A n \in Msg : DistinctNames(mItems'[n])
  BY <1>1, <1>2, <1>3, <1>4
<1>6. ASSUME NEW o \in Object
      PROVE  IsFiniteSet(HoldingIn(mItems', o))
             /\ refCount'[o] = Cardinality(HoldingIn(mItems', o))
  <2> DEFINE others == OfOthers(mItems, m, o)
             old == OfMessage(mItems, m, o)
             new == OfMessage(mItems', m, o)
  <2>1. OfOthers(mItems', m, o) = others
    BY <1>4 DEF OfOthers, HoldingIn
  <2>2. /\ HoldingIn(mItems, o) = others \union old /\ others \intersect old = {}
        /\ IsFiniteSet(old) /\ Cardinality(old) = Cardinality(At(mItems[m], o))
    BY <1>1, OneMessage
  <2>3. /\ HoldingIn(mItems', o) = others \union new /\ others \intersect new = {}
        /\ IsFiniteSet(new) /\ Cardinality(new) = Cardinality(At(t.items, o))
    BY <1>3, <2>1, OneMessage
  <2> HIDE DEF old, new
  <2>4. IsFiniteSet(others)
    BY <1>1, FS_Subset DEF OfOthers, Holding
  <2> HIDE DEF others
  <2>5. /\ Cardinality(others) \in Nat /\ Cardinality(old) \in Nat /\ Cardinality(new) \in Nat
    BY <2>2, <2>3, <2>4, FS_CardinalityType
  <2>6. Cardinality(HoldingIn(mItems, o)) = Cardinality(others) + Cardinality(old)
    BY <2>2, <2>4, <2>5, FS_Union, FS_EmptySet
  <2>7. /\ IsFiniteSet(HoldingIn(mItems', o))
        /\ Cardinality(HoldingIn(mItems', o)) = Cardinality(others) + Cardinality(new)
    BY <2>3, <2>4, <2>5, FS_Union, FS_EmptySet
  <2>8. refCount[o] = Cardinality(others) + Cardinality(old)
    BY <1>1, <2>6 DEF Holding
  <2>9. refCount'[o] = refCount[o] - Cardinality(old) + Cardinality(new)
    BY <1>2, <2>2, <2>3 DEF Base
  <2> QED
    BY <2>5, <2>7, <2>8, <2>9
<1> QED
  BY <1>2, <1>3, <1>5, <1>6 DEF MessageInv, Holding

LEMMA SetKeeps ==
    ASSUME MessageInv, NEW m \in Msg, NEW name \in ItemName, NEW v,
           Item(name, v) \in ItemSet, Becomes(m, Assigned(Table(m), name, v))
    PROVE  MessageInv'
<1>1. Fits(Assigned(Table(m), name, v), Base(m))
  BY TableFits, AssignedFits
<1> QED
  BY <1>1, TableChanges

LEMMA MessageInit_Inv == MessageInit => MessageInv
<1> SUFFICES ASSUME MessageInit PROVE MessageInv
  OBVIOUS
<1>1. \A m \in Msg : mItems[m] = <<>> /\ DOMAIN mItems[m] = {}
  BY DEF MessageInit
<1>2. \A o \in Object : Holding(o) = {}
  BY <1>1 DEF Holding, HoldingIn
<1>3. mItems \in [Msg -> Seq(ItemSet)] /\ refCount \in [Object -> Int]
  BY DEF MessageInit
<1>4. \A m \in Msg : DistinctNames(mItems[m])
  BY <1>1 DEF DistinctNames
<1>5. \A o \in Object : refCount[o] = 0
  BY DEF MessageInit
<1> QED
  BY <1>2, <1>3, <1>4, <1>5, FS_EmptySet DEF MessageInv

LEMMA MessageNext_Inv == MessageInv /\ [MessageNext]_messagevars => MessageInv'
<1> SUFFICES ASSUME MessageInv, [MessageNext]_messagevars PROVE MessageInv'
  OBVIOUS
<1>1. ASSUME NEW m \in Msg, NEW name \in ItemName, NEW v \in Values,
             Set(m, name, v) \/ setObjectInternal(m, name, v)
      PROVE  MessageInv'
  <2>1. Item(name, v) \in ItemSet
    BY DEF Item, Values, ItemSet
  <2> QED
    BY <1>1, <2>1, SetKeeps DEF Set, setObjectInternal
<1>2. ASSUME NEW m \in Msg, clear(m) PROVE MessageInv'
  <2> DEFINE items == mItems[m]
             t == [items |-> <<>>, count |-> Freed(refCount, items)]
  <2>1. items \in Seq(ItemSet) /\ refCount \in [Object -> Int]
    BY TableFits DEF MessageInv
  <2>2. /\ t.count \in [Object -> Int]
        /\ \A o \in Object : t.count[o] = refCount[o] - Cardinality(At(items, o))
    BY <2>1, FreedCounts
  <2>3. \A o : Cardinality(At(<<>>, o)) = 0
    BY NoneYet DEF At
  <2>4. <<>> \in Seq(ItemSet) /\ DistinctNames(<<>>)
    BY DEF DistinctNames
  <2>5. \A o \in Object : Base(m)[o] = refCount[o] - Cardinality(At(items, o))
    BY DEF Base
  <2>6. \A o \in Object : Base(m)[o] \in Int
    BY TableFits
  <2>7. Fits(t, Base(m))
    BY <2>2, <2>3, <2>4, <2>5, <2>6 DEF Fits
  <2> QED
    BY <1>2, <2>7, TableChanges DEF clear
<1>3. ASSUME NEW m \in Msg, senderAwaitsResponse(m) PROVE MessageInv'
  <2> DEFINE v == [type |-> "object", value |-> NoObject]
  <2>1. Item(ReplyID, v) \in ItemSet /\ ReplyID \in ItemName
    BY MessageAssumption DEF Item, ItemSet
  <2>2. Becomes(m, Assigned(Table(m), ReplyID, v))
    BY <1>3 DEF senderAwaitsResponse
  <2> HIDE DEF v
  <2> QED
    BY <2>1, <2>2, SetKeeps
<1>4. ASSUME NEW m \in Msg, NEW copy \in Msg, dup(m, copy) PROVE MessageInv'
  <2> DEFINE items == mItems[m]
             t == [items |-> items, count |-> TakenAgain(refCount, items)]
  <2>1. items \in Seq(ItemSet) /\ refCount \in [Object -> Int] /\ DistinctNames(items)
    BY TableFits DEF MessageInv
  <2>2. /\ t.count \in [Object -> Int]
        /\ \A o \in Object : t.count[o] = refCount[o] + Cardinality(At(items, o))
    BY <2>1, TakenCounts
  <2>3. mItems[copy] = <<>>
    BY <1>4 DEF dup
  <2>4. \A o \in Object : Cardinality(At(mItems[copy], o)) = 0
    BY <2>3, NoneYet DEF At
  <2>5. \A o \in Object : Base(copy)[o] = refCount[o]
    BY <2>1, <2>4 DEF Base
  <2>6. Fits(t, Base(copy))
    BY <2>1, <2>2, <2>5 DEF Fits
  <2>7. Becomes(copy, t)
    BY <1>4 DEF dup
  <2> HIDE DEF t
  <2> QED
    BY <2>6, <2>7, TableChanges
<1>5. ASSUME NEW m \in Msg, NEW other \in Msg, extend(m, other) PROVE MessageInv'
  <2>1. Fits(Merged(Table(m), mItems[other]), Base(m))
    BY TableFits, MergedFits
  <2> QED
    BY <1>5, <2>1, TableChanges DEF extend
<1>6. ASSUME NEW m \in Msg, NEW i, NEW name \in ItemName, setEntryNameAt(m, i, name)
      PROVE  MessageInv'
  <2> DEFINE items == mItems[m]
             it == [items[i] EXCEPT !.name = name]
             new == [items EXCEPT ![i] = it]
             t == [items |-> new, count |-> refCount]
  <2>1. /\ items \in Seq(ItemSet) /\ refCount \in [Object -> Int] /\ DistinctNames(items)
        /\ i \in 1 .. Len(items) /\ name \notin Names(items)
        /\ DOMAIN items = 1 .. Len(items) /\ items[i] \in ItemSet
    BY <1>6, TableFits DEF MessageInv, setEntryNameAt
  <2>2. mItems' = [mItems EXCEPT ![m] = new] /\ refCount' = refCount
    BY <1>6, <2>1 DEF setEntryNameAt
  <2>3. it \in ItemSet /\ it.name = name /\ \A o : Is(it, o) <=> Is(items[i], o)
    BY <2>1 DEF ItemSet, Is, Refers
  <2>4. \A j \in 1 .. Len(items) : new[j] = IF j = i THEN it ELSE items[j]
    BY <2>1
  <2> HIDE DEF it
  <2>5. /\ new \in Seq(ItemSet) /\ Len(new) = Len(items)
        /\ \A o : Cardinality(At(new, o)) =
               Cardinality(At(items, o)) - One(Is(items[i], o)) + One(Is(it, o))
    BY <2>1, <2>3, WritingOver
  <2> HIDE DEF new
  <2>6. DistinctNames(new)
    <3>1. \A j \in 1 .. Len(items) : items[j].name # name
      BY <2>1 DEF Names
    <3>2. \A j \in 1 .. Len(items) : new[j].name = IF j = i THEN name ELSE items[j].name
      BY <2>3, <2>4
    <3> QED
      BY <2>1, <2>5, <3>1, <3>2 DEF DistinctNames
  <2>7. ASSUME NEW o \in Object PROVE Cardinality(At(new, o)) = Cardinality(At(items, o))
    <3>1. Cardinality(At(items, o)) \in Nat
      BY <2>1, AtIsFinite DEF At
    <3>2. One(Is(it, o)) = One(Is(items[i], o)) /\ One(Is(it, o)) \in Int
      BY <2>3 DEF One
    <3> QED
      BY <2>5, <3>1, <3>2
  <2>8. \A o \in Object : refCount[o] = Base(m)[o] + Cardinality(At(new, o))
    BY <2>7, TableFits DEF Fits, Table
  <2>9. Fits(t, Base(m))
    BY <2>1, <2>5, <2>6, <2>8 DEF Fits
  <2>10. Becomes(m, t)
    BY <2>2 DEF Becomes
  <2> HIDE DEF t
  <2> QED
    BY <2>9, <2>10, TableChanges
<1>7. ASSUME NEW m \in Msg, NEW i, NEW v \in Values, setEntryAt(m, i, v) PROVE MessageInv'
  <2>1. i \in DOMAIN mItems[m] /\ Becomes(m, Assigned(Table(m), mItems[m][i].name, v))
    BY <1>7 DEF setEntryAt
  <2>2. mItems[m][i] \in ItemSet
    BY <2>1, TableFits
  <2>3. mItems[m][i].name \in ItemName /\ Item(mItems[m][i].name, v) \in ItemSet
    BY <2>2 DEF Item, Values, ItemSet
  <2> QED
    BY <2>1, <2>3, SetKeeps
<1>8. ASSUME NEW m \in Msg, NEW i, removeEntryAt(m, i) PROVE MessageInv'
  <2> DEFINE items == mItems[m]
             t == [items |-> Front([items EXCEPT ![i] = Last(items)]),
                   count |-> freeItemValue(refCount, items[i])]
  <2>1. /\ items \in Seq(ItemSet) /\ i \in 1 .. Len(items) /\ Base(m) \in [Object -> Int]
        /\ Fits([items |-> items, count |-> refCount], Base(m))
    BY <1>8, TableFits DEF removeEntryAt, Table
  <2>2. Fits(t, Base(m))
    BY <2>1, RemovingFits
  <2>3. Becomes(m, t)
    BY <1>8 DEF removeEntryAt
  <2> HIDE DEF t
  <2> QED
    BY <2>2, <2>3, TableChanges
<1>9. CASE UNCHANGED messagevars
  <2>1. mItems' = mItems /\ refCount' = refCount
    BY <1>9 DEF messagevars
  <2>2. \A o : Holding(o)' = Holding(o)
    BY <2>1 DEF Holding, HoldingIn
  <2> QED
    BY <2>1, <2>2 DEF MessageInv
<1> QED
  BY <1>1, <1>2, <1>3, <1>4, <1>5, <1>6, <1>7, <1>8, <1>9 DEF MessageNext

(* Whatever is set, renamed, removed, copied and merged in any number of    *)
(* messages, the count of an object is the number of the items that refer   *)
(* to it, so that it lives as long as one of them does and no longer; and   *)
(* no message has two items of one name.                                    *)
THEOREM ItemsHoldObjects == MessageSpec => []ItemsHoldTheirObjects
<1>1. MessageInv => ItemsHoldTheirObjects
  <2> SUFFICES ASSUME MessageInv PROVE ItemsHoldTheirObjects
    OBVIOUS
  <2>1. \A o \in Object : refCount[o] = Cardinality(Holding(o))
    BY DEF MessageInv
  <2>2. \A m \in Msg : DOMAIN mItems[m] = 1 .. Len(mItems[m]) /\ DistinctNames(mItems[m])
    BY DEF MessageInv
  <2>3. \A m \in Msg : IsInjective([i \in DOMAIN mItems[m] |-> mItems[m][i].name])
    BY <2>2 DEF IsInjective, DistinctNames
  <2> QED
    BY <2>1, <2>3 DEF ItemsHoldTheirObjects, Holding, HoldingIn, Is
<1> QED
  BY <1>1, MessageInit_Inv, MessageNext_Inv, PTL DEF MessageSpec

-----------------------------------------------------------------------------
(* EventLooper.                                                            *)

(* The queue is in order, without two messages that are the same.          *)
Sorted(q) == \A i, j \in DOMAIN q : i < j => Before(q[i], q[j])

(* A set of positions has a first one.                                     *)
LEMMA FirstOf ==
    ASSUME NEW S \in SUBSET Nat, S # {}
    PROVE  \E i \in S : \A j \in S : i <= j
<1> DEFINE R == OpToRel(<, Nat)
<1>1. IsWellFoundedOn(R, Nat)
  BY NatLessThanWellFounded
<1>2. \A i, j \in Nat : <<i, j>> \in R <=> i < j
  BY DEF OpToRel
<1> HIDE DEF R
<1>3. S \subseteq Nat /\ S # {}
  OBVIOUS
<1>4. \E i \in S : \A j \in S : ~ (<<j, i>> \in R)
  BY <1>1, <1>3, WFMin
<1> QED
  <2>1. PICK i \in S : \A j \in S : ~ (<<j, i>> \in R)
    BY <1>4
  <2>2. \A j \in S : i \in Nat /\ j \in Nat /\ ~(j < i)
    BY <1>2, <1>3, <2>1
  <2>3. \A j \in S : i <= j
    BY <2>2
  <2> QED
    BY <2>3

LEMMA InsertedAt ==
    ASSUME NEW T, NEW s \in Seq(T), NEW e \in T, NEW i \in 1 .. Len(s) + 1
    PROVE  /\ InsertAt(s, i, e) \in Seq(T)
           /\ Len(InsertAt(s, i, e)) = Len(s) + 1
           /\ \A j \in 1 .. Len(s) + 1 :
                 InsertAt(s, i, e)[j] = IF j < i THEN s[j] ELSE IF j = i THEN e ELSE s[j - 1]
<1> DEFINE a == SubSeq(s, 1, i - 1)
           b == SubSeq(s, i, Len(s))
<1>1. Len(s) \in Nat /\ i \in Int
  OBVIOUS
<1>2. /\ a \in Seq(T) /\ Len(a) = i - 1
      /\ \A j \in 1 .. i - 1 : a[j] = s[j]
  BY <1>1
<1>3. /\ b \in Seq(T) /\ Len(b) = Len(s) - i + 1
      /\ \A j \in 1 .. Len(s) - i + 1 : b[j] = s[j + i - 1]
  BY <1>1
<1>4. InsertAt(s, i, e) = (a \o <<e>>) \o b
  BY DEF InsertAt
<1> HIDE DEF a, b
<1>5. /\ a \o <<e>> \in Seq(T) /\ Len(a \o <<e>>) = i
      /\ \A j \in 1 .. i : (a \o <<e>>)[j] = IF j < i THEN s[j] ELSE e
  BY <1>1, <1>2
<1>6. /\ (a \o <<e>>) \o b \in Seq(T) /\ Len((a \o <<e>>) \o b) = Len(s) + 1
      /\ \A j \in 1 .. Len(s) + 1 :
            ((a \o <<e>>) \o b)[j] = IF j <= i THEN (a \o <<e>>)[j] ELSE b[j - i]
  BY <1>1, <1>3, <1>5
<1>7. ASSUME NEW j \in 1 .. Len(s) + 1
      PROVE  InsertAt(s, i, e)[j] = IF j < i THEN s[j] ELSE IF j = i THEN e ELSE s[j - 1]
  <2>1. CASE j <= i
    BY <1>1, <1>4, <1>5, <1>6, <2>1
  <2>2. CASE j > i
    <3>1. j - i \in 1 .. Len(s) - i + 1 /\ (j - i) + i - 1 = j - 1
      BY <1>1, <2>2
    <3>2. b[j - i] = s[j - 1]
      BY <1>3, <3>1
    <3> QED
      BY <1>1, <1>4, <1>6, <2>2, <3>2
  <2> QED
    BY <1>1, <2>1, <2>2
<1> QED
  BY <1>4, <1>6, <1>7

(* A message goes behind those that are due no later, and so comes into    *)
(* its place when it is the last that was posted.                          *)
LEMMA Placed ==
    ASSUME queue \in Seq(Events), Sorted(queue), NEW e \in Events,
           \A i \in DOMAIN queue : queue[i].id < e.id
    PROVE  /\ InsertAt(queue, Place(e), e) \in Seq(Events)
           /\ Sorted(InsertAt(queue, Place(e), e))
           /\ \A j \in DOMAIN InsertAt(queue, Place(e), e) :
                 \/ InsertAt(queue, Place(e), e)[j] = e
                 \/ \E i \in DOMAIN queue : InsertAt(queue, Place(e), e)[j] = queue[i]
<1> DEFINE p == Place(e)
           n == Len(queue)
           q == InsertAt(queue, p, e)
           Late == {i \in DOMAIN queue : queue[i].when > e.when}
<1>1. /\ n \in Nat /\ DOMAIN queue = 1 .. n
      /\ \A i \in 1 .. n : queue[i] \in Events
      /\ \A i \in 1 .. n : queue[i].when \in Int /\ queue[i].id \in Int
      /\ e.when \in Int /\ e.id \in Int
  <2>1. n \in Nat /\ DOMAIN queue = 1 .. n /\ \A i \in 1 .. n : queue[i] \in Events
    OBVIOUS
  <2>2. \A f \in Events : f.when \in Int /\ f.id \in Int
    BY ConstantAssumption DEF Events
  <2> QED
    BY <2>1, <2>2
<1>2. /\ p \in 1 .. n + 1
      /\ \A i \in 1 .. p - 1 : queue[i].when <= e.when
      /\ p \in 1 .. n => queue[p].when > e.when
  <2>1. CASE Late = {}
    <3>1. p = n + 1
      BY <2>1 DEF Place
    <3>2. \A i \in 1 .. n : ~(queue[i].when > e.when)
      BY <1>1, <2>1
    <3> HIDE DEF p, n
    <3> QED
      BY <1>1, <3>1, <3>2
  <2>2. CASE Late # {}
    <3>1. Late \in SUBSET Nat
      BY <1>1
    <3>2. PICK k \in Late : \A j \in Late : k <= j
      BY <2>2, <3>1, FirstOf
    <3>3. /\ k \in DOMAIN queue /\ queue[k].when > e.when
          /\ \A j \in 1 .. k - 1 : queue[j].when <= e.when
      <4>1. k \in 1 .. n /\ queue[k].when > e.when
        BY <1>1
      <4>2. \A j \in 1 .. n : queue[j].when > e.when => k <= j
        BY <1>1, <3>2
      <4> HIDE DEF n, Late, p, q
      <4>3. \A j \in 1 .. k - 1 : j \in 1 .. n /\ ~(k <= j)
        BY <1>1, <4>1
      <4>4. \A j \in 1 .. k - 1 : queue[j].when <= e.when
        BY <1>1, <4>2, <4>3
      <4> QED
        BY <1>1, <4>1, <4>4
    <3>4. p = CHOOSE i \in DOMAIN queue : /\ queue[i].when > e.when
                                          /\ \A j \in 1 .. i - 1 : queue[j].when <= e.when
      BY <3>3 DEF Place
    <3>5. /\ p \in DOMAIN queue /\ queue[p].when > e.when
          /\ \A j \in 1 .. p - 1 : queue[j].when <= e.when
      BY <3>3, <3>4
    <3> QED
      BY <1>1, <3>5
  <2> QED
    BY <2>1, <2>2
<1> HIDE DEF p
<1>3. /\ q \in Seq(Events) /\ Len(q) = n + 1
      /\ \A j \in 1 .. n + 1 : q[j] = IF j < p THEN queue[j] ELSE IF j = p THEN e ELSE queue[j - 1]
  BY <1>2, InsertedAt
<1>4. DOMAIN q = 1 .. n + 1
  BY <1>3
<1> HIDE DEF n, q
<1>5. \A j \in 1 .. n + 1 : q[j] = e \/ \E i \in DOMAIN queue : q[j] = queue[i]
  <2> SUFFICES ASSUME NEW j \in 1 .. n + 1, j # p PROVE \E i \in DOMAIN queue : q[j] = queue[i]
    BY <1>2, <1>3
  <2>1. CASE j < p
    BY <1>1, <1>2, <1>3, <2>1
  <2>2. CASE j > p
    <3>1. j - 1 \in DOMAIN queue /\ q[j] = queue[j - 1]
      BY <1>1, <1>2, <1>3, <2>2
    <3> QED
      BY <3>1
  <2> QED
    BY <1>2, <2>1, <2>2
<1>6. \A i, j \in 1 .. n : i < j => Before(queue[i], queue[j])
  BY <1>1 DEF Sorted
<1>7. Sorted(q)
  <2> SUFFICES ASSUME NEW i \in 1 .. n + 1, NEW j \in 1 .. n + 1, i < j PROVE Before(q[i], q[j])
    BY <1>4 DEF Sorted
  <2>1. CASE j < p
    <3>1. i \in 1 .. n /\ j \in 1 .. n /\ q[i] = queue[i] /\ q[j] = queue[j]
      BY <1>1, <1>2, <1>3, <2>1
    <3> QED
      BY <1>6, <3>1
  <2>2. CASE j = p
    <3>1. i \in 1 .. p - 1 /\ i \in 1 .. n /\ q[i] = queue[i] /\ q[j] = e
      BY <1>1, <1>2, <1>3, <2>2
    <3> QED
      BY <1>1, <1>2, <3>1 DEF Before
  <2>3. CASE i = p
    <3>1. j - 1 \in 1 .. n /\ p \in 1 .. n /\ p <= j - 1 /\ q[j] = queue[j - 1] /\ q[i] = e
      <4>1. j \in p + 1 .. n + 1 /\ p \in 1 .. n
        BY <1>1, <1>2, <2>3
      <4>2. j - 1 \in 1 .. n /\ p <= j - 1 /\ ~(j < p) /\ j # p
        BY <1>1, <4>1
      <4> QED
        BY <1>3, <2>3, <4>1, <4>2
    <3>2. queue[p].when <= queue[j - 1].when
      <4>1. p = j - 1 \/ p < j - 1
        BY <1>1, <3>1
      <4>2. CASE p < j - 1
        BY <1>1, <1>6, <3>1, <4>2 DEF Before
      <4> QED
        BY <1>1, <3>1, <4>1, <4>2
    <3> QED
      BY <1>1, <1>2, <3>1, <3>2 DEF Before
  <2>4. CASE i < p /\ j > p
    <3>1. i \in 1 .. n /\ j - 1 \in 1 .. n /\ i < j - 1 /\ q[j] = queue[j - 1] /\ q[i] = queue[i]
      BY <1>1, <1>2, <1>3, <2>4
    <3> QED
      BY <1>6, <3>1
  <2>5. CASE i > p
    <3>1. i - 1 \in 1 .. n /\ j - 1 \in 1 .. n /\ i - 1 < j - 1
          /\ q[j] = queue[j - 1] /\ q[i] = queue[i - 1]
      BY <1>1, <1>2, <1>3, <2>5
    <3> QED
      BY <1>6, <3>1
  <2> QED
    BY <1>1, <1>2, <2>1, <2>2, <2>3, <2>4, <2>5
<1> QED
  BY <1>3, <1>4, <1>5, <1>7 DEF p, q

(* What is queued is in order, was posted, and comes after all that was    *)
(* delivered; what was delivered was due.                                  *)
InOrder ==
    /\ Sorted(queue)
    /\ \A i \in DOMAIN queue : Before(last, queue[i]) /\ queue[i].id \in 1 .. posts
    /\ last.when <= now /\ last.id <= posts

(* A message whose sender awaits a response has been posted.               *)
RealRequests == \A l \in Looper : loop[l].event.from # Nobody => loop[l].event.id \in 1 .. MaxPosts

(* The controller alone stops the looper, with its thread in hand until it *)
(* is gone; a thread runs only if it is the looper's or in that hand.      *)
InStop == {"clears", "asks", "tells", "joins"}
StopsInTurn ==
    /\ \A c \in Client : call[c].joined # Nobody <=> call[c].at \in InStop
    /\ \A c \in Client : call[c].joined # Nobody => c = Controller /\ thread = Nobody
    /\ \A l \in Looper : Runs(l) => l = thread \/ l = call[Controller].joined

LoopInv == TypeOK /\ InOrder /\ RealRequests /\ StopsInTurn

LEMMA InvInit == Init => LoopInv
<1> SUFFICES ASSUME Init PROVE LoopInv
  OBVIOUS
<1>1. NoEvent \in Events /\ Out \in Calls
  BY ConstantAssumption DEF NoEvent, Event, Events, Out, Calls
<1>2. [at |-> "new", exit |-> FALSE, result |-> TRUE, until |-> 0, event |-> NoEvent] \in Loops
  BY <1>1, ConstantAssumption DEF Loops
<1>3. TypeOK
  BY <1>1, <1>2, ConstantAssumption DEF Init, TypeOK
<1>4. InOrder
  BY ConstantAssumption DEF Init, InOrder, Sorted, NoEvent, Event
<1>5. RealRequests
  BY DEF Init, RealRequests, NoEvent, Event
<1>6. StopsInTurn
  BY DEF Init, StopsInTurn, InStop, Out, Runs
<1> QED
  BY <1>3, <1>4, <1>5, <1>6 DEF LoopInv

(* A signal to the loop changes nothing but that one that waits is woken.  *)
LEMMA Notified ==
    ASSUME loop \in [Looper -> Loops], loop' \in NotifyOne(loop)
    PROVE  /\ loop' \in [Looper -> Loops]
           /\ \A l \in Looper : /\ loop'[l].event = loop[l].event
                                /\ Runs(l)' <=> Runs(l)
<1>1. CASE loop' = loop
  BY <1>1 DEF Runs
<1>2. CASE loop' # loop
  <2>1. PICK k \in Looper : loop[k].at = "waits" /\ loop' = [loop EXCEPT ![k].at = "woken"]
    BY <1>2 DEF NotifyOne
  <2>2. \A l \in Looper : loop[l] \in Loops
    OBVIOUS
  <2>3. [loop[k] EXCEPT !.at = "woken"] \in Loops
    BY <2>2 DEF Loops
  <2>4. /\ loop'[k] = [loop[k] EXCEPT !.at = "woken"]
        /\ \A l \in Looper : l # k => loop'[l] = loop[l]
    BY <2>1
  <2>5. loop' \in [Looper -> Loops]
    BY <2>1, <2>3
  <2>6. loop'[k].at = "woken" /\ loop'[k].event = loop[k].event
    BY <2>2, <2>4 DEF Loops
  <2> QED
    BY <2>1, <2>4, <2>5, <2>6 DEF Runs
<1> QED
  BY <1>1, <1>2

(* A signal to the sleeping callers changes nothing but that they wake.    *)
LEMMA Woken ==
    ASSUME NEW cs \in [Client -> Calls]
    PROVE  /\ NotifyReplies(cs) \in [Client -> Calls]
           /\ \A c \in Client : /\ NotifyReplies(cs)[c].joined = cs[c].joined
                                /\ NotifyReplies(cs)[c].at \in InStop <=> cs[c].at \in InStop
                                /\ cs[c].at # "sleeps" => NotifyReplies(cs)[c] = cs[c]
<1> SUFFICES ASSUME NEW c \in Client
             PROVE  /\ NotifyReplies(cs)[c] \in Calls
                    /\ NotifyReplies(cs)[c].joined = cs[c].joined
                    /\ NotifyReplies(cs)[c].at \in InStop <=> cs[c].at \in InStop
                    /\ cs[c].at # "sleeps" => NotifyReplies(cs)[c] = cs[c]
  BY DEF NotifyReplies
<1>1. cs[c] \in Calls
  OBVIOUS
<1>2. CASE cs[c].at # "sleeps"
  BY <1>1, <1>2 DEF NotifyReplies
<1>3. CASE cs[c].at = "sleeps"
  <2>1. NotifyReplies(cs)[c] = [cs[c] EXCEPT !.at = "awaits"]
    BY <1>3 DEF NotifyReplies
  <2> QED
    BY <1>1, <1>3, <2>1 DEF Calls, InStop
<1> QED
  BY <1>2, <1>3

(* A message that is posted comes into the queue in its order.             *)
LEMMA Enqueued ==
    ASSUME LoopInv, NEW c \in Client \cup {Nobody}, NEW d \in Nat, Enqueue(c, d),
           UNCHANGED <<now, last>>
    PROVE  /\ queue' \in Seq(Events) /\ posts' \in 1 .. MaxPosts /\ posts' = posts + 1
           /\ InOrder'
           /\ loop' \in [Looper -> Loops]
           /\ \A l \in Looper : /\ loop'[l].event = loop[l].event
                                /\ Runs(l)' <=> Runs(l)
<1> DEFINE e == Event(Due(d), posts + 1, c)
<1>1. /\ queue \in Seq(Events) /\ Sorted(queue) /\ loop \in [Looper -> Loops]
      /\ now \in 0 .. MaxNow /\ posts \in 0 .. MaxPosts /\ last \in Events
      /\ posts < MaxPosts /\ MaxNow \in Nat /\ MaxTime \in Nat /\ MaxPosts \in Nat
      /\ MaxNow < MaxTime
  BY ConstantAssumption DEF LoopInv, TypeOK, InOrder, Enqueue
<1>2. Due(d) \in 0 .. MaxTime /\ now <= Due(d)
  BY <1>1 DEF Due
<1>3. e \in Events /\ e.when = Due(d) /\ e.id = posts + 1
  BY <1>1, <1>2 DEF Event, Events
<1>4. posts' = posts + 1 /\ posts' \in 1 .. MaxPosts
  BY <1>1 DEF Enqueue
<1>5. queue' = InsertAt(queue, Place(e), e)
  BY DEF Enqueue
<1> HIDE DEF e
<1>6. \A i \in DOMAIN queue : /\ Before(last, queue[i]) /\ queue[i].id \in 1 .. posts
                              /\ queue[i].id < e.id
  BY <1>1, <1>3 DEF LoopInv, InOrder
<1>7. /\ queue' \in Seq(Events) /\ Sorted(queue')
      /\ \A j \in DOMAIN queue' : queue'[j] = e \/ \E i \in DOMAIN queue : queue'[j] = queue[i]
  BY <1>1, <1>3, <1>5, <1>6, Placed
<1>8. last.when <= now /\ last.id <= posts /\ last.when \in Int /\ last.id \in Int
  <2>1. last.when \in Int /\ last.id \in Int
    BY <1>1 DEF Events
  <2> QED
    BY <2>1 DEF LoopInv, InOrder
<1>9. Before(last, e)
  BY <1>1, <1>2, <1>3, <1>8 DEF Before
<1>10. last' = last /\ now' = now
  OBVIOUS
<1>11. \A j \in DOMAIN queue' : Before(last', queue'[j]) /\ queue'[j].id \in 1 .. posts'
  <2> SUFFICES ASSUME NEW j \in DOMAIN queue'
               PROVE  Before(last, queue'[j]) /\ queue'[j].id \in 1 .. posts + 1
    BY <1>4, <1>10 DEF Before
  <2>1. CASE queue'[j] = e
    BY <1>1, <1>3, <1>9, <2>1
  <2>2. CASE \E i \in DOMAIN queue : queue'[j] = queue[i]
    BY <1>1, <1>6, <2>2
  <2> QED
    BY <1>7, <2>1, <2>2
<1>12. last'.when <= now' /\ last'.id <= posts'
  BY <1>1, <1>4, <1>8, <1>10
<1>13. InOrder'
  BY <1>7, <1>11, <1>12 DEF InOrder, Sorted, Before
<1>14. loop' = loop \/ loop' \in NotifyOne(loop)
  BY DEF Enqueue
<1>15. /\ loop' \in [Looper -> Loops]
       /\ \A l \in Looper : loop'[l].event = loop[l].event /\ (Runs(l)' <=> Runs(l))
  <2>1. CASE loop' = loop
    BY <1>1, <2>1 DEF Runs
  <2>2. CASE loop' \in NotifyOne(loop)
    BY <1>1, <2>2, Notified
  <2> QED
    BY <1>14, <2>1, <2>2
<1> QED
  BY <1>4, <1>7, <1>13, <1>15

(* What the steps of the clients need to know of what each is doing.       *)
LEMMA CallFacts ==
    ASSUME LoopInv
    PROVE  /\ call \in [Client -> Calls]
           /\ Out \in Calls /\ Out.at \notin InStop /\ Out.joined = Nobody
           /\ Controller \in Client /\ Nobody \notin Looper
           /\ \A c \in Client : /\ call[c].joined # Nobody <=> call[c].at \in InStop
                                /\ call[c].joined # Nobody => c = Controller /\ thread = Nobody
                                /\ call[c].joined \in Looper \cup {Nobody}
           /\ \A l \in Looper : Runs(l) => l = thread \/ l = call[Controller].joined
<1>1. Out \in Calls /\ Out.at \notin InStop /\ Out.joined = Nobody
  BY ConstantAssumption DEF Out, Calls, InStop
<1>2. call \in [Client -> Calls] /\ \A f \in Calls : f.joined \in Looper \cup {Nobody}
  BY DEF LoopInv, TypeOK, Calls
<1> QED
  BY <1>1, <1>2, ConstantAssumption DEF LoopInv, StopsInTurn

(* A step that only changes what one client does outside of stop.          *)
LEMMA ClientMoves ==
    ASSUME LoopInv, NEW c \in Client, NEW f \in Calls,
           call' = [call EXCEPT ![c] = f],
           f.at \notin InStop, f.joined = Nobody, call[c].joined = Nobody,
           thread' = thread,
           \A l \in Looper : Runs(l)' <=> Runs(l)
    PROVE  call' \in [Client -> Calls] /\ StopsInTurn'
<1>1. /\ call \in [Client -> Calls] /\ Controller \in Client /\ Nobody \notin Looper
      /\ \A b \in Client : /\ call[b].joined # Nobody <=> call[b].at \in InStop
                           /\ call[b].joined # Nobody => b = Controller /\ thread = Nobody
      /\ \A l \in Looper : Runs(l) => l = thread \/ l = call[Controller].joined
  BY CallFacts
<1>2. call' \in [Client -> Calls]
  BY <1>1
<1>3. call'[c] = f /\ \A b \in Client : b # c => call'[b] = call[b]
  BY <1>1
<1>4. \A b \in Client : call'[b].joined = call[b].joined
  BY <1>3
<1>5. \A b \in Client : call'[b].joined # Nobody <=> call'[b].at \in InStop
  BY <1>1, <1>3
<1>6. \A b \in Client : call'[b].joined # Nobody => b = Controller /\ thread' = Nobody
  BY <1>1, <1>4
<1>7. \A l \in Looper : Runs(l)' => l = thread' \/ l = call'[Controller].joined
  BY <1>1, <1>4
<1> QED
  BY <1>2, <1>5, <1>6, <1>7 DEF StopsInTurn

LEMMA PostKeeps == ASSUME LoopInv, NEW c \in Client, Post(c) PROVE LoopInv'
<1>1. PICK d \in Delays : Enqueue(Nobody, d)
  BY DEF Post
<1>2. d \in Nat /\ Nobody \in Client \cup {Nobody} /\ UNCHANGED <<now, last>>
  BY ConstantAssumption DEF Post
<1>3. /\ queue' \in Seq(Events) /\ posts' \in 1 .. MaxPosts /\ posts' = posts + 1
      /\ InOrder'
      /\ loop' \in [Looper -> Loops]
      /\ \A l \in Looper : /\ loop'[l].event = loop[l].event
                           /\ Runs(l)' <=> Runs(l)
  BY <1>1, <1>2, Enqueued
<1>4. UNCHANGED <<now, thread, call, replied, last>>
  BY DEF Post
<1>5. TypeOK'
  <2>1. posts' \in 0 .. MaxPosts
    BY <1>3, ConstantAssumption
  <2> QED
    BY <1>3, <1>4, <2>1 DEF LoopInv, TypeOK
<1>6. RealRequests'
  BY <1>3 DEF LoopInv, RealRequests
<1>7. StopsInTurn'
  BY <1>3, <1>4 DEF LoopInv, StopsInTurn
<1> QED
  BY <1>3, <1>5, <1>6, <1>7 DEF LoopInv

LEMMA RequestKeeps == ASSUME LoopInv, NEW c \in Client, Request(c) PROVE LoopInv'
<1>1. Enqueue(c, 0) /\ 0 \in Nat /\ c \in Client \cup {Nobody} /\ UNCHANGED <<now, last>>
  BY DEF Request
<1>2. /\ queue' \in Seq(Events) /\ posts' \in 1 .. MaxPosts /\ posts' = posts + 1
      /\ InOrder'
      /\ loop' \in [Looper -> Loops]
      /\ \A l \in Looper : /\ loop'[l].event = loop[l].event
                           /\ Runs(l)' <=> Runs(l)
  BY <1>1, Enqueued
<1> DEFINE f == [Out EXCEPT !.at = "awaits", !.token = posts + 1]
<1>3. /\ UNCHANGED <<now, thread, replied, last>>
      /\ call' = [call EXCEPT ![c] = f] /\ call[c].at = "out"
  BY DEF Request
<1>4. posts + 1 \in 0 .. MaxPosts
  BY <1>2, ConstantAssumption
<1>5. f \in Calls /\ f.at \notin InStop /\ f.joined = Nobody
  BY <1>4, CallFacts DEF Out, Calls, InStop
<1>6. call[c].joined = Nobody
  BY <1>3, CallFacts DEF InStop
<1> HIDE DEF f
<1>7. call' \in [Client -> Calls] /\ StopsInTurn'
  BY <1>2, <1>3, <1>5, <1>6, ClientMoves
<1>8. TypeOK'
  <2>1. posts' \in 0 .. MaxPosts
    BY <1>2, <1>4
  <2> QED
    BY <1>2, <1>3, <1>7, <2>1 DEF LoopInv, TypeOK
<1>9. RealRequests'
  BY <1>2 DEF LoopInv, RealRequests
<1> QED
  BY <1>2, <1>7, <1>8, <1>9 DEF LoopInv

(* The steps of a client that leave the queue and the loops alone.         *)
LEMMA RestKeeps ==
    ASSUME LoopInv, UNCHANGED <<now, queue, posts, replied, last>>,
           loop' \in [Looper -> Loops], thread' \in Looper \cup {Nobody},
           call' \in [Client -> Calls],
           \A l \in Looper : loop'[l].event = loop[l].event,
           StopsInTurn'
    PROVE  LoopInv'
<1>1. TypeOK'
  BY DEF LoopInv, TypeOK
<1>2. InOrder'
  BY DEF LoopInv, InOrder, Sorted, Before
<1>3. RealRequests'
  BY DEF LoopInv, RealRequests
<1> QED
  BY <1>1, <1>2, <1>3 DEF LoopInv

LEMMA WaitKeeps == ASSUME LoopInv, NEW c \in Client, Await(c) \/ Sleep(c) PROVE LoopInv'
<1>1. UNCHANGED <<now, queue, posts, thread, loop, replied, last>>
  BY DEF Await, Sleep
<1>2. call[c] \in Calls /\ call[c].at \in {"awaits", "holds"}
  BY CallFacts DEF Await, Sleep
<1>3. call[c].joined = Nobody
  BY <1>2, CallFacts DEF InStop
<1>4. PICK f \in Calls : /\ call' = [call EXCEPT ![c] = f]
                         /\ f.at \notin InStop /\ f.joined = Nobody
  <2>1. CASE call' = [call EXCEPT ![c] = Out]
    BY <2>1, CallFacts
  <2>2. CASE call' = [call EXCEPT ![c] = [call[c] EXCEPT !.at = "holds"]]
    <3>1. LET f == [call[c] EXCEPT !.at = "holds"] IN
          f \in Calls /\ f.at \notin InStop /\ f.joined = Nobody
      BY <1>2, <1>3 DEF Calls, InStop
    <3> QED
      BY <2>2, <3>1
  <2>3. CASE call' = [call EXCEPT ![c] = [call[c] EXCEPT !.at = "sleeps"]]
    <3>1. LET f == [call[c] EXCEPT !.at = "sleeps"] IN
          f \in Calls /\ f.at \notin InStop /\ f.joined = Nobody
      BY <1>2, <1>3 DEF Calls, InStop
    <3> QED
      BY <2>3, <3>1
  <2>4. CASE Await(c)
    BY <2>1, <2>2, <2>4 DEF Await
  <2>5. CASE Sleep(c)
    BY <2>3, <2>5 DEF Sleep
  <2> QED
    BY <2>4, <2>5
<1>5. /\ thread' = thread /\ loop' = loop
      /\ \A l \in Looper : Runs(l)' <=> Runs(l)
  BY <1>1 DEF Runs
<1>6. call' \in [Client -> Calls] /\ StopsInTurn'
  BY <1>3, <1>4, <1>5, ClientMoves
<1>7. loop \in [Looper -> Loops] /\ thread \in Looper \cup {Nobody}
  BY DEF LoopInv, TypeOK
<1> QED
  BY <1>1, <1>5, <1>6, <1>7, RestKeeps

LEMMA StartKeeps == ASSUME LoopInv, NEW c \in Client, Start(c) PROVE LoopInv'
<1> DEFINE k == CHOOSE l \in Looper : loop[l].at = "new"
<1>1. /\ k \in Looper /\ thread' = k /\ thread = Nobody /\ c = Controller
      /\ loop' = [loop EXCEPT ![k].at = "top"] /\ call[c].at = "out"
      /\ UNCHANGED <<now, queue, posts, call, replied, last>>
  BY DEF Start
<1> HIDE DEF k
<1>2. loop \in [Looper -> Loops]
  BY DEF LoopInv, TypeOK
<1>3. \A l \in Looper : loop[l] \in Loops
  BY <1>2
<1>4. [loop[k] EXCEPT !.at = "top"] \in Loops
  BY <1>1, <1>3 DEF Loops
<1>5. /\ loop'[k] = [loop[k] EXCEPT !.at = "top"]
      /\ \A l \in Looper : l # k => loop'[l] = loop[l]
      /\ loop' \in [Looper -> Loops]
  BY <1>1, <1>2, <1>4
<1>6. \A l \in Looper : loop'[l].event = loop[l].event
  BY <1>1, <1>3, <1>5 DEF Loops
<1>7. \A b \in Client : call[b].joined = Nobody
  BY <1>1, CallFacts DEF InStop
<1>8. \A l \in Looper : ~Runs(l)
  BY <1>1, <1>7, CallFacts
<1>9. \A l \in Looper : Runs(l)' => l = thread'
  BY <1>1, <1>5, <1>8 DEF Runs
<1>10. StopsInTurn'
  BY <1>1, <1>7, <1>9, CallFacts DEF StopsInTurn
<1>11. call' \in [Client -> Calls]
  BY <1>1, CallFacts
<1> QED
  BY <1>1, <1>5, <1>6, <1>10, <1>11, RestKeeps

LEMMA ClearKeeps == ASSUME LoopInv, NEW c \in Client, ClearThread(c) PROVE LoopInv'
<1> DEFINE f == [Out EXCEPT !.at = "clears", !.joined = thread]
<1>1. /\ thread' = Nobody /\ thread # Nobody /\ c = Controller /\ call[c].at = "out"
      /\ call' = [call EXCEPT ![c] = f]
      /\ UNCHANGED <<now, queue, posts, loop, replied, last>>
  BY DEF ClearThread
<1>2. /\ call \in [Client -> Calls] /\ loop \in [Looper -> Loops]
      /\ thread \in Looper \cup {Nobody}
  BY DEF LoopInv, TypeOK
<1>3. f \in Calls /\ f.at \in InStop /\ f.joined = thread
  <2>1. 0 \in 0 .. MaxPosts
    BY ConstantAssumption
  <2> QED
    BY <1>2, <2>1 DEF Out, Calls, InStop
<1> HIDE DEF f
<1>4. /\ call' \in [Client -> Calls] /\ call'[c] = f
      /\ \A b \in Client : b # c => call'[b] = call[b]
  BY <1>1, <1>2, <1>3
<1>5. \A b \in Client : call[b].joined = Nobody
  BY <1>1, CallFacts
<1>6. \A b \in Client : call'[b].joined # Nobody <=> call'[b].at \in InStop
  BY <1>1, <1>3, <1>4, CallFacts
<1>7. \A b \in Client : call'[b].joined # Nobody => b = Controller /\ thread' = Nobody
  BY <1>1, <1>4, <1>5
<1>8. \A l \in Looper : Runs(l)' => l = call'[Controller].joined
  <2> SUFFICES ASSUME NEW l \in Looper, Runs(l)' PROVE l = thread
    BY <1>1, <1>3, <1>4
  <2>1. Runs(l)
    BY <1>1 DEF Runs
  <2> QED
    BY <1>1, <1>5, <2>1, CallFacts
<1>9. StopsInTurn'
  BY <1>6, <1>7, <1>8 DEF StopsInTurn
<1>10. /\ thread' \in Looper \cup {Nobody} /\ loop' \in [Looper -> Loops]
       /\ \A l \in Looper : loop'[l].event = loop[l].event
  BY <1>1, <1>2
<1> QED
  BY <1>1, <1>4, <1>9, <1>10, RestKeeps

(* A step of a stop that goes on keeps the thread it ends in hand.         *)
LEMMA StopGoesOn ==
    ASSUME LoopInv, UNCHANGED <<now, queue, posts, thread, replied, last>>,
           loop' \in [Looper -> Loops], call' \in [Client -> Calls],
           \A l \in Looper : loop'[l].event = loop[l].event /\ (Runs(l)' <=> Runs(l)),
           \A c \in Client : /\ call'[c].joined = call[c].joined
                             /\ call'[c].at \in InStop <=> call[c].at \in InStop
    PROVE  LoopInv'
<1>1. StopsInTurn'
  <2>1. \A c \in Client : call'[c].joined # Nobody <=> call'[c].at \in InStop
    BY CallFacts
  <2>2. \A c \in Client : call'[c].joined # Nobody => c = Controller /\ thread' = Nobody
    BY CallFacts
  <2>3. \A l \in Looper : Runs(l)' => l = thread' \/ l = call'[Controller].joined
    BY CallFacts
  <2> QED
    BY <2>1, <2>2, <2>3 DEF StopsInTurn
<1>2. thread' \in Looper \cup {Nobody} /\ \A l \in Looper : loop'[l].event = loop[l].event
  BY DEF LoopInv, TypeOK
<1> QED
  BY <1>1, <1>2, RestKeeps

LEMMA StopKeeps ==
    ASSUME LoopInv, NEW c \in Client, RequestExit(c) \/ NotifyLoop(c) \/ NotifyWaiters(c)
    PROVE  LoopInv'
<1>1. /\ call \in [Client -> Calls] /\ loop \in [Looper -> Loops]
      /\ \A b \in Client : call[b] \in Calls
      /\ \A l \in Looper : loop[l] \in Loops
  BY DEF LoopInv, TypeOK
<1>2. /\ UNCHANGED <<now, queue, posts, thread, replied, last>>
      /\ call[c].at \in {"clears", "asks", "tells"}
  BY DEF RequestExit, NotifyLoop, NotifyWaiters
<1>3. /\ loop' \in [Looper -> Loops]
      /\ \A l \in Looper : loop'[l].event = loop[l].event /\ (Runs(l)' <=> Runs(l))
  <2>1. CASE RequestExit(c)
    <3> DEFINE k == call[c].joined
    <3>1. loop' = [loop EXCEPT ![k].exit = TRUE]
      BY <2>1 DEF RequestExit
    <3> HIDE DEF k
    <3>2. CASE k \in Looper
      <4>1. [loop[k] EXCEPT !.exit = TRUE] \in Loops
        BY <1>1, <3>2 DEF Loops
      <4>2. /\ loop' \in [Looper -> Loops] /\ loop'[k] = [loop[k] EXCEPT !.exit = TRUE]
            /\ \A l \in Looper : l # k => loop'[l] = loop[l]
        BY <1>1, <3>1, <3>2, <4>1
      <4>3. loop'[k].event = loop[k].event /\ loop'[k].at = loop[k].at
        BY <1>1, <3>2, <4>2 DEF Loops
      <4> QED
        BY <4>2, <4>3 DEF Runs
    <3>3. CASE k \notin Looper
      <4>1. loop' = loop
        BY <1>1, <3>1, <3>3
      <4> QED
        BY <1>1, <4>1 DEF Runs
    <3> QED
      BY <3>2, <3>3
  <2>2. CASE NotifyLoop(c)
    <3>1. loop' \in NotifyOne(loop)
      BY <2>2 DEF NotifyLoop
    <3> QED
      BY <1>1, <3>1, Notified
  <2>3. CASE NotifyWaiters(c)
    <3>1. loop' = loop
      BY <2>3 DEF NotifyWaiters
    <3> QED
      BY <1>1, <3>1 DEF Runs
  <2> QED
    BY <2>1, <2>2, <2>3
<1>4. PICK a \in {"asks", "tells", "joins"}, cs \in [Client -> Calls] :
        /\ call' = [cs EXCEPT ![c].at = a]
        /\ \A b \in Client : /\ cs[b].joined = call[b].joined
                             /\ cs[b].at \in InStop <=> call[b].at \in InStop
  <2>1. CASE RequestExit(c)
    <3>1. call' = [call EXCEPT ![c].at = "asks"]
      BY <2>1 DEF RequestExit
    <3> QED
      BY <1>1, <3>1
  <2>2. CASE NotifyLoop(c)
    <3>1. call' = [call EXCEPT ![c].at = "tells"]
      BY <2>2 DEF NotifyLoop
    <3> QED
      BY <1>1, <3>1
  <2>3. CASE NotifyWaiters(c)
    <3>1. call' = [NotifyReplies(call) EXCEPT ![c].at = "joins"]
      BY <2>3 DEF NotifyWaiters
    <3>2. /\ NotifyReplies(call) \in [Client -> Calls]
          /\ \A b \in Client : /\ NotifyReplies(call)[b].joined = call[b].joined
                               /\ NotifyReplies(call)[b].at \in InStop <=> call[b].at \in InStop
      BY <1>1, Woken
    <3> HIDE DEF NotifyReplies
    <3> QED
      BY <3>1, <3>2
  <2> QED
    BY <2>1, <2>2, <2>3
<1>5. [cs[c] EXCEPT !.at = a] \in Calls
  BY <1>4 DEF Calls
<1>6. /\ call' \in [Client -> Calls] /\ call'[c] = [cs[c] EXCEPT !.at = a]
      /\ \A b \in Client : b # c => call'[b] = cs[b]
  BY <1>4, <1>5
<1>7. cs[c] \in Calls
  BY <1>4
<1>8. call'[c].joined = cs[c].joined /\ call'[c].at = a
  BY <1>6, <1>7 DEF Calls
<1>9. a \in InStop /\ call[c].at \in InStop
  BY <1>2, <1>4 DEF InStop
<1>10. \A b \in Client : /\ call'[b].joined = call[b].joined
                         /\ call'[b].at \in InStop <=> call[b].at \in InStop
  BY <1>4, <1>6, <1>8, <1>9
<1> QED
  BY <1>2, <1>3, <1>6, <1>10, StopGoesOn

LEMMA JoinKeeps == ASSUME LoopInv, NEW c \in Client, Join(c) PROVE LoopInv'
<1> DEFINE k == call[c].joined
<1>1. /\ call[c].at = "joins" /\ ~Runs(k)
      /\ loop' = [loop EXCEPT ![k].exit = FALSE]
      /\ call' = [call EXCEPT ![c] = Out]
      /\ UNCHANGED <<now, queue, posts, thread, replied, last>>
  BY DEF Join
<1>2. k \in Looper /\ c = Controller /\ thread = Nobody
  BY <1>1, CallFacts DEF InStop
<1>3. call \in [Client -> Calls] /\ loop \in [Looper -> Loops] /\ loop[k] \in Loops
  BY <1>2 DEF LoopInv, TypeOK
<1>4. call'[c] = Out /\ \A b \in Client : b # c => call'[b] = call[b]
  BY <1>1, <1>3
<1>5. \A b \in Client : call'[b].joined = Nobody /\ call'[b].at \notin InStop
  <2> SUFFICES ASSUME NEW b \in Client, b # c
               PROVE  call[b].joined = Nobody /\ call[b].at \notin InStop
    BY <1>4, CallFacts
  <2> QED
    BY <1>2, CallFacts
<1>6. \A l \in Looper : ~Runs(l)
  <2> SUFFICES ASSUME NEW l \in Looper, Runs(l) PROVE FALSE
    OBVIOUS
  <2>1. l = k
    BY <1>2, CallFacts
  <2> QED
    BY <1>1, <2>1
<1> HIDE DEF k
<1>7. [loop[k] EXCEPT !.exit = FALSE] \in Loops
  BY <1>3 DEF Loops
<1>8. /\ loop' \in [Looper -> Loops] /\ loop'[k] = [loop[k] EXCEPT !.exit = FALSE]
      /\ \A l \in Looper : l # k => loop'[l] = loop[l]
  BY <1>1, <1>2, <1>3, <1>7
<1>9. loop'[k].event = loop[k].event /\ loop'[k].at = loop[k].at
  BY <1>3, <1>8 DEF Loops
<1>10. \A l \in Looper : loop'[l].event = loop[l].event /\ ~Runs(l)'
  BY <1>6, <1>8, <1>9 DEF Runs
<1>11. StopsInTurn'
  BY <1>5, <1>10 DEF StopsInTurn
<1>12. call' \in [Client -> Calls] /\ thread' \in Looper \cup {Nobody}
  BY <1>1, <1>2, <1>3, CallFacts
<1> QED
  BY <1>1, <1>8, <1>10, <1>11, <1>12, RestKeeps

(* The steps of the looper's thread that leave the queue and stop alone.   *)
LEMMA ReturnKeeps ==
    ASSUME LoopInv, NEW l \in Looper, Runs(l), NEW f \in Loops,
           loop' = [loop EXCEPT ![l] = f],
           f.event = loop[l].event \/ f.event = NoEvent,
           UNCHANGED <<now, queue, posts, thread, last>>,
           replied' \subseteq 1 .. MaxPosts,
           call' = call \/ call' = NotifyReplies(call)
    PROVE  LoopInv'
<1>1. /\ call \in [Client -> Calls] /\ loop \in [Looper -> Loops]
      /\ thread \in Looper \cup {Nobody}
  BY DEF LoopInv, TypeOK
<1>2. /\ loop' \in [Looper -> Loops] /\ loop'[l] = f
      /\ \A k \in Looper : k # l => loop'[k] = loop[k]
  BY <1>1
<1>3. /\ call' \in [Client -> Calls]
      /\ \A c \in Client : /\ call'[c].joined = call[c].joined
                           /\ call'[c].at \in InStop <=> call[c].at \in InStop
  <2>1. CASE call' = call
    BY <1>1, <2>1
  <2>2. CASE call' = NotifyReplies(call)
    BY <1>1, <2>2, Woken
  <2> QED
    BY <2>1, <2>2
<1>4. TypeOK'
  BY <1>2, <1>3 DEF LoopInv, TypeOK
<1>5. InOrder'
  BY DEF LoopInv, InOrder, Sorted, Before
<1>6. RealRequests'
  <2>1. NoEvent.from = Nobody
    BY DEF NoEvent, Event
  <2> QED
    BY <1>2, <2>1 DEF LoopInv, RealRequests
<1>7. StopsInTurn'
  <2>1. \A c \in Client : call'[c].joined # Nobody <=> call'[c].at \in InStop
    BY <1>3, CallFacts
  <2>2. \A c \in Client : call'[c].joined # Nobody => c = Controller /\ thread' = Nobody
    BY <1>3, CallFacts
  <2>3. \A k \in Looper : Runs(k)' => Runs(k)
    BY <1>2 DEF Runs
  <2>4. \A k \in Looper : Runs(k)' => k = thread' \/ k = call'[Controller].joined
    BY <1>3, <2>3, CallFacts
  <2> QED
    BY <2>1, <2>2, <2>4 DEF StopsInTurn
<1> QED
  BY <1>4, <1>5, <1>6, <1>7 DEF LoopInv

(* A thread that has returned from loop() has no message in hand.          *)
LEMMA Returned ==
    ASSUME loop \in [Looper -> Loops], NEW l \in Looper, NEW r \in BOOLEAN, Returns(l, r)
    PROVE  \E f \in Loops : loop' = [loop EXCEPT ![l] = f] /\ f.event = NoEvent
<1> DEFINE f == [loop[l] EXCEPT !.at = "over", !.result = r, !.until = 0, !.event = NoEvent]
<1>1. loop' = [loop EXCEPT ![l] = f]
  BY DEF Returns
<1>2. loop[l] \in Loops /\ NoEvent \in Events /\ 0 \in 0 .. MaxTime
  BY ConstantAssumption DEF NoEvent, Event, Events
<1>3. f \in Loops /\ f.event = NoEvent
  BY <1>2 DEF Loops
<1> HIDE DEF f
<1> QED
  BY <1>1, <1>3

LEMMA WakeKeeps == ASSUME LoopInv, NEW l \in Looper, Wake(l) PROVE LoopInv'
<1>1. /\ Runs(l) /\ Returns(l, TRUE)
      /\ UNCHANGED <<now, queue, posts, thread, last>> /\ call' = call /\ replied' = replied
  BY DEF Wake, Runs
<1>2. loop \in [Looper -> Loops] /\ replied' \subseteq 1 .. MaxPosts
  BY <1>1 DEF LoopInv, TypeOK
<1>3. PICK f \in Loops : loop' = [loop EXCEPT ![l] = f] /\ f.event = NoEvent
  BY <1>1, <1>2, Returned
<1> QED
  BY <1>1, <1>2, <1>3, ReturnKeeps

LEMMA DeliveredKeeps == ASSUME LoopInv, NEW l \in Looper, Delivered(l) PROVE LoopInv'
<1>1. /\ Runs(l) /\ Returns(l, TRUE)
      /\ UNCHANGED <<now, queue, posts, thread, last>>
  BY DEF Delivered, Runs
<1>2. loop \in [Looper -> Loops] /\ replied \subseteq 1 .. MaxPosts
  BY DEF LoopInv, TypeOK
<1>3. /\ replied' \subseteq 1 .. MaxPosts
      /\ call' = call \/ call' = NotifyReplies(call)
  <2>1. CASE loop[l].event.from = Nobody
    BY <1>2, <2>1 DEF Delivered
  <2>2. CASE loop[l].event.from # Nobody
    <3>1. loop[l].event.id \in 1 .. MaxPosts
      BY <2>2 DEF LoopInv, RealRequests
    <3>2. replied' = replied \cup {loop[l].event.id} /\ call' = NotifyReplies(call)
      BY <2>2 DEF Delivered
    <3> HIDE DEF NotifyReplies
    <3> QED
      BY <1>2, <3>1, <3>2
  <2> QED
    BY <2>1, <2>2
<1>4. PICK f \in Loops : loop' = [loop EXCEPT ![l] = f] /\ f.event = NoEvent
  BY <1>1, <1>2, Returned
<1> QED
  BY <1>1, <1>3, <1>4, ReturnKeeps

LEMMA RoundKeeps == ASSUME LoopInv, NEW l \in Looper, Round(l) PROVE LoopInv'
<1>1. loop \in [Looper -> Loops] /\ loop[l] \in Loops /\ replied \subseteq 1 .. MaxPosts
  BY DEF LoopInv, TypeOK
<1>2. /\ Runs(l) /\ UNCHANGED <<now, queue, posts, thread, last>>
      /\ call' = call /\ replied' = replied
  BY DEF Round, Runs
<1>3. PICK a \in {"gone", "top"} : loop' = [loop EXCEPT ![l] = [loop[l] EXCEPT !.at = a]]
  BY DEF Round
<1> DEFINE f == [loop[l] EXCEPT !.at = a]
<1>4. f \in Loops /\ f.event = loop[l].event
  BY <1>1 DEF Loops
<1>5. loop' = [loop EXCEPT ![l] = f]
  BY <1>3
<1> HIDE DEF f
<1> QED
  BY <1>1, <1>2, <1>4, <1>5, ReturnKeeps

LEMMA TickKeeps == ASSUME LoopInv, Tick PROVE LoopInv'
<1>1. /\ now' = now + 1 /\ now < MaxNow
      /\ UNCHANGED <<queue, posts, thread, loop, call, replied, last>>
  BY DEF Tick
<1>2. now' \in 0 .. MaxNow /\ now <= now'
  BY <1>1, ConstantAssumption DEF LoopInv, TypeOK
<1>3. TypeOK'
  BY <1>1, <1>2 DEF LoopInv, TypeOK
<1>4. last.when \in Int /\ now \in Int
  BY ConstantAssumption DEF LoopInv, TypeOK, Events
<1>5. last'.when <= now'
  BY <1>1, <1>2, <1>4 DEF LoopInv, InOrder
<1>6. InOrder'
  BY <1>1, <1>5 DEF LoopInv, InOrder, Sorted, Before
<1>7. RealRequests' /\ StopsInTurn'
  BY <1>1 DEF LoopInv, RealRequests, StopsInTurn, Runs
<1> QED
  BY <1>3, <1>6, <1>7 DEF LoopInv

(* A look at the queue takes its first message, or none.                   *)
LEMMA LookKeeps ==
    ASSUME LoopInv, NEW l \in Looper, Look(l)
    PROVE  LoopInv' /\ (last' # last => Before(last, last'))
<1>1. /\ loop \in [Looper -> Loops] /\ loop[l] \in Loops /\ queue \in Seq(Events)
      /\ replied \subseteq 1 .. MaxPosts /\ now \in 0 .. MaxNow /\ posts \in 0 .. MaxPosts
  BY DEF LoopInv, TypeOK
<1>2. Runs(l) /\ UNCHANGED <<now, posts, thread, call, replied>>
  BY DEF Look, Runs
<1>3. \A f \in Events : f.when \in 0 .. MaxTime /\ f.id \in 0 .. MaxPosts
  BY DEF Events
<1>4. CASE Returns(l, FALSE) /\ UNCHANGED <<queue, last>>
  <2>1. PICK f \in Loops : loop' = [loop EXCEPT ![l] = f] /\ f.event = NoEvent
    BY <1>1, <1>4, Returned
  <2>2. replied' \subseteq 1 .. MaxPosts /\ call' = call
        /\ UNCHANGED <<now, queue, posts, thread, last>>
    BY <1>1, <1>2, <1>4
  <2> QED
    BY <1>2, <2>1, <2>2, ReturnKeeps
<1>5. CASE /\ loop' = [loop EXCEPT ![l].at = "waits",
                          ![l].until = IF queue = <<>> THEN MaxTime ELSE Head(queue).when]
           /\ UNCHANGED <<queue, last>>
  <2> DEFINE u == IF queue = <<>> THEN MaxTime ELSE Head(queue).when
             f == [loop[l] EXCEPT !.at = "waits", !.until = u]
  <2>1. u \in 0 .. MaxTime
    <3>1. CASE queue = <<>>
      BY <3>1, ConstantAssumption
    <3>2. CASE queue # <<>>
      <4>1. Head(queue) \in Events
        BY <1>1, <3>2
      <4> QED
        BY <1>3, <3>2, <4>1
    <3> QED
      BY <3>1, <3>2
  <2>2. loop' = [loop EXCEPT ![l] = f]
    BY <1>5
  <2> HIDE DEF u
  <2>3. f \in Loops /\ f.event = loop[l].event
    BY <1>1, <2>1 DEF Loops
  <2>4. replied' \subseteq 1 .. MaxPosts /\ call' = call
        /\ UNCHANGED <<now, queue, posts, thread, last>>
    BY <1>1, <1>2, <1>5
  <2> HIDE DEF f
  <2> QED
    BY <1>2, <2>2, <2>3, <2>4, ReturnKeeps
<1>6. CASE /\ queue # <<>> /\ Head(queue).when <= now
           /\ loop' = [loop EXCEPT ![l].at = "delivers", ![l].event = Head(queue)]
           /\ queue' = Tail(queue)
           /\ last' = Head(queue)
  <2> DEFINE e == Head(queue)
             f == [loop[l] EXCEPT !.at = "delivers", !.event = e]
  <2>1. /\ e = queue[1] /\ e \in Events /\ Len(queue) \in Nat /\ Len(queue) >= 1
        /\ DOMAIN queue = 1 .. Len(queue) /\ 1 \in DOMAIN queue
        /\ Tail(queue) \in Seq(Events) /\ DOMAIN Tail(queue) = 1 .. Len(queue) - 1
        /\ \A i \in 1 .. Len(queue) - 1 : Tail(queue)[i] = queue[i + 1]
    BY <1>1, <1>6
  <2>2. Before(last, e) /\ e.id \in 1 .. posts
    BY <2>1 DEF LoopInv, InOrder
  <2>3. loop' = [loop EXCEPT ![l] = f] /\ queue' = Tail(queue) /\ last' = e /\ e.when <= now
    BY <1>6
  <2> HIDE DEF e
  <2>4. f \in Loops /\ f.event = e /\ f.at = "delivers"
    BY <1>1, <2>1 DEF Loops
  <2> HIDE DEF f
  <2>5. /\ loop' \in [Looper -> Loops] /\ loop'[l] = f
        /\ \A k \in Looper : k # l => loop'[k] = loop[k]
    BY <1>1, <2>3, <2>4
  <2>6. TypeOK'
    BY <1>2, <2>1, <2>3, <2>5 DEF LoopInv, TypeOK
  <2>7. Sorted(queue')
    <3> SUFFICES ASSUME NEW i \in 1 .. Len(queue) - 1, NEW j \in 1 .. Len(queue) - 1, i < j
                 PROVE  Before(queue[i + 1], queue[j + 1])
      BY <2>1, <2>3 DEF Sorted
    <3>1. i + 1 \in DOMAIN queue /\ j + 1 \in DOMAIN queue /\ i + 1 < j + 1
      BY <2>1
    <3> QED
      BY <3>1 DEF LoopInv, InOrder, Sorted
  <2>8. \A i \in DOMAIN queue' : Before(last', queue'[i]) /\ queue'[i].id \in 1 .. posts'
    <3> SUFFICES ASSUME NEW i \in 1 .. Len(queue) - 1
                 PROVE  Before(e, queue[i + 1]) /\ queue[i + 1].id \in 1 .. posts
      BY <1>2, <2>1, <2>3 DEF Before
    <3>1. i + 1 \in DOMAIN queue /\ 1 < i + 1
      BY <2>1
    <3> QED
      BY <2>1, <3>1 DEF LoopInv, InOrder, Sorted
  <2>9. e.id <= posts
    BY <1>1, <2>2
  <2>10. InOrder'
    <3>1. last'.when <= now' /\ last'.id <= posts'
      BY <1>2, <2>3, <2>9
    <3> QED
      BY <2>7, <2>8, <3>1 DEF InOrder, Sorted, Before
  <2>11. RealRequests'
    <3>1. e.id \in 1 .. MaxPosts
      BY <1>1, <2>2, ConstantAssumption
    <3> QED
      BY <2>4, <2>5, <3>1 DEF LoopInv, RealRequests
  <2>12. StopsInTurn'
    <3>1. \A k \in Looper : Runs(k)' => Runs(k)
      BY <1>2, <2>5 DEF Runs
    <3> QED
      BY <1>2, <3>1 DEF LoopInv, StopsInTurn
  <2>13. Before(last, last')
    BY <2>2, <2>3 DEF Before
  <2> QED
    BY <2>6, <2>10, <2>11, <2>12, <2>13 DEF LoopInv
<1>7. \/ Returns(l, FALSE) /\ UNCHANGED <<queue, last>>
      \/ /\ loop' = [loop EXCEPT ![l].at = "waits",
                        ![l].until = IF queue = <<>> THEN MaxTime ELSE Head(queue).when]
         /\ UNCHANGED <<queue, last>>
      \/ /\ queue # <<>> /\ Head(queue).when <= now
         /\ loop' = [loop EXCEPT ![l].at = "delivers", ![l].event = Head(queue)]
         /\ queue' = Tail(queue)
         /\ last' = Head(queue)
  BY DEF Look
<1> QED
  BY <1>4, <1>5, <1>6, <1>7

LEMMA StepKeeps ==
    ASSUME LoopInv, [Next]_vars
    PROVE  LoopInv' /\ (last' # last => Before(last, last'))
<1>1. CASE UNCHANGED vars
  <2>1. UNCHANGED <<now, queue, posts, thread, loop, call, replied, last>>
    BY <1>1 DEF vars
  <2>2. TypeOK'
    BY <2>1 DEF LoopInv, TypeOK
  <2>3. InOrder'
    BY <2>1 DEF LoopInv, InOrder, Sorted, Before
  <2>4. RealRequests' /\ StopsInTurn'
    BY <2>1 DEF LoopInv, RealRequests, StopsInTurn, Runs
  <2> QED
    BY <2>1, <2>2, <2>3, <2>4 DEF LoopInv
<1>2. ASSUME NEW c \in Client,
             Post(c) \/ Request(c) \/ Start(c) \/ ClearThread(c) \/ Proceeds(c)
      PROVE  LoopInv' /\ last' = last
  <2>1. last' = last
    BY <1>2 DEF Post, Request, Start, ClearThread, Proceeds, Await, Sleep, RequestExit,
                NotifyLoop, NotifyWaiters, Join
  <2>2. CASE Post(c)
    BY <2>1, <2>2, PostKeeps
  <2>3. CASE Request(c)
    BY <2>1, <2>3, RequestKeeps
  <2>4. CASE Start(c)
    BY <2>1, <2>4, StartKeeps
  <2>5. CASE ClearThread(c)
    BY <2>1, <2>5, ClearKeeps
  <2>6. CASE Await(c) \/ Sleep(c)
    BY <2>1, <2>6, WaitKeeps
  <2>7. CASE RequestExit(c) \/ NotifyLoop(c) \/ NotifyWaiters(c)
    BY <2>1, <2>7, StopKeeps
  <2>8. CASE Join(c)
    BY <2>1, <2>8, JoinKeeps
  <2> QED
    BY <1>2, <2>2, <2>3, <2>4, <2>5, <2>6, <2>7, <2>8 DEF Proceeds
<1>3. ASSUME NEW l \in Looper, Goes(l)
      PROVE  LoopInv' /\ (last' # last => Before(last, last'))
  <2>1. CASE Look(l)
    BY <2>1, LookKeeps
  <2>2. CASE Wake(l)
    BY <2>2, WakeKeeps DEF Wake
  <2>3. CASE Delivered(l)
    BY <2>3, DeliveredKeeps DEF Delivered
  <2>4. CASE Round(l)
    BY <2>4, RoundKeeps DEF Round
  <2> QED
    BY <1>3, <2>1, <2>2, <2>3, <2>4 DEF Goes
<1>4. CASE Tick
  BY <1>4, TickKeeps DEF Tick
<1> QED
  BY <1>1, <1>2, <1>3, <1>4 DEF Next

(* No handler of the looper runs once stop has returned, until the next    *)
(* start: a thread that runs is the looper's own or the one a stop has in  *)
(* hand and joins (AmlMpEventLooper::stop, AmlMpThread::requestExitAndWait).*)
THEOREM StoppedIsQuiet == Spec => []LooperIsSound
<1>1. LoopInv => LooperIsSound
  <2> SUFFICES ASSUME LoopInv, thread = Nobody, \A c \in Client : call[c].joined = Nobody,
                      NEW l \in Looper, Runs(l)
               PROVE  FALSE
    BY DEF LooperIsSound, QuietAfterStop, LoopInv
  <2> QED
    BY CallFacts
<1>2. LoopInv /\ [Next]_vars => LoopInv'
  BY StepKeeps
<1> QED
  BY InvInit, <1>1, <1>2, PTL DEF Spec

(* The looper delivers by due time and, for the same due time, in the      *)
(* order of the posts: post puts a message behind those due no later, and  *)
(* what is queued is due no earlier than what was delivered                *)
(* (AmlMpEventLooper::post and loop).                                      *)
THEOREM DeliversInOrder == Spec => DeliveredInOrder
<1>1. LoopInv /\ [Next]_vars => LoopInv'
  BY StepKeeps
<1>2. LoopInv /\ [Next]_vars => [last' # last => Before(last, last')]_vars
  BY StepKeeps
<1> QED
  BY InvInit, <1>1, <1>2, PTL DEF Spec, DeliveredInOrder
=============================================================================
