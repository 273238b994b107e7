------------------------------ MODULE Message ------------------------------
(***************************************************************************)
(* The items of an AmlMpMessage (utils/AmlMpMessage.cpp): a table of named *)
(* values, of which objects and buffers are held by a strong reference     *)
(* that the message takes and gives back by hand.                          *)
(*                                                                         *)
(* The numeric types, pointers and rectangles are all "plain".  Messages   *)
(* inside messages are left out: nothing in the repository nests them.     *)
(***************************************************************************)
EXTENDS Naturals, Sequences, SequencesExt

CONSTANTS
    Msg,                    \* the messages
    ItemName,               \* the names of items
    ReplyID,                \* "replyID", the item that carries a reply token
    Object, NoObject,       \* what an item may refer to, and NULL
    kMaxNumItems

ASSUME MessageAssumption ==
    ReplyID \in ItemName /\ NoObject \notin Object /\ kMaxNumItems \in Nat

VARIABLES
    mItems,                 \* the items of each message, in order
    refCount                \* the strong references messages hold on each object

messagevars == <<mItems, refCount>>

Values == [type : {"plain"}, value : {1, 2}] \cup [type : {"string"}, value : {1}]
              \cup [type : {"object"}, value : Object \cup {NoObject}]

MessageInit == /\ mItems = [m \in Msg |-> <<>>]
               /\ refCount = [o \in Object |-> 0]

-----------------------------------------------------------------------------
Refers(v) == v.type = "object" /\ v.value # NoObject
incStrongBy(count, v) == IF Refers(v) THEN [count EXCEPT ![v.value] = @ + 1] ELSE count

\* Mutant: a string is freed, an object is forgotten.
FreesStringOnly(count, v) == count

\* The count after the value of an item is freed.
freeItemValue(count, v) ==
    IF Refers(v) THEN [count EXCEPT ![v.value] = @ - 1] ELSE count

Item(name, v) == [name |-> name, type |-> v.type, value |-> v.value]
Names(items) == {items[i].name : i \in DOMAIN items}

\* The index of a name, or one past the end.
findItemIndex(items, name) ==
    IF name \in Names(items) THEN CHOOSE i \in DOMAIN items : items[i].name = name
    ELSE Len(items) + 1

\* Items and counts after allocateItem and the assignment of a value.
Assigned(t, name, v) ==
    LET i == findItemIndex(t.items, name) IN
    IF i <= Len(t.items)
    THEN [items |-> [t.items EXCEPT ![i] = Item(name, v)],
          count |-> incStrongBy(freeItemValue(t.count, t.items[i]), v)]
    ELSE [items |-> Append(t.items, Item(name, v)),
          count |-> incStrongBy(t.count, v)]

Becomes(m, t) ==
    /\ mItems' = [mItems EXCEPT ![m] = t.items]
    /\ refCount' = t.count

Table(m) == [items |-> mItems[m], count |-> refCount]

\* setInt32 .. setRect, setString
Set(m, name, v) ==
    /\ v.type # "object"
    /\ findItemIndex(mItems[m], name) <= kMaxNumItems
    /\ Becomes(m, Assigned(Table(m), name, v))

\* setObject, setBuffer, setMessage
setObjectInternal(m, name, v) ==
    /\ v.type = "object"
    /\ findItemIndex(mItems[m], name) <= kMaxNumItems
    /\ Becomes(m, Assigned(Table(m), name, v))

\* The count after all items are freed, in their order.
Freed(count, items) ==
    LET left[n \in 0 .. Len(items)] ==
            IF n = 0 THEN count ELSE freeItemValue(left[n - 1], items[n])
    IN  left[Len(items)]

\* The count after each item of a copy takes its own reference.
TakenAgain(count, items) ==
    LET taken[n \in 0 .. Len(items)] ==
            IF n = 0 THEN count ELSE incStrongBy(taken[n - 1], items[n])
    IN  taken[Len(items)]

\* A table after each of a list of items is set in it.
Merged(t, items) ==
    LET merged[n \in 0 .. Len(items)] ==
            IF n = 0 THEN t ELSE Assigned(merged[n - 1], items[n].name, items[n])
    IN  merged[Len(items)]

\* clear, also by the destructor
clear(m) == Becomes(m, [items |-> <<>>, count |-> Freed(refCount, mItems[m])])

\* senderAwaitsResponse: the token goes to the caller, the item stays with NULL.
senderAwaitsResponse(m) ==
    LET i == findItemIndex(mItems[m], ReplyID) IN
    /\ i <= Len(mItems[m]) /\ mItems[m][i].type = "object"
    /\ Becomes(m, Assigned(Table(m), ReplyID, [type |-> "object", value |-> NoObject]))

\* dup into a new message.  An object that is NULL has no reference to take: the
\* code would follow it, so a message is dup'ed before its token is taken.
dup(m, copy) ==
    /\ mItems[copy] = <<>> /\ copy # m
    /\ \A i \in DOMAIN mItems[m] : mItems[m][i].value # NoObject
    /\ Becomes(copy, [items |-> mItems[m], count |-> TakenAgain(refCount, mItems[m])])

\* setEntryNameAt: a name another entry has is refused.
setEntryNameAt(m, i, name) ==
    /\ i \in DOMAIN mItems[m]
    /\ name \notin Names(mItems[m])
    /\ mItems' = [mItems EXCEPT ![m][i].name = name]
    /\ UNCHANGED refCount

setEntryAt(m, i, v) ==
    /\ i \in DOMAIN mItems[m]
    /\ Becomes(m, Assigned(Table(m), mItems[m][i].name, v))

\* removeEntryAt: the last entry takes the place of the one removed.
removeEntryAt(m, i) ==
    /\ i \in DOMAIN mItems[m]
    /\ Becomes(m, [items |-> Front([mItems[m] EXCEPT ![i] = Last(mItems[m])]),
                   count |-> freeItemValue(refCount, mItems[m][i])])

\* extend: each item of other, as setItem.
extend(m, other) ==
    /\ Cardinality(Names(mItems[m]) \cup Names(mItems[other])) <= kMaxNumItems
    /\ m # other
    /\ Becomes(m, Merged(Table(m), mItems[other]))

MessageNext ==
    \E m \in Msg :
        \/ \E name \in ItemName, v \in Values : Set(m, name, v) \/ setObjectInternal(m, name, v)
        \/ clear(m) \/ senderAwaitsResponse(m)
        \/ \E other \in Msg : dup(m, other) \/ extend(m, other)
        \/ \E i \in 1 .. kMaxNumItems :
               \/ \E name \in ItemName : setEntryNameAt(m, i, name)
               \/ \E v \in Values : setEntryAt(m, i, v)
               \/ removeEntryAt(m, i)

MessageSpec == MessageInit /\ [][MessageNext]_messagevars

-----------------------------------------------------------------------------
(* The messages hold each object as often as they refer to it, through     *)
(* overwriting, renaming, removing, copying and merging of items and the   *)
(* taking of the reply token: no object is freed under an item that refers *)
(* to it, and none outlives them all; and a name finds one item.           *)
ItemsHoldTheirObjects ==
    /\ \A o \in Object :
           refCount[o] = Cardinality({p \in UNION {{m} \X DOMAIN mItems[m] : m \in Msg} :
               Refers(mItems[p[1]][p[2]]) /\ mItems[p[1]][p[2]].value = o})
    /\ \A m \in Msg : IsInjective([i \in DOMAIN mItems[m] |-> mItems[m][i].name])
=============================================================================
