----------------------------- MODULE ChunkFifo -----------------------------
(***************************************************************************)
(* AmlMpChunkFifo (utils/AmlMpChunkFifo.cpp): a ring of chunks that are    *)
(* allocated when the write position first reaches them.  The read and the *)
(* write position are counters of size_t, which wrap at Word and are       *)
(* reduced to a chunk and an offset at every access.                       *)
(*                                                                         *)
(* Every method runs under mLock, so calls do not overlap; the copying     *)
(* loops of put and get are modelled one memcpy per step to show that no   *)
(* step of theirs reads a chunk that was not written.                      *)
(***************************************************************************)
EXTENDS Naturals, Sequences

CONSTANTS Byte,        \* the values a byte may have
          Inputs,      \* the byte strings the callers put
          Asks,        \* the numbers of bytes the callers ask for
          ChunkSize,   \* mChunkSize
          ChunkCount,  \* mChunkCount
          Word,        \* 2 to the width of size_t
          Garbage,     \* a byte nobody has written
          Null         \* a chunk that is not allocated

MaxSize == ChunkSize * ChunkCount  \* mMaxSize

ASSUME SizeAssumption ==
    /\ ChunkSize \in Nat \ {0} /\ ChunkCount \in Nat \ {0}
    /\ Word \in Nat /\ Word > MaxSize /\ Word % MaxSize = 0
    /\ Inputs \subseteq Seq(Byte) /\ Asks \subseteq Nat
    /\ Garbage \notin Byte
    /\ Null \notin [0 .. ChunkSize - 1 -> Byte \union {Garbage}]

VARIABLES table,    \* mChunkTable
          putSize,  \* mPutSize
          getSize,  \* mGetSize
          access,   \* the call that holds mLock and how far it has come
          answer    \* what the last call returned

fifovars == <<table, putSize, getSize, access, answer>>

NewChunk == [x \in 0 .. ChunkSize - 1 |-> Garbage]

Answer(n, s) == [count |-> n, bytes |-> s]

(* start is the counter at the entry of the call, left the bytes still to  *)
(* be copied, and bytes what is put or what get has copied so far.         *)
NoCall == [op |-> "none", start |-> 0, left |-> 0, bytes |-> <<>>]

FifoInit ==
    /\ table = [i \in 0 .. ChunkCount - 1 |-> Null]
    /\ putSize = 0 /\ getSize = 0
    /\ access = NoCall
    /\ answer = Answer(0, <<>>)

-----------------------------------------------------------------------------
Least(m, n) == IF m <= n THEN m ELSE n

(* Arithmetic of size_t *)
Plus(m, n) == (m + n) % Word
Minus(m, n) == (m + Word - n) % Word

(* Where counter c points. *)
Index(c) == (c \div ChunkSize) % ChunkCount
Offset(c) == c % ChunkSize

(* Mutant: what the queue holds is not counted. *)
SpaceOfEmpty == MaxSize

Size == Minus(putSize, getSize)              \* size()
Space == Plus(Minus(MaxSize, putSize), getSize)  \* space()

(* How much the memcpy at counter c copies. *)
Piece(c) == Least(access.left, ChunkSize - Offset(c))

(* put(buffer, size): what does not fit is cut off. *)
BeginPut ==
    /\ access.op = "none"
    /\ \E s \in Inputs :
           LET n == Least(Len(s), Space)
           IN  access' = [op |-> "put", start |-> putSize, left |-> n,
                        bytes |-> SubSeq(s, 1, n)]
    /\ UNCHANGED <<table, putSize, getSize, answer>>

(* One turn of the loop of put: the chunk is allocated if need be. *)
PutPiece ==
    LET i == Index(putSize)
        o == Offset(putSize)
        n == Piece(putSize)
        k == Len(access.bytes) - access.left
        f == IF table[i] = Null THEN NewChunk ELSE table[i]
    IN  /\ access.op = "put" /\ access.left > 0
        /\ table' = [table EXCEPT ![i] =
               [x \in 0 .. ChunkSize - 1 |->
                    IF x \in o .. o + n - 1 THEN access.bytes[k + 1 + x - o]
                    ELSE f[x]]]
        /\ putSize' = Plus(putSize, n)
        /\ access' = [access EXCEPT !.left = @ - n]
        /\ UNCHANGED <<getSize, answer>>

EndPut ==
    /\ access.op = "put" /\ access.left = 0
    /\ answer' = Answer(Len(access.bytes), <<>>)
    /\ access' = NoCall
    /\ UNCHANGED <<table, putSize, getSize>>

(* get(buffer, size) *)
BeginGet ==
    /\ access.op = "none"
    /\ \E k \in Asks : access' = [op |-> "get", start |-> getSize,
                                left |-> Least(k, Size), bytes |-> <<>>]
    /\ UNCHANGED <<table, putSize, getSize, answer>>

(* One turn of the loop of get; a chunk that is missing ends it. *)
GetPiece ==
    LET f == table[Index(getSize)]
        o == Offset(getSize)
        n == Piece(getSize)
    IN  /\ access.op = "get" /\ access.left > 0 /\ f # Null
        /\ access' = [access EXCEPT
               !.left = @ - n,
               !.bytes = @ \o [x \in 1 .. n |-> f[o + x - 1]]]
        /\ getSize' = Plus(getSize, n)
        /\ UNCHANGED <<table, putSize, answer>>

EndGet ==
    /\ access.op = "get"
    /\ access.left = 0 \/ table[Index(getSize)] = Null
    /\ answer' = Answer(Len(access.bytes), access.bytes)
    /\ access' = NoCall
    /\ UNCHANGED <<table, putSize, getSize>>

(* reset(): the chunks stay. *)
Reset ==
    /\ access.op = "none"
    /\ putSize' = 0 /\ getSize' = 0 /\ answer' = Answer(0, <<>>)
    /\ UNCHANGED <<table, access>>

FifoNext ==
    \/ BeginPut \/ PutPiece \/ EndPut
    \/ BeginGet \/ GetPiece \/ EndGet
    \/ Reset

FifoSpec == FifoInit /\ [][FifoNext]_fifovars

-----------------------------------------------------------------------------
(* The FIFO as the byte queue its callers see.  A call takes effect when   *)
(* it gives up mLock: until then the queue is the one it found.            *)
ByteAt(c) == table[Index(c)][Offset(c)]

Held(from, to) == [x \in 1 .. Minus(to, from) |-> ByteAt(Plus(from, x - 1))]

Queue ==
    IF access.op = "put" THEN Held(getSize, access.start)
    ELSE IF access.op = "get" THEN access.bytes \o Held(getSize, putSize)
    ELSE Held(getSize, putSize)

BQ == INSTANCE ByteQueue WITH queue <- Queue, Capacity <- MaxSize

(* AmlMpChunkFifo implements the bounded byte queue: bytes come out once,  *)
(* in order and unharmed, put and get are atomic, and their results tell   *)
(* how many bytes moved.                                                   *)
ImplementsByteQueue == BQ!Spec
=============================================================================
