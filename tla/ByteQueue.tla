----------------------------- MODULE ByteQueue -----------------------------
(***************************************************************************)
(* What the byte FIFOs of utils/ promise to their callers: a bounded queue *)
(* whose put and get are atomic, accept and deliver as many bytes as       *)
(* possible, and say how many.                                             *)
(***************************************************************************)
EXTENDS Naturals, Sequences

CONSTANTS Inputs,    \* the byte strings a caller may put
          Asks,      \* the numbers of bytes a caller may ask for
          Capacity   \* the most the queue holds

VARIABLES queue,     \* the bytes accepted and not yet delivered
          answer     \* what the last call returned: a count and the bytes

vars == <<queue, answer>>

Least(m, n) == IF m <= n THEN m ELSE n

Answer(n, s) == [count |-> n, bytes |-> s]

Init == queue = <<>> /\ answer = Answer(0, <<>>)

Put == \E s \in Inputs :
    LET n == Least(Len(s), Capacity - Len(queue))
    IN  queue' = queue \o SubSeq(s, 1, n) /\ answer' = Answer(n, <<>>)

Get == \E k \in Asks :
    LET n == Least(k, Len(queue))
    IN  /\ answer' = Answer(n, SubSeq(queue, 1, n))
        /\ queue' = SubSeq(queue, n + 1, Len(queue))

Reset == queue' = <<>> /\ answer' = Answer(0, <<>>)

Next == Put \/ Get \/ Reset

Spec == Init /\ [][Next]_vars
=============================================================================
