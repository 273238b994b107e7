----------------------------- MODULE RuntimeMC -----------------------------
(***************************************************************************)
(* What the player objects are built from.  The parts share no state: a    *)
(* behaviour is one of a chunk FIFO, of a counted object behind a handle,  *)
(* of messages with their items, or of an event loop.                      *)
(***************************************************************************)
EXTENDS ChunkFifo, PlayerHandle, Message, EventLooper

VARIABLE part

(* Strings of one, two and three bytes: in chunks of two bytes a put meets  *)
(* no end of a chunk, one, or two, at every offset.                         *)
MCInputs == {<<1>>, <<1, 0>>, <<0, 1, 1>>}
MCAsks == {1, 3}

(* The constructing thread needs a second pointer for Create. *)
MCPointers == [t \in Holder |-> IF t = Maker THEN 2 ELSE 1]

(* At once, after a tick, and never. *)
SomeDelays == {0, 1, MaxTime}

allvars == <<part, fifovars, refvars, messagevars, vars>>

PartsInit == /\ part \in {"fifo", "object", "message", "looper"}
             /\ FifoInit /\ RefInit /\ MessageInit /\ Init

PartsNext ==
    \/ part = "fifo" /\ FifoNext /\ UNCHANGED <<part, refvars, messagevars, vars>>
    \/ part = "object" /\ RefNext /\ UNCHANGED <<part, fifovars, messagevars, vars>>
    \/ part = "message" /\ MessageNext /\ UNCHANGED <<part, fifovars, refvars, vars>>
    \/ part = "looper" /\ Next /\ UNCHANGED <<part, fifovars, refvars, messagevars>>

(* The looper's fairness is that of its FairSpec. *)
PartsSpec ==
    /\ PartsInit /\ [][PartsNext]_allvars
    /\ WF_allvars(part = "looper" /\ Tick /\ UNCHANGED <<part, fifovars, refvars, messagevars>>)
    /\ \A c \in Client :
          WF_allvars(part = "looper" /\ Proceeds(c)
                     /\ UNCHANGED <<part, fifovars, refvars, messagevars>>)
    /\ \A l \in Looper :
          WF_allvars(part = "looper" /\ Goes(l)
                     /\ UNCHANGED <<part, fifovars, refvars, messagevars>>)
=============================================================================
