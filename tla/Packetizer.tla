----------------------------- MODULE Packetizer -----------------------------
(***************************************************************************)
(* AmlTsPlayer::packetize (player/AmlTsPlayer.cpp, built with              *)
(* HAVE_PACKETIZE_ESTOTS): elementary audio data wrapped into a PES packet *)
(* and cut into transport packets.  Sizes are exact; a payload is the      *)
(* number of its bytes, a packet how its 188 bytes are used.  The buffer   *)
(* of all packets is sized by a count made before the first one is         *)
(* written.                                                                *)
(***************************************************************************)
EXTENDS Integers, Sequences

CONSTANTS
  EsSize,            \* the sizes of the buffers that are written
  Stuffing,          \* numStuffingBytes
  PacketsAtStart,    \* 100: the packets mPacktsBuffer has room for at first
  GarbageCounter,    \* what else mAudioContinuityCounter may start with
  MaxEsBuffers       \* bound: buffers written

\* The PES header fits into a packet; the counter is unsigned.
ASSUME PacketAssumption ==
    /\ EsSize \subseteq Nat /\ Stuffing \in 0 .. 170
    /\ PacketsAtStart \in Nat /\ GarbageCounter \subseteq Nat

PACKET == 188
HEADER == 4
PesHeader == 14 + Stuffing
CapacityAtStart == PacketsAtStart * PACKET

VARIABLES
  counter,     \* mAudioContinuityCounter, which no constructor sets
  begun,       \* the counter before the first packet
  capacity,    \* of mPacktsBuffer
  packets,     \* the packets last written
  counted,     \* how many there was room made for
  written,     \* the size of the data they carry
  esWritten    \* how many buffers

pkvars == <<counter, begun, capacity, packets, counted, written, esWritten>>

PackInit ==
    /\ begun \in (0 .. 15) \cup GarbageCounter /\ counter = begun
    /\ capacity = CapacityAtStart
    /\ packets = <<>> /\ counted = 0 /\ written = 0 /\ esWritten = 0

Smaller(a, b) == IF a < b THEN a ELSE b

(* Mutant: a remainder of full packets is given no packet of its own. *)
BuggyCountPackets(size) ==
    LET first == Smaller(size, PACKET - HEADER - PesHeader)
        rest  == size - first
    IN  1 + rest \div (PACKET - HEADER)

(* The count made in advance: a packet for the PES header and what fits    *)
(* beside it, the full packets, and one more when bytes remain.            *)
CountPackets(size) ==
    LET payload == PACKET - HEADER
        first   == Smaller(size, payload - PesHeader)
        full    == (size - first) \div payload
        left    == (size - first) - full * payload
    IN  1 + full + (IF full = 0 /\ left > 0 THEN 1
                    ELSE IF full > 0 /\ left + payload > payload THEN 1 ELSE 0)

(* 0 stands for a length of 65536 or more. *)
PesLength(size) ==
    LET length == size + 8 + Stuffing IN IF length >= 65536 THEN 0 ELSE length

(* prevCounter is used; a counter that starts beyond 15 is not brought     *)
(* back by the test for 16.                                                *)
incrementContinuityCounter(c) == IF c + 1 = 16 THEN 0 ELSE c + 1

(* One packet: padding in the adaptation field, then what it carries. *)
Packet(starts, size, room, c) ==
    LET copy == Smaller(size, room)
    IN  [starts |-> starts, counter |-> c, padding |-> room - copy,
         header |-> PACKET - HEADER - room, copy |-> copy]

(* The packets of a buffer: the first carries the PES header. *)
Packets(size, c) ==
    LET payload == PACKET - HEADER
        first == Packet(TRUE, size, payload - PesHeader, c)
        After[k \in 0 .. CountPackets(size) + 1] ==
            IF k = 0 THEN [ps |-> <<first>>, left |-> size - first.copy,
                           c |-> incrementContinuityCounter(c)]
            ELSE LET a == After[k - 1]
                     p == Packet(FALSE, a.left, payload, a.c)
                 IN  IF a.left = 0 THEN a
                     ELSE [ps |-> Append(a.ps, p), left |-> a.left - p.copy,
                           c |-> incrementContinuityCounter(a.c)]
    IN  After[CountPackets(size) + 1]

(* The buffer grows to the count, the packets are filled in and handed to  *)
(* the player as one write.                                                *)
packetize(size) ==
    LET made == Packets(size, counter)
    IN  /\ esWritten < MaxEsBuffers
        /\ esWritten' = esWritten + 1
        /\ counted' = CountPackets(size) /\ written' = size
        /\ capacity' = IF counted' * PACKET > capacity THEN counted' * PACKET
                       ELSE capacity
        /\ packets' = made.ps /\ counter' = made.c
        /\ UNCHANGED begun

(* writeData returns the size it wrote, and packetize takes everything but *)
(* 0 for a failure: what was written is reported as refused.               *)
PacketizeResult(taken) == IF taken = 0 THEN 0 ELSE 0 - 1

PackNext == \E size \in EsSize : packetize(size)

-----------------------------------------------------------------------------
\* The bytes of the data that the packets carry.
Carried(ps) ==
    LET sum[i \in 0 .. Len(ps)] == IF i = 0 THEN 0 ELSE sum[i - 1] + ps[i].copy
    IN  sum[Len(ps)]

(* What was counted is what is written, it lies in the buffer, every       *)
(* packet is full, the packets carry every byte of the data, and their     *)
(* continuity counters go on from the packet before, across buffers too,   *)
(* when the counter began as one.                                          *)
PacketsAddUp ==
    packets # <<>> =>
      /\ Len(packets) = counted /\ counted * PACKET <= capacity
      /\ \A i \in DOMAIN packets :
           /\ HEADER + packets[i].header + packets[i].padding + packets[i].copy = PACKET
           /\ packets[i].starts <=> i = 1
      /\ Carried(packets) = written
      /\ begun < 16 =>
           /\ packets[Len(packets)].counter = (counter + 15) % 16
           /\ \A i \in 2 .. Len(packets) :
                packets[i].counter = (packets[i - 1].counter + 1) % 16
=============================================================================
