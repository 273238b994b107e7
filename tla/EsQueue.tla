------------------------------ MODULE EsQueue ------------------------------
(***************************************************************************)
(* demux/AmlESQueue.cpp: cuts the payloads of PES packets into access      *)
(* units and gives each its timestamp.                                     *)
(*                                                                         *)
(* The bytes of a stream are cells: a start code or sync word with the     *)
(* header behind it is one cell, what follows up to the next are others.   *)
(* A cell is [id, start, code, new, len]: id its place in the stream; code *)
(* the type of the NAL unit, the start code or the kind of sync frame; new *)
(* whether a slice is the first of its picture; len the number of cells of *)
(* an audio frame, 0 where the header does not tell.  Zero bytes that may  *)
(* stand in front of a start code are a cell of their own; other cells do  *)
(* not end in them.  The zero byte of a long start code is part of it.     *)
(*                                                                         *)
(* A queue is [mode, buffer, ranges, format]: mBuffer, mRangeInfos and     *)
(* whether mFormat is set.                                                 *)
(***************************************************************************)
EXTENDS Integers, Sequences, SequencesExt, FiniteSets, FiniteSetsExt

\* Codes of sync frames: behind those of start codes, which have a byte.
Adts == 256
Mpa == 257
Ac3 == 258
Eac3 == 259

\* The code of a cell of zero bytes.
Zeros == 260
IsZero(c) == ~c.start /\ c.code = Zeros

\* Those whose streams are cut into access units.
Modes == {"H264", "H265", "AAC", "AC3", "EAC3", "MPEG_VIDEO", "MPEG4_VIDEO", "MPEG_AUDIO"}

NewQueue(mode) == [mode |-> mode, buffer |-> <<>>, ranges |-> <<>>, format |-> FALSE]

From(data, i) == SubSeq(data, i, Len(data))

\* A frame has to be in the data as a whole.
IsSeeminglyValidADTSHeader(data, i) ==
    data[i].start /\ data[i].code = Adts /\ data[i].len <= Len(data) - i + 1

\* A header of the free format counts as valid.
IsSeeminglyValidMPEGAudioHeader(data, i) == data[i].start /\ data[i].code = Mpa

\* The size of the frame, 0 where none starts.
parseAC3SyncFrame(data, i) == IF data[i].start /\ data[i].code = Ac3 THEN data[i].len ELSE 0
\* The frames of further substreams have another code.
parseEAC3SyncFrame(data, i) == IF data[i].start /\ data[i].code = Eac3 THEN data[i].len ELSE 0

SyncFrame(mode, data, i) ==
    IF mode = "AC3" THEN parseAC3SyncFrame(data, i) ELSE parseEAC3SyncFrame(data, i)

\* Where an empty buffer may begin.
MayBegin(mode, data, i) ==
    CASE mode = "AAC" -> IsSeeminglyValidADTSHeader(data, i)
      [] mode \in {"AC3", "EAC3"} -> SyncFrame(mode, data, i) > 0
      [] mode = "MPEG_AUDIO" -> IsSeeminglyValidMPEGAudioHeader(data, i)
      [] OTHER -> data[i].start

\* Mutant: the range is as long as the data before its beginning was looked for.
AppendRange(q, data, kept, pts) ==
    [q EXCEPT !.buffer = @ \o kept, !.ranges = Append(@, [pts |-> pts, length |-> Len(data)])]

Appended(q, data, kept, pts) ==
    [q EXCEPT !.buffer = @ \o kept, !.ranges = Append(@, [pts |-> pts, length |-> Len(kept)])]

\* Data without a beginning is refused while the buffer is empty.
appendData(q, data, pts) ==
    LET begins == {i \in DOMAIN data : MayBegin(q.mode, data, i)} IN
    IF q.buffer # <<>> THEN Appended(q, data, data, pts)
    ELSE IF begins = {} THEN q
    ELSE Appended(q, data, From(data, Min(begins)), pts)

\* Where each of the ranges ends in the buffer.
RangeEnds(ranges) ==
    LET end[k \in 0..Len(ranges)] == IF k = 0 THEN 0 ELSE end[k-1] + ranges[k].length IN end

\* The ranges that are left when n cells were used.
RangesAfter(ranges, n) ==
    LET end == RangeEnds(ranges)
        reached == {k \in 0..Len(ranges) : end[k] >= n}
        k == Min(reached)
    IN  IF reached = {} THEN <<>>
        ELSE IF end[k] = n THEN From(ranges, k + 1)
        ELSE [From(ranges, k) EXCEPT ![1].length = end[k] - n]

fetchTimestamp(q, n) == IF q.ranges = <<>> THEN -1 ELSE Head(q.ranges).pts

NoUnit == [cells |-> <<>>, pts |-> -1]
Drop(q, n) == [q EXCEPT !.buffer = From(@, n + 1), !.ranges = RangesAfter(@, n)]

\* The result of a dequeue: the queue after it, and the access unit if there is one.
\* (There is a range for what is in the buffer, so no timestamp is negative.)
Nothing(q) == [q |-> q, unit |-> NoUnit]
Take(q, n) ==
    [q |-> Drop(q, n), unit |-> [cells |-> SubSeq(q.buffer, 1, n), pts |-> fetchTimestamp(q, n)]]

---------------------------------------------------------------------------
(* Video: units between start codes                                        *)

\* getNextNALUnit: a unit is known only once the next one starts.
Nals(data) == {i \in DOMAIN data : data[i].start /\ \E j \in DOMAIN data : i < j /\ data[j].start}

\* getNextNALUnit: what is in front of the first start code, and the zero bytes behind
\* a unit, are in none.
InNal(data, k) ==
    /\ \E s \in 1..k : data[s].start
    /\ \E m \in k..Len(data) : ~IsZero(data[m]) /\ \A j \in k+1..m : ~data[j].start

NalCells(data) ==
    LET of[k \in 0..Len(data)] ==
            IF k = 0 THEN <<>> ELSE IF InNal(data, k) THEN Append(of[k-1], data[k]) ELSE of[k-1]
    IN  of[Len(data)]

\* The units of the first n cells; the cells behind them stay, with their range.
TakeNals(q, n) ==
    [q |-> Drop(q, n),
     unit |-> [cells |-> NalCells(SubSeq(q.buffer, 1, n)), pts |-> fetchTimestamp(q, n)]]

\* The unit before the first that begins another picture ends the access unit: nextScan
\* is in front of the zero bytes behind it.
UntilNewPicture(q, slices, separators) ==
    LET code(i) == q.buffer[i].code
        flushes == {i \in Nals(q.buffer) :
                        /\ \E j \in Nals(q.buffer) : j < i /\ code(j) \in slices
                        /\ IF code(i) \in slices THEN q.buffer[i].new ELSE code(i) \in separators}
        used == {k \in 1..Min(flushes)-1 : ~IsZero(q.buffer[k])}
    IN  IF flushes = {} THEN Nothing(q) ELSE TakeNals(q, Max(used))

dequeueAccessUnitH264(q) == UntilNewPicture(q, {1, 5}, {7, 9})

dequeueAccessUnitH265(q) ==
    UntilNewPicture(q, 0..9 \cup 16..21, 32..35 \cup {39} \cup 41..44 \cup 48..55)

SequenceHeader == 179
SequenceExtension == 181
Picture == 0

\* One start code of an MPEG-2 stream.  A sequence header before the format is known
\* drops what was before it; the format is known when the header is over.  The second
\* picture ends the access unit.
MpegStartCode(scan, at, c) ==
    LET trims == c.code = SequenceHeader /\ ~scan.format
        format == \/ scan.format
                  \/ scan.prev = SequenceHeader /\ c.code # SequenceExtension
                  \/ scan.pprev = SequenceHeader /\ scan.prev = SequenceExtension
        picture == format /\ c.code = Picture
    IN  IF scan.cut # 0 \/ ~c.start THEN scan
        ELSE [pprev |-> scan.prev, prev |-> c.code, format |-> format,
              begin |-> IF trims THEN at ELSE scan.begin,
              saw |-> scan.saw \/ picture,
              cut |-> IF picture /\ scan.saw THEN at ELSE 0]

dequeueAccessUnitMPEGVideo(q) ==
    LET scan[n \in 0..Len(q.buffer)] ==
            IF n = 0 THEN [pprev |-> -1, prev |-> -1, format |-> q.format, begin |-> 1,
                           saw |-> FALSE, cut |-> 0]
            ELSE MpegStartCode(scan[n-1], n, q.buffer[n])
        last == scan[Len(q.buffer)]
        trimmed == [Drop(q, last.begin - 1) EXCEPT !.format = last.format]
    IN  IF last.cut = 0 THEN Nothing(trimmed) ELSE Take(trimmed, last.cut - last.begin)

\* The headers of an MPEG-4 stream, each at its place: where the next chunk leads.
Mpeg4Header(state, code) ==
    CASE state = "sequence" -> IF code = 176 THEN "object" ELSE "discard"
      [] state = "object" -> IF code = 181 THEN "vo" ELSE "refuse"
      [] state = "vo" -> IF code <= 31 THEN "vol" ELSE "refuse"
      [] state = "vol" -> IF code \in 32..47 THEN "wait" ELSE "refuse"
      [] state = "wait" -> IF code \in {179, 182} THEN "vop" ELSE "wait"
      [] state = "vop" -> IF code = 182 THEN "unit" ELSE "vop"

\* getNextChunkSize: a chunk ends where the next starts.
Mpeg4Chunk(scan) ==
    LET q == scan.q
        first == q.buffer[scan.offset + 1]
        nexts == {i \in DOMAIN q.buffer : i > scan.offset + 1 /\ q.buffer[i].start}
        end == Min(nexts) - 1
        next == Mpeg4Header(scan.state, first.code)
    IN  IF scan.state \in {"refuse", "unit"} THEN scan
        ELSE IF nexts = {} \/ ~first.start THEN [scan EXCEPT !.state = "refuse"]
        ELSE IF next = "discard" THEN [scan EXCEPT !.q = Drop(q, end), !.offset = 0]
        ELSE [q |-> [q EXCEPT !.format = @ \/ next = "vop"], offset |-> end, state |-> next]

\* The last chunk has none behind it.
dequeueAccessUnitMPEG4Video(q) ==
    LET scan[n \in 0..Len(q.buffer)] ==
            IF n = 0 THEN [q |-> q, offset |-> 0, state |-> IF q.format THEN "vop" ELSE "sequence"]
            ELSE Mpeg4Chunk(scan[n-1])
        last == scan[Len(q.buffer)]
    IN  IF last.state = "unit" THEN Take(last.q, last.offset) ELSE Nothing(last.q)

---------------------------------------------------------------------------
(* Audio: frames that tell their length                                    *)

\* The frames of the first range, which may run into the next ones; what is between
\* them is kept.  The end of the buffer may be the beginning of a header.
AdtsNext(q, offset) ==
    LET c == q.buffer[offset + 1] IN
    IF offset < 0 \/ offset >= Head(q.ranges).length THEN offset
    ELSE IF offset + 1 > Len(q.buffer) THEN -1
    ELSE IF ~(c.start /\ c.code = Adts)
         THEN IF offset + 1 = Len(q.buffer) THEN -1 ELSE offset + 1
         ELSE IF c.len = 0 \/ offset + c.len > Len(q.buffer) THEN -1 ELSE offset + c.len

AdtsFrames(q) ==
    LET end[n \in 0..Len(q.buffer)] == IF n = 0 THEN 0 ELSE AdtsNext(q, end[n-1])
    IN  end[Len(q.buffer)]

dequeueAccessUnitAAC(q) ==
    LET length == Head(q.ranges).length IN
    IF q.buffer = <<>> \/ q.ranges = <<>> \/ length = 0 \/ Len(q.buffer) < length THEN Nothing(q)
    ELSE IF AdtsFrames(q) < 0 THEN Nothing(q) ELSE Take(q, AdtsFrames(q))

\* The first frame with what is before it.
dequeueAccessUnitEAC3(q) ==
    LET frames == {i \in DOMAIN q.buffer : SyncFrame(q.mode, q.buffer, i) > 0}
        n == Min(frames) - 1 + SyncFrame(q.mode, q.buffer, Min(frames))
    IN  IF frames = {} \/ n > Len(q.buffer) THEN Nothing(q) ELSE Take(q, n)

\* 0 for what is no header, and for a header of the free format.
GetMPEGAudioFrameSize(c) == IF c.start /\ c.code = Mpa THEN c.len ELSE 0

\* What does not begin with a frame is thrown away; its ranges stay.
dequeueAccessUnitMPEGAudio(q) ==
    LET n == GetMPEGAudioFrameSize(Head(q.buffer)) IN
    IF q.buffer = <<>> THEN Nothing(q)
    ELSE IF n = 0 THEN Nothing([q EXCEPT !.buffer = <<>>])
    ELSE IF n > Len(q.buffer) THEN Nothing(q) ELSE Take(q, n)

dequeueAccessUnit(q) ==
    CASE q.mode = "H264" -> dequeueAccessUnitH264(q)
      [] q.mode = "H265" -> dequeueAccessUnitH265(q)
      [] q.mode = "AAC" -> dequeueAccessUnitAAC(q)
      [] q.mode \in {"AC3", "EAC3"} -> dequeueAccessUnitEAC3(q)
      [] q.mode = "MPEG_VIDEO" -> dequeueAccessUnitMPEGVideo(q)
      [] q.mode = "MPEG4_VIDEO" -> dequeueAccessUnitMPEG4Video(q)
      [] q.mode = "MPEG_AUDIO" -> dequeueAccessUnitMPEGAudio(q)

\* onPayloadData: what was appended is followed by all units there are.
Dequeued(all, r) ==
    IF r.unit = NoUnit THEN [all EXCEPT !.q = r.q, !.over = TRUE]
    ELSE [all EXCEPT !.q = r.q, !.units = Append(@, r.unit)]
DequeueNext(all) == IF all.over THEN all ELSE Dequeued(all, dequeueAccessUnit(all.q))

\* No unit is empty.
DequeueAll(q) ==
    LET all[n \in 0..Len(q.buffer)] ==
            IF n = 0 THEN [q |-> q, units |-> <<>>, over |-> FALSE] ELSE DequeueNext(all[n-1])
        last == all[Len(q.buffer)]
    IN  [q |-> last.q, units |-> last.units]

DequeueIfNew(q, appended) ==
    IF appended = q THEN [q |-> q, units |-> <<>>] ELSE DequeueAll(appended)
onPayloadData(q, data, pts) == DequeueIfNew(q, appendData(q, data, pts))
=============================================================================
