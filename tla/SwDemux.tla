------------------------------ MODULE SwDemux ------------------------------
(***************************************************************************)
(* The software demux (demux/AmlSwDemux.cpp): what is fed goes as messages *)
(* through a looper to a parser that cuts it into TS packets, sections,    *)
(* PES packets and, with EsQueue, access units, and delivers them to the   *)
(* filters of the channels (demux/AmlDemuxBase.cpp).                       *)
(*                                                                         *)
(* A TS packet is fed as two units, its head and its tail, each with one   *)
(* cell of payload; only a head begins with the sync byte.  A cell of a    *)
(* section is read as a section header where one is expected, whatever it  *)
(* is.  The checksum of a section is right for what was sent and no other. *)
(***************************************************************************)
EXTENDS EsQueue, TLC

CONSTANTS
    Transports,         \* the streams that may be fed: [codec: pid -> mode, packets,
                        \*   sections, pts: cell -> that of its PES packet,
                        \*   arrives: pid -> what its filter should be called with]
    MaxChunk,           \* units fed by one call
    MaxLost, MaxFlushes, MaxPidChanges \* bounds of the model

\* The ids of the cells are their places in the stream.  A cell at the head of a packet
\* can be read as the header of a section where sections are carried.
ASSUME TransportsAssumption ==
    /\ MaxChunk \in Nat
    /\ \A t \in Transports :
          /\ \A pid \in DOMAIN t.codec : t.codec[pid] \in {"PSI"} \cup Modes
          /\ Len(t.packets) \in Nat /\ DOMAIN t.packets = 1..Len(t.packets)
          /\ \A i \in DOMAIN t.packets :
                /\ t.packets[i].pid \in DOMAIN t.codec
                /\ t.codec[t.packets[i].pid] = "PSI" => t.packets[i].cells[1].length \in Nat
                /\ \A j \in {1, 2} : LET c == t.packets[i].cells[j] IN
                      /\ c.id \in Nat \ {0} /\ (c.start => c.len \in Nat)
                      /\ "pes" \in DOMAIN c => c.pes.length \in Nat
                /\ t.packets[i].cells[1].id < t.packets[i].cells[2].id
                /\ \A k \in 1..i-1 : t.packets[k].cells[2].id < t.packets[i].cells[1].id

\* A pid carries tables or an elementary stream: 0 and 1 tables, and what can be read
\* as a PAT names no pid of an elementary stream.
ASSUME TablesAssumption ==
    \A t \in Transports :
        LET tables == {pid \in DOMAIN t.codec : t.codec[pid] = "PSI"} IN
        /\ {0, 1} \cap DOMAIN t.codec \subseteq tables
        /\ 0 \in tables =>
              \A i \in DOMAIN t.packets : \A j \in {1, 2} :
                  LET c == t.packets[i].cells[j] IN
                  c.start => Range(c.programs) \cap DOMAIN t.codec \subseteq tables

\* The pts of a cell is that of the PES packet it is in, which the last packet of its pid
\* with the start flag began; packets that are passed over do not count.
ASSUME StampsAssumption ==
    \A t \in Transports :
        LET Counts(i, pid) == t.packets[i].pid = pid /\ ~t.packets[i].error /\ t.packets[i].payload
            Opens(i, n, pid) ==
                /\ i \in 1..n /\ Counts(i, pid) /\ t.packets[i].start
                /\ \A k \in i+1..n : Counts(k, pid) => ~t.packets[k].start
        IN \A n \in DOMAIN t.packets : \A i \in 1..n : \A j \in {1, 2} :
              LET pid == t.packets[n].pid IN
              /\ t.codec[pid] # "PSI" /\ Counts(n, pid) /\ Opens(i, n, pid) /\ (i = n => j = 2)
              /\ "pes" \in DOMAIN t.packets[i].cells[1]
              => t.pts[t.packets[n].cells[j].id] = t.packets[i].cells[1].pes.pts

VARIABLES
    transport,
    sent,               \* units that were fed or lost
    feeder, controller, \* the threads: what each does
    chunk,              \* what the feeder feeds
    queue,              \* the messages of the looper
    mBufferGeneration, mStopped,
    looping,            \* the looper runs
    mRemainingBytesBuffer,
    parser,             \* [psi, streams, programMapPID]
    mChannels,          \* pids with a channel, which has a filter
    mVersion,           \* pid -> the version its filter was last called with
    delivered,          \* pid -> what its filter was called with
    budget,             \* losses, flushes and changes of pids left
    clean               \* whether all of the stream has come as it was sent

threads == <<feeder, controller, chunk, queue, looping>>
demux == <<mBufferGeneration, mStopped, mRemainingBytesBuffer, parser>>
base == <<mChannels, mVersion, delivered>>
swvars == <<transport, sent, threads, demux, base, budget, clean>>

Packets == transport.packets
Pids == DOMAIN transport.codec
NoPmt == 8191
Idle == [at |-> "idle"]
Blocked == [at |-> "waiting"]

NewSection == [buffer |-> <<>>, started |-> FALSE, versions |-> <<>>]
NewStream(mode) == [expected |-> -1, buffer |-> <<>>, started |-> FALSE, queue |-> NewQueue(mode)]
NewParser == [psi |-> [pid \in {0, 1} |-> NewSection], streams |-> <<>>, programMapPID |-> NoPmt]
IsSection(pid) == transport.codec[pid] = "PSI"

\* Pids are entered in a table; what is there already stays.
Entered(table, pids, new) ==
    [pid \in DOMAIN table \cup pids |-> IF pid \in DOMAIN table THEN table[pid] ELSE new]

SwInit ==
    /\ transport \in Transports
    /\ sent = 0 /\ feeder = Idle /\ controller = Idle /\ chunk = <<>> /\ queue = <<>>
    /\ mBufferGeneration = 0 /\ mStopped = FALSE /\ looping = TRUE
    /\ mRemainingBytesBuffer = <<>> /\ parser = NewParser
    /\ mChannels = {} /\ mVersion = [pid \in Pids |-> -1]
    /\ delivered = [pid \in Pids |-> <<>>]
    /\ budget = [lost |-> MaxLost, flushes |-> MaxFlushes, changes |-> MaxPidChanges]
    /\ clean = TRUE

---------------------------------------------------------------------------
(* From what is fed to packets                                             *)

IsHead(unit) == unit % 2 = 1
PacketSize == 2

\* resync: the first unit that may be a head, and is followed by one a packet later.
resync(units) ==
    LET heads == {i \in DOMAIN units : /\ IsHead(units[i])
                                       /\ i + PacketSize <= Len(units) => IsHead(units[i + PacketSize])}
    IN  IF heads = {} THEN <<>> ELSE From(units, Min(heads))

\* The packets in the units, and the units that wait for the rest of theirs.
CutNext(cut) ==
    IF Len(cut.units) < PacketSize THEN cut
    ELSE IF IsHead(cut.units[1])
         THEN [units |-> From(cut.units, PacketSize + 1),
               packets |-> Append(cut.packets, SubSeq(cut.units, 1, PacketSize))]
         ELSE [cut EXCEPT !.units = resync(@)]

Cut(units, packets) ==
    LET cut[n \in 0..Len(units)] ==
            IF n = 0 THEN [units |-> units, packets |-> packets] ELSE CutNext(cut[n-1])
        last == cut[Len(units)]
    IN  [packets |-> last.packets,
         remaining |-> IF last.units # <<>> /\ IsHead(last.units[1]) THEN last.units ELSE <<>>]

\* Mutant: what is left over from the call before is not put in front.
CutAnew(remaining, units) == Cut(units, <<>>)

\* onFeedData: what is left over is filled up to a packet first, whatever follows.
onFeedData(remaining, units) ==
    LET rest == PacketSize - Len(remaining) IN
    IF remaining = <<>> THEN Cut(units, <<>>)
    ELSE IF Len(units) < rest THEN [packets |-> <<>>, remaining |-> remaining \o units]
    ELSE Cut(From(units, rest + 1), <<remaining \o SubSeq(units, 1, rest)>>)

Junk == [id |-> 0, start |-> FALSE, code |-> 0, syntax |-> FALSE, length |-> 0]

\* The header of a packet is that of its first unit.
HeaderOf(packet) == Packets[(packet[1] + 1) \div 2]
CellOf(packet, i) ==
    LET unit == packet[i] IN
    IF i = 2 /\ IsHead(unit) THEN Junk ELSE Packets[(unit + 1) \div 2].cells[2 - (unit % 2)]
PayloadOf(packet) == <<CellOf(packet, 1), CellOf(packet, 2)>>

---------------------------------------------------------------------------
(* Sections                                                                *)

ChecksumRight(cells) == cells \in transport.sections

\* parse: a packet in which a section starts drops what came before.
SectionStarts(section, start) ==
    IF start THEN [section EXCEPT !.buffer = <<>>, !.started = TRUE] ELSE section

SectionAppended(section, data) ==
    IF section.started THEN [section EXCEPT !.buffer = @ \o data] ELSE section

sectionLength(section) == Head(section.buffer).length + 1
Oversize(section) == Head(section.buffer).length > 4
sectionComplete(section) ==
    /\ section.buffer # <<>>
    /\ Oversize(section) \/ Len(section.buffer) >= sectionLength(section)

setRange(section) ==
    IF Oversize(section) THEN section.buffer
    ELSE SubSeq(section.buffer, 1, sectionLength(section))

needCheckVersionChange(p, pid) == pid \in {0, 1} \/ (p.programMapPID # NoPmt /\ p.programMapPID = pid)

\* parseSection: the version is kept before the checksum is looked at.
VersionsAfter(p, pid, section) ==
    LET h == Head(section.buffer) IN
    IF h.syntax /\ ~Oversize(section) /\ needCheckVersionChange(p, pid)
    THEN (h.number :> h.version) @@ section.versions
    ELSE section.versions

parseSection(section) ==
    ~Oversize(section) /\ (Head(section.buffer).syntax => ChecksumRight(setRange(section)))

\* The version of the section with number 0 stands for all.
sectionVersion(p, pid, versions) ==
    IF needCheckVersionChange(p, pid) /\ 0 \in DOMAIN versions THEN versions[0] ELSE -1

\* parseProgramAssociationTable: the last program's PMT is the one whose version counts.
parseProgramAssociationTable(p, cells) ==
    LET naming == {i \in DOMAIN cells : cells[i].start /\ cells[i].programs # <<>>}
        named == UNION {Range(cells[i].programs) : i \in naming}
    IN  IF naming = {} THEN p
        ELSE [p EXCEPT !.programMapPID = Last(cells[Max(naming)].programs),
                       !.psi = Entered(@, named, NewSection)]

\* Mutant: what was taken out stays.
SectionStays(section, versions) == [section EXCEPT !.versions = versions]
SectionTaken(section, versions) == [section EXCEPT !.buffer = <<>>, !.versions = versions]

\* parsePID of a pid with sections: at most one section is taken out of a packet.  The
\* PAT is used even if its checksum was wrong.
ParseSectionPid(p, pid, start, data) ==
    LET section == SectionAppended(SectionStarts(p.psi[pid], start), data)
        versions == VersionsAfter(p, pid, section)
        cells == setRange(section)
        after == [p EXCEPT !.psi[pid] = SectionTaken(section, versions)]
    IN  IF ~sectionComplete(section)
        THEN [p |-> [p EXCEPT !.psi[pid] = section], version |-> -1, out |-> <<>>]
        ELSE [p |-> IF pid = 0 THEN parseProgramAssociationTable(after, cells) ELSE after,
              version |-> sectionVersion(p, pid, versions),
              out |-> IF parseSection(section) THEN <<[cells |-> cells, pts |-> -1]>> ELSE <<>>]

---------------------------------------------------------------------------
(* PES packets                                                             *)

IsPes(cell) == "pes" \in DOMAIN cell

IsWhole(cells) == IsPes(Head(cells)) /\ Len(Tail(cells)) >= Head(cells).pes.length
PesPayload(cells) ==
    IF Head(cells).pes.length = 0 THEN Tail(cells) ELSE SubSeq(Tail(cells), 1, Head(cells).pes.length)

\* parsePES: one that is cut short is dropped, what is behind its end as well.
parsePES(stream) ==
    LET header == Head(stream.buffer).pes IN
    IF ~IsWhole(stream.buffer) \/ header.padding THEN [q |-> stream.queue, units |-> <<>>]
    ELSE onPayloadData(stream.queue, PesPayload(stream.buffer), header.pts)

\* Stream::flush
StreamFlush(stream) ==
    IF stream.buffer = <<>> THEN [q |-> stream.queue, units |-> <<>>] ELSE parsePES(stream)

Gap(stream, header) ==
    IF stream.expected >= 0 /\ stream.expected # header.cc
    THEN [stream EXCEPT !.started = FALSE, !.buffer = <<>>, !.expected = -1] ELSE stream

\* Where a PES packet starts, the one before is over.
NextPes(stream, data, flushed) ==
    IF stream.started
    THEN [stream |-> [stream EXCEPT !.buffer = data, !.queue = flushed.q], units |-> flushed.units]
    ELSE [stream |-> [stream EXCEPT !.started = TRUE, !.buffer = data], units |-> <<>>]

\* Stream::parse, and dequeueFrame for all frames there are.
StreamParse(old, header, data) ==
    LET gapless == Gap(old, header)
        stream == [gapless EXCEPT !.expected = (header.cc + 1) % 16]
    IN  IF gapless # old /\ ~header.start THEN [stream |-> gapless, units |-> <<>>]
        ELSE IF header.start THEN NextPes(stream, data, StreamFlush(stream))
        ELSE IF ~stream.started THEN [stream |-> stream, units |-> <<>>]
        ELSE [stream |-> [stream EXCEPT !.buffer = @ \o data], units |-> <<>>]

StreamParsed(p, pid, parsed) ==
    [p |-> [p EXCEPT !.streams[pid] = parsed.stream], version |-> -1, out |-> parsed.units]
ParseStreamPid(p, header, data) ==
    StreamParsed(p, header.pid, StreamParse(p.streams[header.pid], header, data))

\* The parser after a packet, what its pid's filter gets and the version of it.
parsePID(p, header, data) ==
    IF header.pid \in DOMAIN p.psi THEN ParseSectionPid(p, header.pid, header.start, data)
    ELSE IF header.pid \in DOMAIN p.streams THEN ParseStreamPid(p, header, data)
    ELSE [p |-> p, version |-> -1, out |-> <<>>]

---------------------------------------------------------------------------
(* Channels and filters                                                    *)

\* notifyListener, once for each of a packet: a version that is known is not delivered
\* again.
notifyListener(f, pid, r) ==
    IF r.out = <<>> \/ pid \notin mChannels \/ (r.version >= 0 /\ f.version[pid] = r.version)
    THEN [f EXCEPT !.p = r.p]
    ELSE [p |-> r.p, version |-> [f.version EXCEPT ![pid] = r.version],
          delivered |-> [f.delivered EXCEPT ![pid] = @ \o r.out]]

\* parseTS: packets marked as wrong and packets without payload are passed over.
parseTS(f, packet) ==
    LET header == HeaderOf(packet) IN
    IF header.error \/ ~header.payload THEN f
    ELSE notifyListener(f, header.pid, parsePID(f.p, header, PayloadOf(packet)))

\* The parser, and what the filters have been called with, after all of the packets.
feedTs(packets) ==
    LET f[n \in 0..Len(packets)] ==
            IF n = 0 THEN [p |-> parser, version |-> mVersion, delivered |-> delivered]
            ELSE parseTS(f[n-1], packets[n])
    IN  f[Len(packets)]

Post(msg) == queue' = IF looping THEN Append(queue, msg) ELSE queue

\* feedTs: the generation is read before the message is posted.
FeedTs(n) ==
    /\ feeder = Idle /\ ~mStopped
    /\ sent + n <= 2 * Len(Packets)
    /\ chunk' = [i \in 1..n |-> sent + i]
    /\ sent' = sent + n
    /\ feeder' = [at |-> "posting", generation |-> mBufferGeneration]
    /\ UNCHANGED <<transport, controller, queue, looping, demux, base, budget, clean>>

\* A unit of the stream never comes.
Lose ==
    /\ feeder = Idle /\ budget.lost > 0 /\ sent < 2 * Len(Packets)
    /\ sent' = sent + 1
    /\ budget' = [budget EXCEPT !.lost = @ - 1]
    /\ clean' = FALSE
    /\ UNCHANGED <<transport, threads, demux, base>>

PostFeed ==
    /\ feeder.at = "posting"
    /\ Post([what |-> "feed", units |-> chunk, generation |-> feeder.generation])
    /\ feeder' = IF looping THEN Blocked ELSE Idle
    /\ chunk' = <<>>
    /\ UNCHANGED <<transport, sent, controller, looping, demux, base, budget, clean>>

HandleFeed ==
    /\ looping /\ queue # <<>> /\ Head(queue).what = "feed"
    /\ queue' = Tail(queue)
    /\ feeder' = Idle
    /\ IF Head(queue).generation # mBufferGeneration
       THEN clean' = FALSE /\ UNCHANGED <<demux, base>>
       ELSE /\ \E cut \in {onFeedData(mRemainingBytesBuffer, Head(queue).units)} :
                 /\ mRemainingBytesBuffer' = cut.remaining
                 /\ \E f \in {feedTs(cut.packets)} :
                      parser' = f.p /\ mVersion' = f.version /\ delivered' = f.delivered
            /\ UNCHANGED <<mBufferGeneration, mStopped, mChannels, clean>>
    /\ UNCHANGED <<transport, sent, controller, chunk, looping, budget>>

\* flush, by itself or first of all in close
Flush(after) ==
    /\ controller = Idle /\ looping
    /\ after = "idle" => budget.flushes > 0
    /\ mBufferGeneration' = mBufferGeneration + 1
    /\ budget' = IF after = "idle" THEN [budget EXCEPT !.flushes = @ - 1] ELSE budget
    /\ controller' = [at |-> "posting", after |-> after]
    /\ clean' = FALSE
    /\ UNCHANGED <<transport, sent, feeder, chunk, queue, looping, mStopped, mRemainingBytesBuffer,
                   parser, base>>

PostFlush ==
    /\ controller.at = "posting"
    /\ Post([what |-> "flush", after |-> controller.after])
    /\ controller' = Blocked
    /\ UNCHANGED <<transport, sent, feeder, chunk, looping, demux, base, budget, clean>>

\* reset empties the sections; the streams keep what they have.
Reset(p) == [p EXCEPT !.psi = [pid \in DOMAIN @ |-> [@[pid] EXCEPT !.buffer = <<>>]]]

\* onFlush
HandleFlush ==
    /\ looping /\ queue # <<>> /\ Head(queue).what = "flush"
    /\ queue' = Tail(queue)
    /\ parser' = Reset(parser)
    /\ mRemainingBytesBuffer' = <<>>
    /\ controller' = [at |-> Head(queue).after]
    /\ UNCHANGED <<transport, sent, feeder, chunk, looping, mBufferGeneration, mStopped, base,
                   budget, clean>>

\* createChannel and a filter for it
AddDemuxFilter(pid) ==
    /\ controller = Idle /\ ~mStopped /\ budget.changes > 0
    /\ pid \notin mChannels
    /\ mChannels' = mChannels \cup {pid}
    /\ mVersion' = [mVersion EXCEPT ![pid] = -1]
    /\ Post([what |-> "add", pid |-> pid])
    /\ budget' = [budget EXCEPT !.changes = @ - 1]
    /\ clean' = (clean /\ sent = 0)
    /\ UNCHANGED <<transport, sent, feeder, controller, chunk, looping, demux, delivered>>

HandleAdd ==
    LET pid == Head(queue).pid IN
    /\ looping /\ queue # <<>> /\ Head(queue).what = "add"
    /\ queue' = Tail(queue)
    /\ parser' =
         IF IsSection(pid)
         THEN [parser EXCEPT !.psi = Entered(@, {pid}, NewSection)]
         ELSE [parser EXCEPT !.streams = Entered(@, {pid}, NewStream(transport.codec[pid]))]
    /\ UNCHANGED <<transport, sent, feeder, controller, chunk, looping, mBufferGeneration, mStopped,
                   mRemainingBytesBuffer, base, budget, clean>>

\* The filter is detached and the channel destroyed.
RemoveDemuxFilter(pid) ==
    /\ controller = Idle /\ budget.changes > 0
    /\ pid \in mChannels
    /\ mChannels' = mChannels \ {pid}
    /\ Post([what |-> "remove", pid |-> pid])
    /\ budget' = [budget EXCEPT !.changes = @ - 1]
    /\ clean' = FALSE
    /\ UNCHANGED <<transport, sent, feeder, controller, chunk, looping, demux, mVersion, delivered>>

HandleRemove ==
    LET pid == Head(queue).pid IN
    /\ looping /\ queue # <<>> /\ Head(queue).what = "remove"
    /\ queue' = Tail(queue)
    /\ parser' =
         IF pid \in DOMAIN parser.psi
         THEN [parser EXCEPT !.psi = [s \in DOMAIN @ \ {pid} |-> @[s]]]
         ELSE [parser EXCEPT !.streams = [s \in DOMAIN @ \ {pid} |-> @[s]]]
    /\ UNCHANGED <<transport, sent, feeder, controller, chunk, looping, mBufferGeneration, mStopped,
                   mRemainingBytesBuffer, base, budget, clean>>

Stop ==
    /\ controller = Idle /\ ~mStopped
    /\ mStopped' = TRUE
    /\ UNCHANGED <<transport, sent, threads, mBufferGeneration, mRemainingBytesBuffer, parser, base,
                   budget, clean>>

\* close, after its flush: the looper stops, and who waits for an answer leaves.
Close ==
    /\ controller.at = "close"
    /\ controller' = [at |-> "closed"]
    /\ looping' = FALSE
    /\ queue' = <<>>
    /\ feeder' = IF feeder = Blocked THEN Idle ELSE feeder
    /\ UNCHANGED <<transport, sent, chunk, demux, base, budget, clean>>

Controls ==
    \/ \E after \in {"idle", "close"} : (after = "close" => mStopped) /\ Flush(after)
    \/ PostFlush
    \/ \E pid \in Pids : AddDemuxFilter(pid) \/ RemoveDemuxFilter(pid)
    \/ Stop
    \/ Close
Feeds == (\E n \in 1..MaxChunk : FeedTs(n)) \/ Lose \/ PostFeed
Handles == HandleFeed \/ HandleFlush \/ HandleAdd \/ HandleRemove
SwNext == Controls \/ Feeds \/ Handles

SwSpec == SwInit /\ [][SwNext]_swvars

---------------------------------------------------------------------------

\* The cells of what a filter was called with come in the order they were sent in, none
\* of them twice.
ComesInOrder(pid) ==
    \A i, j \in DOMAIN delivered[pid] :
        LET a == delivered[pid][i].cells
            b == delivered[pid][j].cells
        IN  \A k \in DOMAIN a, l \in DOMAIN b :
              (i < j \/ (i = j /\ k < l)) /\ a[k].id # 0 /\ b[l].id # 0 => a[k].id < b[l].id

\* The sections of a table come in order and no part of them twice, within a section and
\* from one to the next, whatever was lost, flushed or cut and however filters came and
\* went (SwTsParser::parsePID, PSISection).
SectionsInOrder == \A pid \in {s \in Pids : IsSection(s)} : ComesInOrder(pid)

\* So do the access units of a stream (ElementaryStreamQueue).
FramesInOrder == \A pid \in {s \in Pids : ~IsSection(s)} : ComesInOrder(pid)

\* What is in the PES packet of a pid up to a packet, and whether a payload ends in zero
\* bytes.
PesUpto(pid) ==
    LET pes[n \in 0..Len(Packets)] ==
            IF n = 0 THEN <<>>
            ELSE IF Packets[n].pid # pid \/ Packets[n].error \/ ~Packets[n].payload THEN pes[n-1]
            ELSE IF Packets[n].start THEN <<Packets[n].cells[1], Packets[n].cells[2]>>
            ELSE pes[n-1] \o <<Packets[n].cells[1], Packets[n].cells[2]>>
    IN  pes
EndsInZeros(cells) == cells # <<>> /\ IsWhole(cells) /\ IsZero(Last(PesPayload(cells)))
ZerosInside(pid) == \A n \in 0..Len(Packets) : ~EndsInZeros(PesUpto(pid)[n])

\* Each frame has the timestamp of the PES packet it began in.  MPEG audio is left out
\* once something was lost: what is dropped there keeps its timestamps.  H.264 and H.265
\* are left out where a payload ends in zero bytes: these stay in the queue, with the
\* timestamp of their payload, and the next frame gets it.
FramesStamped ==
    \A pid \in {s \in Pids : ~IsSection(s)} :
        /\ transport.codec[pid] = "MPEG_AUDIO" => clean
        /\ transport.codec[pid] \in {"H264", "H265"} => ZerosInside(pid)
        =>  \A i \in DOMAIN delivered[pid] :
                LET first == Head(delivered[pid][i].cells).id IN
                first # 0 => delivered[pid][i].pts = transport.pts[first]

\* The frames of a stream come in order, no part of them twice, each with its timestamp
\* (ElementaryStreamQueue).
FramesTimely == FramesInOrder /\ FramesStamped

\* A stream that nothing was lost of arrives, all of it, into whatever pieces it was cut
\* to be fed (AmlSwDemux::onFeedData).
CleanStreamArrives ==
    clean /\ sent = 2 * Len(Packets) /\ feeder = Idle =>
        \A pid \in mChannels :
            [i \in DOMAIN delivered[pid] |-> [j \in DOMAIN delivered[pid][i].cells |->
                                                delivered[pid][i].cells[j].id]]
            = transport.arrives[pid]
=============================================================================
