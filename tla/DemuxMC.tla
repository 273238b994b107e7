------------------------------ MODULE DemuxMC ------------------------------
(***************************************************************************)
(* What the demux side makes of a stream: a behaviour is one of the parser *)
(* of tables, with two programs whose PMTs change, or one of the software  *)
(* demux, with a short transport stream for each codec.                    *)
(***************************************************************************)
EXTENDS TsParser, SwDemux

VARIABLE part

\* The other half is at rest in one of its initial states.
Init == /\ part \in {"tables", "stream"} /\ ParserInit /\ SwInit
        /\ part = "tables" => transport = CHOOSE t \in Transports : TRUE
        /\ part = "stream" =>
            /\ mProgramNumber = 1
            /\ onAir = CHOOSE air \in [DOMAIN Pmts -> [content : UNION Range(Pmts), version : {0}]] :
                          \A p \in DOMAIN Pmts : air[p].content \in Pmts[p]

Next ==
    \/ part = "tables" /\ ParserNext /\ UNCHANGED <<part, swvars>>
    \/ part = "stream" /\ SwNext /\ UNCHANGED <<part, parservars>>

\* The fairness of ParserSpec.
Spec == /\ Init /\ [][Next]_<<part, parservars, swvars>>
        /\ \A c \in Client : WF_parservars(~fault /\ Wake(c))

---------------------------------------------------------------------------
(* Tables: streams come, go and change type and pid.                       *)

Entry(pid, type, descriptors) == [pid |-> pid, type |-> type, descriptors |-> descriptors]
Desc(tag, id) == [tag |-> tag, id |-> id]
Content(n, descriptors, streams) ==
    [programNumber |-> n, current |-> TRUE, descriptors |-> descriptors, streams |-> streams]

AvcEntry == Entry(31, 27, <<>>)
HevcEntry == Entry(33, 36, <<>>)
Mp3Entry == Entry(32, 3, <<Desc(LanguageTag, 0)>>)
Private(pid) == Entry(pid, 6, <<Desc(ExtensionTag, 21), Desc(CaTag, 50)>>)
Ad == Entry(35, 15, <<Desc(LanguageTag, 3)>>)
Teletext == Entry(36, 6, <<Desc(TeletextTag, 1)>>)

MCPats == {<<[programNumber |-> 1, pmtPid |-> 20], [programNumber |-> 2, pmtPid |-> 21]>>,
           <<[programNumber |-> 0, pmtPid |-> 16]>>}
MCCats == {<<>>, <<Desc(CaTag, 60)>>}
MCPmts ==
    (20 :> {Content(1, <<>>, <<AvcEntry, Mp3Entry>>), Content(1, <<>>, <<HevcEntry, Ad, Teletext>>),
            Content(1, <<Desc(CaTag, 50)>>, <<Private(32), AvcEntry>>)}) @@
    (21 :> {Content(2, <<>>, <<Entry(41, 27, <<>>)>>),
            [Content(2, <<>>, <<AvcEntry, Entry(31, 36, <<>>)>>) EXCEPT !.current = FALSE],
            Content(2, <<>>, <<AvcEntry>>)})
MCSelections ==
    {[program |-> 1, video |-> INVALID, audio |-> INVALID],
     [program |-> -1, video |-> INVALID, audio |-> INVALID],
     [program |-> -1, video |-> 31, audio |-> INVALID]}
---------------------------------------------------------------------------
(* Streams: each cell has its place as id.                                 *)

Packet(pid, cc, start, c1, c2) ==
    [pid |-> pid, cc |-> cc, start |-> start, error |-> FALSE, payload |-> TRUE, cells |-> <<c1, c2>>]
Section(id, number, version, length, programs) ==
    [id |-> id, start |-> TRUE, len |-> 0, syntax |-> TRUE, length |-> length, number |-> number,
     version |-> version, programs |-> programs]
\* What is read as a section without a checksum, or, the second, as one with it.
Body(id, length) == [id |-> id, start |-> FALSE, syntax |-> FALSE, length |-> length]
Lookalike(id, length) == [Section(id, 0, 0, length, <<>>) EXCEPT !.start = FALSE]
Pes(id, length, pts) ==
    [id |-> id, start |-> FALSE, syntax |-> FALSE, length |-> 5,
     pes |-> [length |-> length, pts |-> pts, padding |-> FALSE]]
Es(id, start, code, new, len) == [id |-> id, start |-> start, code |-> code, new |-> new, len |-> len]
Nal(id, code, new) == Es(id, TRUE, code, new, 0)
More(id) == Es(id, FALSE, 0, FALSE, 0)
Zero(id) == Es(id, FALSE, Zeros, FALSE, 0)
Frame(id, code, len) == Es(id, TRUE, code, FALSE, len)

Tables == <<Packet(0, 0, TRUE, Section(1, 0, 3, 0, <<20>>), Body(2, 5)),
            Packet(20, 0, TRUE, Section(3, 0, 1, 2, <<>>), Body(4, 0)),
            Packet(20, 1, FALSE, Lookalike(5, 1), Body(6, 9)),
            Packet(20, 2, FALSE, Body(7, 9), Body(8, 0)),
            Packet(20, 3, TRUE, Section(9, 0, 1, 1, <<>>), Body(10, 0))>>
TablesSent == {<<Section(1, 0, 3, 0, <<20>>)>>,
               <<Section(3, 0, 1, 2, <<>>), Body(4, 0), Lookalike(5, 1)>>,
               <<Section(9, 0, 1, 1, <<>>), Body(10, 0)>>}

\* PES packets of pid 31, numbered on from the counter 14: each [length, pts, cells].
Transport(mode, packets, pts, units) ==
    [codec |-> (31 :> mode), packets |-> packets, sections |-> {}, pts |-> pts,
     arrives |-> (31 :> units)]
Es1(cc, start, c1, c2) == Packet(31, cc, start, c1, c2)

PsiTransport ==
    [codec |-> (0 :> "PSI") @@ (20 :> "PSI"), packets |-> Tables, sections |-> TablesSent,
     pts |-> <<>>, arrives |-> (0 :> <<<<1>>>>) @@ (20 :> <<<<3, 4, 5>>>>)]

\* Cells 11, 12.. are in the PES packet with timestamp 1, 21.. in that with 2.
Times == [id \in 11..59 |-> id \div 10]

H264 == Transport("H264",
    <<Es1(14, TRUE, Pes(10, 0, 1), Nal(11, 9, FALSE)), Es1(15, FALSE, Nal(12, 5, TRUE), More(13)),
      Es1(0, TRUE, Pes(20, 0, 2), Nal(21, 1, TRUE)), Es1(1, FALSE, Zero(22), Nal(23, 1, FALSE)),
      Es1(2, FALSE, Zero(24), Nal(25, 7, FALSE)), Es1(3, TRUE, Pes(30, 3, 3), Nal(31, 5, TRUE)),
      Es1(4, FALSE, Nal(32, 9, FALSE), Nal(33, 1, TRUE)), Es1(5, TRUE, Pes(40, 0, 4), More(41))>>,
    Times, <<<<11, 12, 13>>, <<21, 23>>, <<25, 31>>>>)
\* The first payload ends in zero bytes: the second frame has its timestamp.
ZeroEnd == Transport("H264",
    <<Es1(14, TRUE, Pes(10, 0, 1), Nal(11, 5, TRUE)), Es1(15, FALSE, More(12), Zero(13)),
      Es1(0, TRUE, Pes(20, 0, 2), Nal(21, 9, FALSE)), Es1(1, FALSE, Nal(22, 1, TRUE), More(23)),
      Es1(2, FALSE, Nal(24, 9, FALSE), Nal(25, 1, TRUE)), Es1(3, TRUE, Pes(30, 0, 3), More(31))>>,
    Times, <<<<11, 12>>, <<21, 22, 23>>>>)
Hevc == Transport("H265",
    <<Es1(14, TRUE, Pes(10, 0, 1), More(11)), Es1(15, FALSE, Nal(12, 32, FALSE), Nal(13, 19, TRUE)),
      Es1(0, FALSE, Zero(14), More(15)), Es1(1, TRUE, Pes(20, 0, 2), Nal(21, 1, TRUE)),
      Es1(2, TRUE, Pes(30, 0, 3), Nal(31, 35, FALSE)), Es1(3, FALSE, Nal(32, 1, TRUE), Nal(33, 1, TRUE)),
      Es1(4, TRUE, Pes(40, 0, 4), More(41))>>,
    Times, <<<<12, 13, 14, 15>>, <<21>>>>)
Aac == Transport("AAC",
    <<Es1(14, TRUE, Pes(10, 3, 1), More(11)), Es1(15, FALSE, Frame(12, Adts, 1), Frame(13, Adts, 2)),
      Es1(0, TRUE, Pes(20, 1, 2), More(21)), Es1(1, TRUE, Pes(30, 1, 3), Frame(31, Adts, 1)),
      Es1(2, TRUE, Pes(40, 1, 4), Frame(41, Adts, 1))>>,
    Times, <<<<12, 13, 21>>, <<31>>>>)
Dolby == Transport("EAC3",
    <<Es1(14, TRUE, Pes(10, 0, 1), More(11)), Es1(15, FALSE, Frame(12, Eac3, 2), More(13)),
      Es1(0, TRUE, Pes(20, 0, 2), Frame(21, Eac3, 3)), Es1(1, TRUE, Pes(30, 0, 3), More(31)),
      Es1(2, FALSE, More(32), Frame(33, Eac3, 1)), Es1(3, TRUE, Pes(40, 1, 4), Frame(41, Eac3, 1))>>,
    Times, <<<<12, 13>>, <<21, 31, 32>>, <<33>>>>)
Mp2 == Transport("MPEG_AUDIO",
    <<Es1(14, TRUE, Pes(10, 0, 1), Frame(11, Mpa, 2)), Es1(15, FALSE, More(12), Frame(13, Mpa, 2)),
      Es1(0, TRUE, Pes(20, 0, 2), More(21)), Es1(1, TRUE, Pes(30, 0, 3), Frame(31, Mpa, 1)),
      Es1(2, TRUE, Pes(40, 0, 4), Frame(41, Mpa, 1))>>,
    Times, <<<<11, 12>>, <<13, 21>>, <<31>>>>)
Mpeg2 == Transport("MPEG_VIDEO",
    <<Es1(14, TRUE, Pes(10, 0, 1), Nal(11, 0, FALSE)), Es1(15, FALSE, Nal(12, 179, FALSE), Nal(13, 181, FALSE)),
      Es1(0, TRUE, Pes(20, 0, 2), Nal(21, 0, FALSE)), Es1(1, FALSE, Nal(22, 1, FALSE), More(23)),
      Es1(2, TRUE, Pes(30, 0, 3), Nal(31, 0, FALSE)), Es1(3, TRUE, Pes(40, 0, 4), Nal(41, 0, FALSE)),
      Es1(4, TRUE, Pes(50, 0, 5), Nal(51, 0, FALSE))>>,
    Times, <<<<12, 13, 21, 22, 23>>, <<31>>>>)
Mpeg4 == Transport("MPEG4_VIDEO",
    <<Es1(14, TRUE, Pes(10, 0, 1), Nal(11, 176, FALSE)), Es1(15, FALSE, Nal(12, 181, FALSE), Nal(13, 0, FALSE)),
      Es1(0, TRUE, Pes(20, 0, 2), Nal(21, 32, FALSE)), Es1(1, FALSE, Nal(22, 182, FALSE), Nal(23, 182, FALSE)),
      Es1(2, TRUE, Pes(30, 0, 3), Nal(31, 182, FALSE)), Es1(3, TRUE, Pes(40, 0, 4), Nal(41, 182, FALSE))>>,
    Times, <<<<11, 12, 13, 21, 22>>, <<23>>>>)

MCTransports == {PsiTransport, H264, ZeroEnd, Hevc, Aac, Dolby, Mp2, Mpeg2, Mpeg4}
=============================================================================
