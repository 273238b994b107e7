---------------------------- MODULE DemuxProofs ----------------------------
(***************************************************************************)
(* What is proved of the demux.  Of the parser of tables: what it says of  *)
(* the program is of the program that was selected, and whoever follows    *)
(* its reports knows the streams of the last PMT; for any tables on the    *)
(* air, in any order and any number of versions, any selection and any     *)
(* number of waiting clients; what is assumed of PMTs is named.  Of the    *)
(* software demux, for any streams: access units come out in order, frames *)
(* too, and of a stream that nothing was lost of they come as if its       *)
(* packets came one by one, with the right timestamps.                     *)
(***************************************************************************)
EXTENDS TsParser, SwDemux, FiniteSetTheorems, SequenceTheorems, WellFoundedInduction, TLAPS

(* A set of places has a first one.                                        *)
LEMMA FirstOf ==
    ASSUME NEW S \in SUBSET Nat, S # {}
    PROVE  \E i \in S : \A j \in S : i <= j
<1>1. PICK x \in S : \A y \in S : ~(<<y, x>> \in OpToRel(<, Nat))
  BY NatLessThanWellFounded, WFMin, Zenon
<1>2. \A y \in S : ~(y < x)
  BY <1>1, Zenon DEF OpToRel
<1> QED
  BY <1>2
-----------------------------------------------------------------------------
(* TsParser: the program information against the PMTs.                     *)

(* A program has one PMT.                                                  *)
OnePmtPerProgram ==
    \A p, q \in DOMAIN Pmts : \A c \in Pmts[p], d \in Pmts[q] :
        c.programNumber = d.programNumber => p = q

Part == Kinds \cup {"ad"}
InfoFields == {"programNumber", "pmtPid", "scrambled", "emmPid", "ecmPid", "audio", "video",
               "subtitle", "ad", "streams"}

(* s is what pmtCb makes of a PMT on pid p.                                *)
IsSectionOf(s, p) == \E c \in Pmts[p] : c.current /\ s = PmtSection(p, c, s.version)
StreamsOf(s) == {s.streams[i] : i \in DOMAIN s.streams}

TablesOK ==
    /\ DOMAIN mProgramInfo = InfoFields
    /\ DOMAIN onAir = DOMAIN Pmts /\ \A p \in DOMAIN Pmts : onAir[p].content \in Pmts[p]
    /\ DOMAIN mPidPmtMap \subseteq DOMAIN Pmts
    /\ \A p \in DOMAIN mPidPmtMap : IsSectionOf(mPidPmtMap[p], p)

(* The section that is gone through is the last of the selected program.   *)
HandlingOK ==
    /\ pc \in {"idle", "start", "fill"}
    /\ pc # "idle" =>
          /\ \E p \in DOMAIN mPidPmtMap : pmt = mPidPmtMap[p]
          /\ pmt.programNumber = mProgramNumber
    /\ pc = "fill" =>
          /\ toFill \in Seq(StreamsOf(pmt))
          /\ mProgramInfo.programNumber = pmt.programNumber /\ mProgramInfo.pmtPid = pmt.pmtPid

(* A stream of the selected program, whose PMT was seen.                   *)
OfProgram(pid) ==
    \E p \in DOMAIN mPidPmtMap : \E c \in Pmts[p] :
        /\ c.programNumber = mProgramNumber
        /\ \E i \in DOMAIN c.streams : c.streams[i].pid = pid

ProgramOK ==
    /\ mProgramInfo.programNumber # -1 => mProgramInfo.programNumber = mProgramNumber
    /\ \A what \in Part : mProgramInfo[what].pid # INVALID =>
          mProgramInfo.programNumber # -1 /\ OfProgram(mProgramInfo[what].pid)

DoneOK ==
    (mParseDone /\ ~emptyPat) =>
        /\ mProgramInfo.audio.pid # INVALID \/ mProgramInfo.video.pid # INVALID
        /\ pc # "idle" => ~found.isNew

InfoInv == TablesOK /\ HandlingOK /\ ProgramOK /\ DoneOK

(* The tables of codecs hold codecs.                                       *)
CodecTables == {g_streamTypes, g_descTypes \cup g_identifierTypes \cup g_extDescTypes}

LEMMA RowsAreCodecs ==
    \A table \in CodecTables : \A row \in table : row.kind \in Kinds /\ row # Unknown
<1>1. \A row \in g_streamTypes : row.kind \in Kinds
  BY DEF g_streamTypes, Row, Kinds
<1>2. \A row \in g_descTypes \cup g_identifierTypes \cup g_extDescTypes : row.kind \in Kinds
  BY DEF g_descTypes, g_identifierTypes, g_extDescTypes, Row, Kinds
<1>3. Unknown.kind \notin Kinds
  BY DEF Unknown, Row, Kinds
<1> QED
  BY <1>1, <1>2, <1>3 DEF CodecTables

LEMMA FoundInTable ==
    ASSUME NEW table \in CodecTables, NEW type,
           getStreamTypeInfo(type, table) # Unknown
    PROVE  getStreamTypeInfo(type, table).kind \in Kinds
<1>1. \E row \in table : row.type = type
  BY DEF getStreamTypeInfo
<1>2. getStreamTypeInfo(type, table) \in table
  BY <1>1 DEF getStreamTypeInfo
<1> QED
  BY <1>2, RowsAreCodecs

LEMMA CodecsHaveKinds ==
    ASSUME NEW entry, entry.descriptors \in Seq([tag : Nat, id : Nat]),
           StreamCodec(Stream(entry)) # Unknown
    PROVE  StreamCodec(Stream(entry)).kind \in Kinds
<1> DEFINE s == Stream(entry)
           others == g_descTypes \cup g_identifierTypes \cup g_extDescTypes
           byTag == [i \in DOMAIN s.tags |-> getStreamTypeInfo(s.tags[i], others)]
           known == {i \in DOMAIN s.tags : byTag[i] # Unknown}
<1>1. g_streamTypes \in CodecTables /\ others \in CodecTables
  BY DEF CodecTables
<1>2. CASE getStreamTypeInfo(s.type, g_streamTypes) # Unknown
  <2>1. StreamCodec(s) = getStreamTypeInfo(s.type, g_streamTypes)
    BY <1>2 DEF StreamCodec
  <2> QED
    BY <2>1, <1>1, <1>2, FoundInTable
<1>3. CASE getStreamTypeInfo(s.type, g_streamTypes) = Unknown
  <2>1. StreamCodec(s) = IF known # {} THEN byTag[Min(known)] ELSE Unknown
    BY <1>3 DEF StreamCodec
  <2>2. known # {}
    BY <2>1
  <2>3. DOMAIN s.tags = 1 .. Len(entry.descriptors)
    BY DEF Stream
  <2>4. known \in SUBSET Nat
    BY <2>3
  <2>5. Min(known) \in known
    <3> HIDE DEF known
    <3> QED
      BY <2>2, <2>4, FirstOf DEF Min
  <2>6. byTag[Min(known)] # Unknown
    BY <2>5
  <2>7. byTag[Min(known)] = getStreamTypeInfo(s.tags[Min(known)], others)
    BY <2>5
  <2> HIDE DEF s, others, byTag, known
  <2> QED
    BY <2>1, <2>2, <2>6, <2>7, <1>1, FoundInTable DEF s
<1> QED
  BY <1>2, <1>3

(* What is known of a section that was parsed.                             *)
LEMMA SectionFacts ==
    ASSUME NEW p \in DOMAIN Pmts, NEW s, IsSectionOf(s, p)
    PROVE  /\ s.pmtPid = p /\ s.programNumber \in Nat
           /\ \E c \in Pmts[p] :
                 /\ c.programNumber = s.programNumber
                 /\ DOMAIN s.streams = 1 .. Len(c.streams) /\ Len(c.streams) \in Nat
                 /\ \A i \in DOMAIN s.streams :
                       /\ s.streams[i] = Stream(c.streams[i])
                       /\ s.streams[i].pid = c.streams[i].pid
                       /\ s.streams[i].pid \in Nat \ {INVALID}
                       /\ c.streams[i].descriptors \in Seq([tag : Nat, id : Nat])
<1>1. PICK c \in Pmts[p] : s = PmtSection(p, c, s.version)
  BY DEF IsSectionOf
<1>2. /\ p \in Nat /\ c.programNumber \in Nat
      /\ c.streams \in Seq(PmtEntry)
  BY PmtAssumption
<1>3. /\ s.pmtPid = p /\ s.programNumber = c.programNumber
      /\ s.streams = [i \in DOMAIN c.streams |-> Stream(c.streams[i])]
  BY <1>1 DEF PmtSection
<1>4. DOMAIN c.streams = 1 .. Len(c.streams) /\ Len(c.streams) \in Nat
  BY <1>2
<1>5. ASSUME NEW i \in DOMAIN c.streams
      PROVE  /\ s.streams[i] = Stream(c.streams[i])
             /\ s.streams[i].pid = c.streams[i].pid
             /\ s.streams[i].pid \in Nat \ {INVALID}
             /\ c.streams[i].descriptors \in Seq([tag : Nat, id : Nat])
  <2>1. c.streams[i] \in PmtEntry
    BY <1>2, <1>4
  <2>2. s.streams[i] = Stream(c.streams[i])
    BY <1>3
  <2> QED
    BY <2>1, <2>2 DEF Stream, PmtEntry
<1> QED
  BY <1>2, <1>3, <1>4, <1>5

(* What leaves the tables and the information alone keeps the invariant.   *)
LEMMA InfoQuiet ==
    ASSUME InfoInv, UNCHANGED <<pc, pmt, toFill, found, mProgramNumber, mPidPmtMap, mProgramInfo,
                                mParseDone, emptyPat>>,
           DOMAIN onAir' = DOMAIN Pmts, \A p \in DOMAIN Pmts : onAir[p]'.content \in Pmts[p]
    PROVE  InfoInv'
BY DEF InfoInv, TablesOK, HandlingOK, ProgramOK, DoneOK, OfProgram

LEMMA InfoInitial == ParserInit => InfoInv
<1> SUFFICES ASSUME ParserInit PROVE InfoInv
  OBVIOUS
<1>1. mProgramInfo = EmptyInfo /\ mPidPmtMap = <<>> /\ pc = "idle" /\ mParseDone = FALSE
  BY DEF ParserInit
<1>2. PICK first \in [DOMAIN Pmts -> UNION {Pmts[p] : p \in DOMAIN Pmts}] :
        /\ \A p \in DOMAIN Pmts : first[p] \in Pmts[p]
        /\ onAir = [p \in DOMAIN Pmts |-> [content |-> first[p], version |-> 0]]
  BY DEF ParserInit
<1>3. TablesOK
  BY <1>1, <1>2 DEF TablesOK, EmptyInfo, InfoFields
<1>4. \A what \in Part : mProgramInfo[what].pid = INVALID
  BY <1>1 DEF EmptyInfo, NoStream, Part, Kinds
<1>5. ProgramOK
  BY <1>1, <1>4 DEF ProgramOK, EmptyInfo
<1> QED
  BY <1>1, <1>3, <1>5 DEF InfoInv, HandlingOK, DoneOK

LEMMA PatKeepsInfo ==
    ASSUME InfoInv, NEW pat, onPatParsed(pat) PROVE InfoInv'
<1>1. /\ UNCHANGED <<pc, pmt, toFill, found, mPidPmtMap, mProgramInfo, onAir>> /\ pc = "idle"
      /\ mProgramNumber' # mProgramNumber => mProgramNumber = -1
      /\ (mParseDone' /\ ~emptyPat') => (mParseDone /\ ~emptyPat)
  BY DEF onPatParsed, notifyParseDone, handling
<1>2. mProgramNumber = -1 => mProgramInfo.programNumber = -1
  BY DEF InfoInv, ProgramOK
<1>3. TablesOK' /\ HandlingOK' /\ DoneOK'
  BY <1>1 DEF InfoInv, TablesOK, HandlingOK, DoneOK
<1>4. ProgramOK'
  BY <1>1, <1>2 DEF InfoInv, ProgramOK, OfProgram
<1> QED
  BY <1>3, <1>4 DEF InfoInv

LEMMA CatKeepsInfo ==
    ASSUME InfoInv, NEW cat, onCatParsed(cat) PROVE InfoInv'
<1>1. /\ UNCHANGED <<pc, pmt, toFill, found, mPidPmtMap, mProgramNumber, emptyPat, onAir>>
      /\ pc = "idle"
      /\ mProgramInfo' = [mProgramInfo EXCEPT !.scrambled = TRUE, !.emmPid = EmmPid(cat)]
      /\ mParseDone' => mParseDone \/ programComplete(mProgramInfo')
  BY DEF onCatParsed, handling, tables
<1>2. /\ DOMAIN mProgramInfo' = InfoFields
      /\ mProgramInfo'.programNumber = mProgramInfo.programNumber
      /\ \A what \in Part : mProgramInfo'[what] = mProgramInfo[what]
      /\ mProgramInfo'.audio = mProgramInfo.audio /\ mProgramInfo'.video = mProgramInfo.video
  BY <1>1 DEF InfoInv, TablesOK, InfoFields, Part, Kinds
<1>3. TablesOK' /\ HandlingOK'
  BY <1>1, <1>2 DEF InfoInv, TablesOK, HandlingOK
<1>4. ProgramOK'
  BY <1>1, <1>2 DEF InfoInv, ProgramOK, OfProgram
<1>5. DoneOK'
  BY <1>1, <1>2 DEF InfoInv, DoneOK, programComplete
<1> QED
  BY <1>3, <1>4, <1>5 DEF InfoInv

(* A section of the selected program that is the first of its PMT is the   *)
(* first of the program.                                                   *)
LEMMA PmtKeepsInfo ==
    ASSUME OnePmtPerProgram, InfoInv, NEW p \in DOMAIN Pmts, onPmtParsed(p)
    PROVE  InfoInv'
<1> DEFINE section == PmtSection(p, onAir[p].content, onAir[p].version)
           selected == IsSelected(section)
<1>1. /\ pc = "idle" /\ onAir[p].content.current
      /\ mPidPmtMap' = [q \in DOMAIN mPidPmtMap \cup {p} |->
                            IF q = p THEN section ELSE mPidPmtMap[q]]
      /\ mProgramNumber' = IF selected THEN section.programNumber ELSE mProgramNumber
      /\ selected => pc' = "start" /\ pmt' = section /\ found'.isNew = (p \notin DOMAIN mPidPmtMap)
      /\ ~selected => UNCHANGED <<pc, pmt, found>>
      /\ UNCHANGED <<toFill, mProgramInfo, mParseDone, onAir, emptyPat>>
  BY DEF onPmtParsed, flags
<1>2. IsSectionOf(section, p)
  BY <1>1 DEF InfoInv, TablesOK, IsSectionOf, PmtSection
<1>3. section.programNumber \in Nat /\ section.programNumber = onAir[p].content.programNumber
  BY <1>2, SectionFacts DEF PmtSection
<1>4. selected /\ mProgramNumber # -1 => section.programNumber = mProgramNumber
  BY DEF IsSelected
<1> HIDE DEF section, selected
<1>5. mProgramNumber # -1 => mProgramNumber' = mProgramNumber
  BY <1>1, <1>4
<1>6. TablesOK'
  BY <1>1, <1>2 DEF InfoInv, TablesOK
<1>7. HandlingOK'
  BY <1>1, <1>2 DEF InfoInv, HandlingOK
<1>8. \A pid : OfProgram(pid) => mProgramNumber # -1
  BY PmtAssumption DEF OfProgram, InfoInv, TablesOK
<1>9. \A pid : OfProgram(pid) => OfProgram(pid)'
  BY <1>1, <1>5, <1>8 DEF OfProgram
<1>10. ProgramOK'
  BY <1>1, <1>5, <1>9 DEF InfoInv, ProgramOK
<1>11. ASSUME mParseDone, ~emptyPat, selected PROVE p \in DOMAIN mPidPmtMap
  <2>1. PICK what \in Part : mProgramInfo[what].pid # INVALID
    BY <1>11 DEF InfoInv, DoneOK, Part, Kinds
  <2>2. OfProgram(mProgramInfo[what].pid)
    BY <2>1 DEF InfoInv, ProgramOK
  <2>3. PICK q \in DOMAIN mPidPmtMap : \E c \in Pmts[q] : c.programNumber = mProgramNumber
    BY <2>2 DEF OfProgram
  <2>4. section.programNumber = mProgramNumber
    BY <2>2, <1>4, <1>8, <1>11
  <2>5. onAir[p].content \in Pmts[p] /\ q \in DOMAIN Pmts
    BY DEF InfoInv, TablesOK
  <2> QED
    BY <2>3, <2>4, <2>5, <1>3 DEF OnePmtPerProgram
<1>12. DoneOK'
  BY <1>1, <1>11 DEF InfoInv, DoneOK
<1> QED
  BY <1>6, <1>7, <1>10, <1>12 DEF InfoInv

LEMMA FillProgramKeepsInfo ==
    ASSUME InfoInv, FillProgram PROVE InfoInv'
<1>1. /\ UNCHANGED <<pmt, found, mPidPmtMap, mProgramNumber, mParseDone, emptyPat, onAir>>
      /\ pc = "start" /\ pc' = "fill" /\ toFill' = pmt.streams
  BY DEF FillProgram, tables, flags
<1>2. /\ DOMAIN mProgramInfo' = InfoFields
      /\ mProgramInfo'.programNumber = pmt.programNumber /\ mProgramInfo'.pmtPid = pmt.pmtPid
      /\ \A what \in Part : mProgramInfo'[what] = mProgramInfo[what]
      /\ mProgramInfo'.audio = mProgramInfo.audio /\ mProgramInfo'.video = mProgramInfo.video
  BY DEF FillProgram, InfoInv, TablesOK, InfoFields, Part, Kinds
<1>3. PICK p \in DOMAIN mPidPmtMap : pmt = mPidPmtMap[p]
  BY <1>1 DEF InfoInv, HandlingOK
<1>4. pmt.programNumber = mProgramNumber
  BY <1>1 DEF InfoInv, HandlingOK
<1>5. p \in DOMAIN Pmts /\ IsSectionOf(pmt, p)
  BY <1>3 DEF InfoInv, TablesOK
<1>6. \E n \in Nat : DOMAIN pmt.streams = 1 .. n
  BY <1>5, SectionFacts
<1>7. pmt.streams \in Seq(StreamsOf(pmt))
  <2>1. PICK c \in Pmts[p] : pmt = PmtSection(p, c, pmt.version)
    BY <1>5 DEF IsSectionOf
  <2>2. pmt.streams = [i \in DOMAIN c.streams |-> Stream(c.streams[i])]
    BY <2>1 DEF PmtSection
  <2>3. DOMAIN c.streams = 1 .. Len(c.streams) /\ Len(c.streams) \in Nat
    BY <1>5, PmtAssumption
  <2> QED
    BY <2>2, <2>3 DEF StreamsOf
<1>8. TablesOK'
  BY <1>1, <1>2 DEF InfoInv, TablesOK
<1>9. HandlingOK'
  BY <1>1, <1>2, <1>3, <1>4, <1>7 DEF HandlingOK, StreamsOf
<1>10. ProgramOK'
  BY <1>1, <1>2, <1>4, <1>5, SectionFacts DEF InfoInv, ProgramOK, OfProgram
<1>11. DoneOK'
  BY <1>1, <1>2 DEF InfoInv, DoneOK
<1> QED
  BY <1>8, <1>9, <1>10, <1>11 DEF InfoInv

(* What FillStream makes of the information: a part that is still missing  *)
(* may become the stream at hand.                                          *)
LEMMA FillStreamFacts ==
    ASSUME InfoInv, FillStream
    PROVE  /\ DOMAIN mProgramInfo' = InfoFields
           /\ mProgramInfo'.programNumber = mProgramInfo.programNumber
           /\ mProgramInfo'.pmtPid = mProgramInfo.pmtPid
           /\ \A what \in Part :
                 \/ mProgramInfo'[what] = mProgramInfo[what]
                 \/ mProgramInfo[what].pid = INVALID /\ mProgramInfo'[what].pid = Head(toFill).pid
           /\ Head(toFill) \in StreamsOf(pmt)
           /\ mProgramInfo'.streams = mProgramInfo.streams \cup
                 (IF StreamCodec(Head(toFill)) = Unknown THEN {} ELSE {Head(toFill).pid})
<1>1. pc = "fill" /\ toFill # <<>> /\ toFill \in Seq(StreamsOf(pmt))
  BY DEF FillStream, InfoInv, HandlingOK
<1>2. Head(toFill) \in StreamsOf(pmt)
  BY <1>1
<1> DEFINE stream == Head(toFill)
           codec == StreamCodec(stream)
           what == IF codec.kind = "audio" /\ stream.isAD THEN "ad" ELSE codec.kind
           listed == [mProgramInfo EXCEPT !.streams = @ \cup {stream.pid}]
           named == [listed EXCEPT ![what] = [pid |-> stream.pid, codec |-> codec.codec,
                         page |-> IF codec.codec = "teletext" THEN stream.page ELSE -1]]
           late == [named EXCEPT !.ecmPid[what] = stream.ecmPid]
<1>3. mProgramInfo' =
             IF codec = Unknown THEN mProgramInfo
             ELSE IF mProgramInfo[what].pid # INVALID THEN listed
             ELSE IF what # "ad" /\ stream.ecmPid # INVALID THEN late ELSE named
  BY DEF FillStream
<1>4. DOMAIN mProgramInfo = InfoFields
  BY DEF InfoInv, TablesOK
<1>5. codec # Unknown => what \in Part
  <2>1. PICK p \in DOMAIN mPidPmtMap : pmt = mPidPmtMap[p]
    BY <1>1 DEF InfoInv, HandlingOK
  <2>2. p \in DOMAIN Pmts /\ IsSectionOf(pmt, p)
    BY <2>1 DEF InfoInv, TablesOK
  <2>3. PICK c \in Pmts[p] : \A i \in DOMAIN pmt.streams :
            /\ pmt.streams[i] = Stream(c.streams[i])
            /\ c.streams[i].descriptors \in Seq([tag : Nat, id : Nat])
    BY <2>2, SectionFacts
  <2>4. PICK i \in DOMAIN pmt.streams : stream = pmt.streams[i]
    BY <1>2 DEF StreamsOf
  <2>5. ASSUME codec # Unknown PROVE codec.kind \in Kinds
    BY <2>3, <2>4, <2>5, CodecsHaveKinds
  <2> HIDE DEF codec, stream
  <2> QED
    BY <2>5 DEF Part, Kinds
<1>6. \A x \in Part : x \in InfoFields /\ x \notin {"programNumber", "pmtPid", "streams", "ecmPid"}
  BY DEF Part, Kinds, InfoFields
<1> HIDE DEF what, codec, stream
<1>7. /\ DOMAIN listed = InfoFields /\ listed.streams = mProgramInfo.streams \cup {stream.pid}
      /\ \A x \in InfoFields \ {"streams"} : listed[x] = mProgramInfo[x]
  BY <1>4 DEF InfoFields
<1>8. ASSUME what \in Part
      PROVE  /\ DOMAIN named = InfoFields /\ named[what].pid = stream.pid
             /\ \A x \in InfoFields \ {what} : named[x] = listed[x]
  <2> HIDE DEF listed
  <2> QED
    BY <1>7, <1>6, <1>8
<1>9. ASSUME what \in Part
      PROVE  /\ DOMAIN late = InfoFields
             /\ \A x \in InfoFields \ {"ecmPid"} : late[x] = named[x]
  <2> HIDE DEF named
  <2> QED
    BY <1>8, <1>6, <1>9
<1> HIDE DEF listed, named, late
<1>10. mProgramInfo'.streams = mProgramInfo.streams \cup (IF codec = Unknown THEN {} ELSE {stream.pid})
  BY <1>3, <1>5, <1>6, <1>7, <1>8, <1>9 DEF InfoFields
<1>11. /\ DOMAIN mProgramInfo' = InfoFields
       /\ \A x \in {"programNumber", "pmtPid"} : mProgramInfo'[x] = mProgramInfo[x]
  BY <1>3, <1>4, <1>5, <1>6, <1>7, <1>8, <1>9 DEF InfoFields
<1>12. ASSUME NEW x \in Part
       PROVE  \/ mProgramInfo'[x] = mProgramInfo[x]
              \/ mProgramInfo[x].pid = INVALID /\ mProgramInfo'[x].pid = stream.pid
  BY <1>3, <1>5, <1>6, <1>7, <1>8, <1>9
<1> QED
  BY <1>2, <1>10, <1>11, <1>12 DEF codec, stream

LEMMA FillStreamKeepsInfo ==
    ASSUME InfoInv, FillStream PROVE InfoInv'
<1>1. /\ UNCHANGED <<pc, pmt, found, mPidPmtMap, mProgramNumber, mParseDone, emptyPat, onAir>>
      /\ pc = "fill" /\ toFill' = Tail(toFill) /\ toFill # <<>>
  BY DEF FillStream, tables, flags
<1>2. /\ \E p \in DOMAIN mPidPmtMap : pmt = mPidPmtMap[p]
      /\ pmt.programNumber = mProgramNumber /\ toFill \in Seq(StreamsOf(pmt))
      /\ mProgramInfo.programNumber = pmt.programNumber /\ mProgramInfo.pmtPid = pmt.pmtPid
  BY <1>1 DEF InfoInv, HandlingOK
<1>3. TablesOK'
  BY <1>1, FillStreamFacts DEF InfoInv, TablesOK
<1>4. HandlingOK'
  BY <1>1, <1>2, FillStreamFacts DEF HandlingOK, StreamsOf
<1>5. OfProgram(Head(toFill).pid) /\ mProgramNumber # -1
  <2>1. PICK p \in DOMAIN mPidPmtMap : pmt = mPidPmtMap[p]
    BY <1>2
  <2>2. p \in DOMAIN Pmts /\ IsSectionOf(pmt, p)
    BY <2>1 DEF InfoInv, TablesOK
  <2>3. PICK c \in Pmts[p] :
            /\ c.programNumber = pmt.programNumber
            /\ DOMAIN pmt.streams = DOMAIN c.streams
            /\ \A i \in DOMAIN pmt.streams : pmt.streams[i].pid = c.streams[i].pid
    <3>1. \A c \in Pmts[p] : DOMAIN c.streams = 1 .. Len(c.streams)
      BY <2>2, PmtAssumption
    <3> QED
      BY <2>2, <3>1, SectionFacts
  <2>4. PICK i \in DOMAIN pmt.streams : Head(toFill) = pmt.streams[i]
    BY FillStreamFacts DEF StreamsOf
  <2>5. pmt.programNumber \in Nat
    BY <2>2, SectionFacts
  <2> QED
    BY <1>2, <2>1, <2>3, <2>4, <2>5 DEF OfProgram
<1>6. mProgramInfo.programNumber = mProgramNumber
  BY <1>2
<1>7. ProgramOK'
  BY <1>1, <1>5, <1>6, FillStreamFacts DEF InfoInv, ProgramOK, OfProgram
<1>8. DoneOK'
  BY <1>1, <1>5, FillStreamFacts DEF InfoInv, DoneOK, Part, Kinds
<1> QED
  BY <1>3, <1>4, <1>7, <1>8 DEF InfoInv

LEMMA ReportKeepsInfo ==
    ASSUME InfoInv, Report PROVE InfoInv'
<1>1. /\ UNCHANGED <<toFill, mProgramInfo, mPidPmtMap, mProgramNumber, emptyPat, onAir>>
      /\ pc' = "idle" /\ (mParseDone' => mParseDone \/ programComplete(mProgramInfo))
  BY DEF Report, notifyParseDone, tables
<1>2. TablesOK' /\ HandlingOK' /\ ProgramOK'
  BY <1>1 DEF InfoInv, TablesOK, HandlingOK, ProgramOK, OfProgram
<1>3. DoneOK'
  BY <1>1 DEF InfoInv, DoneOK, programComplete
<1> QED
  BY <1>2, <1>3 DEF InfoInv

LEMMA InfoStep ==
    ASSUME OnePmtPerProgram, InfoInv, [ParserNext]_parservars PROVE InfoInv'
<1>1. DOMAIN onAir = DOMAIN Pmts /\ \A p \in DOMAIN Pmts : onAir[p].content \in Pmts[p]
  BY DEF InfoInv, TablesOK
<1>2. CASE UNCHANGED parservars
  BY <1>1, <1>2, InfoQuiet DEF parservars, handling, tables, flags
<1>3. CASE DemuxStep
  BY <1>3, PatKeepsInfo, CatKeepsInfo, PmtKeepsInfo, FillProgramKeepsInfo, FillStreamKeepsInfo,
     ReportKeepsInfo DEF DemuxStep
<1>4. CASE signalQuit
  BY <1>1, <1>4, InfoQuiet DEF signalQuit, handling, tables
<1>5. ASSUME NEW p \in DOMAIN Pmts, Rebroadcast(p) PROVE InfoInv'
  <2>1. PICK content \in Pmts[p] :
            onAir' = [onAir EXCEPT ![p] = [content |-> content, version |-> @.version + 1]]
    BY <1>5 DEF Rebroadcast
  <2>2. DOMAIN onAir' = DOMAIN Pmts /\ \A q \in DOMAIN Pmts : onAir'[q].content \in Pmts[q]
    BY <1>1, <2>1
  <2> QED
    BY <1>5, <2>2, InfoQuiet DEF Rebroadcast, handling, tables, flags
<1>6. ASSUME NEW c \in Client, Wake(c) \/ TimeOut(c) \/ \E what \in {"program", "cat"} : WaitFor(c, what)
      PROVE  InfoInv'
  BY <1>1, <1>6, InfoQuiet DEF Wake, TimeOut, WaitFor, handling, tables, flags
<1> QED
  BY <1>2, <1>3, <1>4, <1>5, <1>6 DEF ParserNext

(* Whoever is told that the program is known finds an audio or a video     *)
(* stream of the selected program, from a PMT gone through to its end:     *)
(* parts that onPmtParsed fills in without mLock are never of another      *)
(* program, in whatever order and version the tables come.                 *)
THEOREM WhatIsKnownIsTheProgram ==
    ASSUME OnePmtPerProgram
    PROVE  ParserSpec => []InfoIsTheProgram
<1>1. InfoInv /\ [ParserNext]_parservars => InfoInv'
  BY InfoStep
<1>2. InfoInv => InfoIsTheProgram
  <2> SUFFICES ASSUME InfoInv PROVE InfoIsTheProgram
    OBVIOUS
  <2>1. ASSUME NEW what \in Kinds \cup {"ad"}, mProgramInfo[what].pid # INVALID
        PROVE  \E p \in DOMAIN Pmts : \E content \in Pmts[p] :
                  /\ content.programNumber = mProgramNumber
                  /\ \E i \in DOMAIN content.streams : content.streams[i].pid = mProgramInfo[what].pid
    BY <2>1 DEF InfoInv, ProgramOK, OfProgram, Part, TablesOK
  <2>2. mProgramInfo.programNumber \in {-1, mProgramNumber}
    BY DEF InfoInv, ProgramOK
  <2>3. (mParseDone /\ ~emptyPat) =>
            /\ INVALID \notin {mProgramInfo.audio.pid} \cap {mProgramInfo.video.pid}
            /\ pc # "idle" => ~found.isNew
    BY DEF InfoInv, DoneOK
  <2> QED
    BY <2>1, <2>2, <2>3 DEF InfoIsTheProgram
<1> QED
  BY InfoInitial, <1>1, <1>2, PTL DEF ParserSpec

-----------------------------------------------------------------------------
(* checkPidChange.                                                         *)
LEMMA MinIn ==
    ASSUME NEW S \in SUBSET Nat, S # {} PROVE Min(S) \in S
BY FirstOf DEF Min

LEMMA InductionToLength ==
    ASSUME NEW L \in Nat, NEW T, 0 \in T,
           \A n \in 1 .. L : n - 1 \in T => n \in T
    PROVE  \A n \in 0 .. L : n \in T
<1> DEFINE Rest == {n \in 0 .. L : n \notin T}
<1>1. ASSUME Rest # {} PROVE FALSE
  <2>1. Rest \subseteq Nat
    OBVIOUS
  <2> HIDE DEF Rest
  <2>2. PICK x \in Rest : \A y \in Rest : x <= y
    BY <2>1, <1>1, FirstOf, Zenon
  <2> USE DEF Rest
  <2>4. x \in 1 .. L /\ x - 1 \notin Rest
    BY <2>2
  <2> QED
    BY <2>4
<1> QED
  BY <1>1

IsLoop(f, L, S, b, step) ==
    /\ f \in [0 .. L -> S] /\ f[0] = b
    /\ \A n \in 1 .. L : f[n] = step[n][f[n - 1]]

LEMMA LoopExists ==
    ASSUME NEW L \in Nat, NEW S, NEW b \in S, NEW step \in [1 .. L -> [S -> S]]
    PROVE  \E f : IsLoop(f, L, S, b, step)
<1> DEFINE Upto(f, m) == /\ f \in [0 .. m -> S] /\ f[0] = b
                         /\ \A n \in 1 .. m : f[n] = step[n][f[n - 1]]
           T == {m \in 0 .. L : \E f : Upto(f, m)}
<1>1. 0 \in T
  <2> DEFINE g == [n \in 0 .. 0 |-> b]
  <2>1. Upto(g, 0)
    OBVIOUS
  <2> HIDE DEF g, Upto
  <2> QED
    BY <2>1
<1>2. ASSUME NEW m \in 1 .. L, m - 1 \in T PROVE m \in T
  <2>1. PICK f : Upto(f, m - 1)
    BY <1>2
  <2> DEFINE g == [n \in 0 .. m |-> IF n = m THEN step[m][f[m - 1]] ELSE f[n]]
  <2>2. f[m - 1] \in S
    BY <2>1
  <2>3. step[m] \in [S -> S]
    OBVIOUS
  <2>4. step[m][f[m - 1]] \in S
    BY <2>2, <2>3
  <2>5. g \in [0 .. m -> S]
    BY <2>4, <2>1
  <2>6. g[0] = b
    BY <2>1
  <2>7. ASSUME NEW n \in 1 .. m PROVE g[n] = step[n][g[n - 1]]
    BY <2>1
  <2> HIDE DEF g
  <2>8. Upto(g, m)
    BY <2>5, <2>6, <2>7
  <2> HIDE DEF Upto
  <2> QED
    BY <2>8
<1>3. \A m \in 1 .. L : m - 1 \in T => m \in T
  BY <1>2
<1> HIDE DEF T
<1>4. \A n \in 0 .. L : n \in T
  BY <1>1, <1>3, InductionToLength
<1>5. L \in T
  BY <1>4
<1>6. PICK f : Upto(f, L)
  BY <1>5 DEF T
<1>7. IsLoop(f, L, S, b, step)
  BY <1>6 DEF IsLoop
<1> QED
  BY <1>7

(* What the rounds over the streams that are gone work on.                 *)
Rounds(gone, left) ==
    [gone : SUBSET gone, left : SUBSET left, changed : SUBSET (Nat \X Nat), null : BOOLEAN]
Olds(changed) == {c[1] : c \in changed}
News(changed) == {c[2] : c \in changed} \ {INVALID}

(* A round: one of the streams that are gone gets a new one or none.       *)
IsRound(acc, r) ==
    \E p \in acc.gone : \E q \in acc.left \cup {INVALID} :
        /\ r.gone = acc.gone \ {p} /\ r.left = acc.left \ {q}
        /\ r.changed = acc.changed \cup {<<p, q>>}

LEMMA OneRound ==
    ASSUME NEW G \in SUBSET Nat, NEW F \in SUBSET (Nat \ {INVALID}), NEW old, NEW new,
           NEW acc \in Rounds(G, F), acc.gone # {}
    PROVE  /\ Replace(old, new, acc) \in Rounds(G, F)
           /\ IsRound(acc, Replace(old, new, acc))
<1> DEFINE p == Min(acc.gone)
           fit == {x \in acc.left : Fits(old, new, p, x)}
           q == IF fit = {} THEN INVALID ELSE Min(fit)
           compared == {x \in acc.left : x <= q /\ ~SameType(old, new, p, x)}
           null == acc.null \/ \E x \in compared : Unknown \in {TypeInfo(old, p), TypeInfo(new, x)}
<1>1. Replace(old, new, acc) =
          [gone |-> acc.gone \ {p}, left |-> acc.left \ {q}, changed |-> acc.changed \cup {<<p, q>>},
           null |-> null]
  BY DEF Replace
<1>2. /\ acc.gone \in SUBSET G /\ acc.left \in SUBSET F /\ acc.changed \in SUBSET (Nat \X Nat)
      /\ acc.null \in BOOLEAN
  BY DEF Rounds
<1>3. p \in acc.gone
  BY <1>2, MinIn
<1>4. q \in acc.left \cup {INVALID}
  <2>1. fit \in SUBSET Nat /\ fit \subseteq acc.left
    BY <1>2
  <2> HIDE DEF fit
  <2>2. fit # {} => Min(fit) \in fit
    BY <2>1, MinIn
  <2> QED
    BY <2>1, <2>2
<1>5. null \in BOOLEAN
  BY Zenon
<1> HIDE DEF p, q, null
<1>6. p \in Nat /\ q \in Nat
  <2>1. acc.gone \subseteq Nat /\ acc.left \subseteq Nat
    BY <1>2
  <2>2. INVALID \in Nat
    BY DEF INVALID
  <2> QED
    BY <2>1, <2>2, <1>3, <1>4
<1>7. Replace(old, new, acc) \in Rounds(G, F)
  BY <1>1, <1>2, <1>5, <1>6 DEF Rounds
<1>8. IsRound(acc, Replace(old, new, acc))
  BY <1>1, <1>3, <1>4 DEF IsRound
<1> QED
  BY <1>7, <1>8

WithPair(C, p, q) == C \cup {<<p, q>>}

LEMMA PairSides ==
    ASSUME NEW C, NEW p, NEW q
    PROVE  /\ Olds(WithPair(C, p, q)) = Olds(C) \cup {p}
           /\ News(WithPair(C, p, q)) = News(C) \cup ({q} \ {INVALID})
<1>1. <<p, q>>[1] = p /\ <<p, q>>[2] = q
  OBVIOUS
<1>2. {c[1] : c \in WithPair(C, p, q)} = {c[1] : c \in C} \cup {p}
  BY <1>1, Zenon DEF WithPair
<1>3. {c[2] : c \in WithPair(C, p, q)} = {c[2] : c \in C} \cup {q}
  BY <1>1, Zenon DEF WithPair
<1> QED
  BY <1>2, <1>3 DEF Olds, News

(* What holds after each round: as many have been looked at, and each that *)
(* was is the old pid of a pair.                                           *)
AfterRound(start, acc, n) ==
    /\ acc \in Rounds(start.gone, start.left)
    /\ IsFiniteSet(acc.gone) /\ Cardinality(acc.gone) = Cardinality(start.gone) - n
    /\ Olds(acc.changed) = Olds(start.changed) \cup (start.gone \ acc.gone)
    /\ News(acc.changed) = News(start.changed) \cup (start.left \ acc.left)

LEMMA RoundKeeps ==
    ASSUME NEW old, NEW new, NEW start, NEW acc, NEW n \in Nat,
           start.gone \in SUBSET Nat, start.left \in SUBSET (Nat \ {INVALID}),
           AfterRound(start, acc, n), acc.gone # {},
           Cardinality(start.gone) \in Nat
    PROVE  AfterRound(start, Replace(old, new, acc), n + 1)
<1> DEFINE r == Replace(old, new, acc)
<1>1. acc \in Rounds(start.gone, start.left)
  BY DEF AfterRound
<1>2. r \in Rounds(start.gone, start.left) /\ IsRound(acc, r)
  BY <1>1, OneRound
<1> HIDE DEF r
<1>3. PICK p \in acc.gone : \E q \in acc.left \cup {INVALID} :
          r.gone = acc.gone \ {p} /\ r.left = acc.left \ {q} /\ r.changed = acc.changed \cup {<<p, q>>}
  BY <1>2, Zenon DEF IsRound
<1>4. PICK q \in acc.left \cup {INVALID} :
          r.gone = acc.gone \ {p} /\ r.left = acc.left \ {q} /\ r.changed = acc.changed \cup {<<p, q>>}
  BY <1>3
<1>5. IsFiniteSet(r.gone) /\ Cardinality(r.gone) = Cardinality(start.gone) - (n + 1)
  <2>1. IsFiniteSet(acc.gone) /\ Cardinality(acc.gone) = Cardinality(start.gone) - n
    BY DEF AfterRound
  <2>2. IsFiniteSet(acc.gone \ {p}) /\ Cardinality(acc.gone \ {p}) = Cardinality(acc.gone) - 1
    BY <2>1, <1>3, FS_RemoveElement
  <2> QED
    BY <2>1, <2>2, <1>4
<1>6. acc.gone \subseteq start.gone /\ acc.left \subseteq start.left
  BY <1>1 DEF Rounds
<1>7. /\ Olds(acc.changed \cup {<<p, q>>}) = Olds(acc.changed) \cup {p}
      /\ News(acc.changed \cup {<<p, q>>}) = News(acc.changed) \cup ({q} \ {INVALID})
  <2>1. /\ Olds(WithPair(acc.changed, p, q)) = Olds(acc.changed) \cup {p}
        /\ News(WithPair(acc.changed, p, q)) = News(acc.changed) \cup ({q} \ {INVALID})
    BY PairSides
  <2> QED
    BY <2>1, Zenon DEF WithPair
<1>8. r.changed = acc.changed \cup {<<p, q>>}
  BY <1>4, Zenon
<1>9. Olds(r.changed) = Olds(acc.changed) \cup {p}
  BY <1>7, <1>8, Zenon
<1>10. News(r.changed) = News(acc.changed) \cup ({q} \ {INVALID})
  BY <1>7, <1>8, Zenon
<1>11. Olds(r.changed) = Olds(start.changed) \cup (start.gone \ r.gone)
  BY <1>4, <1>6, <1>9 DEF AfterRound
<1>12. News(r.changed) = News(start.changed) \cup (start.left \ r.left)
  BY <1>4, <1>6, <1>10 DEF AfterRound
<1> QED
  BY <1>2, <1>5, <1>11, <1>12 DEF AfterRound, r

(* g[n] is what n rounds come to.                                          *)
GoesRound(old, new, start, g) ==
    /\ g[0] = start
    /\ \A n \in 1 .. Cardinality(start.gone) :
          g[n - 1].gone # {} => g[n] = Replace(old, new, g[n - 1])

LEMMA RoundsKeep ==
    ASSUME NEW old, NEW new, NEW start, NEW g,
           start \in Rounds(start.gone, start.left),
           start.gone \in SUBSET Nat, start.left \in SUBSET (Nat \ {INVALID}),
           IsFiniteSet(start.gone), GoesRound(old, new, start, g)
    PROVE  \A n \in 0 .. Cardinality(start.gone) : AfterRound(start, g[n], n)
<1> DEFINE L == Cardinality(start.gone)
           T == {n \in 0 .. L : AfterRound(start, g[n], n)}
<1>1. L \in Nat
  BY FS_CardinalityType
<1>2. AfterRound(start, g[0], 0)
  BY <1>1 DEF AfterRound, GoesRound
<1>3. ASSUME NEW n \in 1 .. L, AfterRound(start, g[n - 1], n - 1)
      PROVE  AfterRound(start, g[n], n)
  <2>1. n - 1 \in Nat /\ (n - 1) + 1 = n
    BY <1>1
  <2>2. IsFiniteSet(g[n - 1].gone) /\ Cardinality(g[n - 1].gone) = L - (n - 1)
    BY <1>3 DEF AfterRound
  <2>3. g[n - 1].gone # {}
    <3>1. L - (n - 1) # 0
      BY <1>1
    <3> QED
      BY <2>2, <3>1, FS_EmptySet
  <2>4. g[n] = Replace(old, new, g[n - 1])
    BY <2>3 DEF GoesRound
  <2>5. AfterRound(start, Replace(old, new, g[n - 1]), (n - 1) + 1)
    BY <1>1, <1>3, <2>1, <2>3, RoundKeeps
  <2> QED
    BY <2>1, <2>4, <2>5
<1>4. 0 \in T /\ \A n \in 1 .. L : n - 1 \in T => n \in T
  BY <1>1, <1>2, <1>3
<1> HIDE DEF T
<1>5. \A n \in 0 .. L : n \in T
  BY <1>1, <1>4, InductionToLength
<1> QED
  BY <1>5 DEF T

(* After the last round no stream that is gone is left to look at.         *)
LEMMA AllAreReplaced ==
    ASSUME NEW old, NEW new, NEW start,
           start \in Rounds(start.gone, start.left),
           start.gone \in SUBSET Nat, start.left \in SUBSET (Nat \ {INVALID}),
           IsFiniteSet(start.gone)
    PROVE  AfterRound(start, Replaced(old, new, start), Cardinality(start.gone))
<1> DEFINE L == Cardinality(start.gone)
           S == Rounds(start.gone, start.left)
           round == [acc \in S |-> IF acc.gone # {} THEN Replace(old, new, acc) ELSE acc]
           step == [n \in 1 .. L |-> round]
           loop(f) == [n \in 0 .. L |-> IF n = 0 THEN start ELSE Replace(old, new, f[n - 1])]
           after == CHOOSE f : f = loop(f)
<1>1. L \in Nat
  BY FS_CardinalityType
<1>2. \E f : f = loop(f)
  <2>1. round \in [S -> S]
    BY OneRound
  <2>2. step \in [1 .. L -> [S -> S]] /\ start \in S
    BY <2>1
  <2> HIDE DEF step
  <2>3. PICK f : IsLoop(f, L, S, start, step)
    <3> HIDE DEF S, round, L
    <3> QED
      BY <2>2, <1>1, LoopExists
  <2>4. f \in [0 .. L -> S] /\ f[0] = start /\ \A n \in 1 .. L : f[n] = step[n][f[n - 1]]
    BY <2>3 DEF IsLoop
  <2>5. ASSUME NEW n \in 1 .. L, f[n - 1].gone # {} PROVE f[n] = Replace(old, new, f[n - 1])
    <3>1. f[n - 1] \in S
      BY <2>4, <1>1
    <3>2. step[n] = round
      BY DEF step
    <3>3. round[f[n - 1]] = Replace(old, new, f[n - 1])
      BY <3>1, <2>5
    <3>4. f[n] = step[n][f[n - 1]]
      BY <2>4, Zenon
    <3> QED
      BY <3>2, <3>3, <3>4
  <2>6. \A n \in 0 .. L : AfterRound(start, f[n], n)
    <3>1. GoesRound(old, new, start, f)
      BY <2>4, <2>5 DEF GoesRound
    <3> QED
      BY <3>1, RoundsKeep
  <2>7. ASSUME NEW n \in 1 .. L PROVE f[n] = Replace(old, new, f[n - 1])
    <3>1. AfterRound(start, f[n - 1], n - 1)
      BY <2>6, <1>1
    <3>2. Cardinality(f[n - 1].gone) = L - (n - 1) /\ IsFiniteSet(f[n - 1].gone)
      BY <3>1 DEF AfterRound
    <3>3. L - (n - 1) # 0
      BY <1>1
    <3> QED
      BY <2>5, <3>2, <3>3, FS_EmptySet
  <2>8. ASSUME NEW n \in 0 .. L PROVE f[n] = loop(f)[n]
    <3>1. CASE n = 0
      BY <3>1, <2>4
    <3>2. CASE n # 0
      BY <3>2, <2>7, <1>1
    <3> QED
      BY <3>1, <3>2
  <2>9. f = [n \in 0 .. L |-> f[n]] /\ loop(f) = [n \in 0 .. L |-> loop(f)[n]]
    BY <2>4
  <2>10. f = loop(f)
    BY <2>8, <2>9, Zenon
  <2> QED
    BY <2>10
<1>3. after = loop(after)
  BY <1>2
<1>4. Replaced(old, new, start) = after[L]
  BY DEF Replaced
<1> HIDE DEF after
<1>5. after[0] = start /\ \A n \in 1 .. L : after[n] = Replace(old, new, after[n - 1])
  <2>1. \A n \in 0 .. L : after[n] = loop(after)[n]
    BY <1>3
  <2> QED
    BY <2>1, <1>1
<1>6. \A n \in 0 .. L : AfterRound(start, after[n], n)
  <2>1. GoesRound(old, new, start, after)
    BY <1>5 DEF GoesRound
  <2> QED
    BY <2>1, RoundsKeep
<1> QED
  BY <1>1, <1>4, <1>6
-----------------------------------------------------------------------------
(* The changes that listeners are told of.                                 *)

(* A PMT is of one program.                                                *)
OneProgramPerPmt ==
    \A p \in DOMAIN Pmts : \A c, d \in Pmts[p] : c.programNumber = d.programNumber

(* A PMT that is current names a pid once.                                 *)
NamedOnce ==
    \A p \in DOMAIN Pmts : \A c \in Pmts[p] :
        c.current => \A i, j \in DOMAIN c.streams : c.streams[i].pid = c.streams[j].pid => i = j

(* Versions of a PMT that name a pid with one type both know its codec or  *)
(* both do not: the descriptors of a private stream stay what they are.    *)
KnownByType ==
    \A p \in DOMAIN Pmts : \A c, d \in {x \in Pmts[p] : x.current} :
        \A i \in DOMAIN c.streams, j \in DOMAIN d.streams :
            c.streams[i].pid = d.streams[j].pid /\ c.streams[i].type = d.streams[j].type =>
                (StreamCodec(Stream(c.streams[i])) = Unknown <=> StreamCodec(Stream(d.streams[j])) = Unknown)

Tells(pids, s) == Known(s) \subseteq pids /\ (pids = Known(s) \/ reportedLate)
KnownIn(streams) == {streams[i].pid : i \in {j \in DOMAIN streams : StreamCodec(streams[j]) # Unknown}}
Current == mPidPmtMap[mProgramInfo.pmtPid]

CurrentOK ==
    mProgramInfo.programNumber # -1 =>
        /\ mProgramInfo.pmtPid \in DOMAIN mPidPmtMap
        /\ Current.programNumber = mProgramNumber

(* The lists of streams hold those of the last PMT.                        *)
StreamsOK ==
    /\ pc = "idle" /\ mProgramInfo.programNumber # -1 => Known(Current) \subseteq mProgramInfo.streams
    /\ pc = "fill" => Known(pmt) \subseteq mProgramInfo.streams \cup KnownIn(toFill)

ReportedOK ==
    /\ reported # {} => mProgramInfo.programNumber # -1
    /\ pc = "idle" => \A pids \in reported : Tells(pids, Current)
    /\ pc # "idle" => IF found.isNew THEN reported = {}
                      ELSE \A pids \in reported : Tells(Follow(pids, found.changed), pmt)

ChangesInv == CurrentOK /\ StreamsOK /\ ReportedOK
ListenerInv == InfoInv /\ (fault \/ ChangesInv)

(* What checkPidChange makes of the streams of a section.                  *)
LEMMA StreamMapFacts ==
    ASSUME NEW p \in DOMAIN Pmts, NEW s, IsSectionOf(s, p)
    PROVE  /\ DOMAIN StreamMap(s) \in SUBSET (Nat \ {INVALID}) /\ IsFiniteSet(DOMAIN StreamMap(s))
           /\ \A i \in DOMAIN s.streams : s.streams[i].pid \in DOMAIN StreamMap(s)
           /\ \A q \in DOMAIN StreamMap(s) : \E i \in DOMAIN s.streams :
                 s.streams[i].pid = q /\ StreamMap(s)[q] = s.streams[i]
<1> DEFINE Named == {s.streams[i].pid : i \in DOMAIN s.streams}
           Places(q) == {i \in DOMAIN s.streams : s.streams[i].pid = q}
<1>1. StreamMap(s) = [q \in Named |-> s.streams[Min(Places(q))]]
  BY DEF StreamMap
<1>2. PICK n \in Nat : DOMAIN s.streams = 1 .. n
  BY SectionFacts
<1>3. \A i \in DOMAIN s.streams : s.streams[i].pid \in Nat \ {INVALID}
  BY SectionFacts
<1>4. IsFiniteSet(Named)
  <2> DEFINE f == [i \in 1 .. n |-> s.streams[i].pid]
  <2>1. f \in Surjection(1 .. n, Named)
    BY <1>2 DEF Surjection
  <2>2. IsFiniteSet(1 .. n)
    BY FS_Interval
  <2> QED
    BY <2>1, <2>2, FS_Surjection
<1>5. ASSUME NEW q \in Named
      PROVE  \E i \in DOMAIN s.streams : s.streams[i].pid = q /\ StreamMap(s)[q] = s.streams[i]
  <2>1. Places(q) # {} /\ Places(q) \in SUBSET Nat
    BY <1>2
  <2>2. Min(Places(q)) \in Places(q)
    <3> HIDE DEF Places
    <3> QED
      BY <2>1, MinIn
  <2> QED
    BY <1>1, <2>2
<1> HIDE DEF Places
<1> QED
  BY <1>1, <1>3, <1>4, <1>5

(* The pids that both sections name with one type.                         *)
Unchanged(os, ns) ==
    {q \in DOMAIN StreamMap(os) \cap DOMAIN StreamMap(ns) :
        SameType(StreamMap(os), StreamMap(ns), q, q)}

LEMMA SidesOfPairs ==
    ASSUME NEW S PROVE Olds({<<x, x>> : x \in S}) = S /\ News({<<x, x>> : x \in S}) = S \ {INVALID}
<1>1. \A x : <<x, x>>[1] = x /\ <<x, x>>[2] = x
  OBVIOUS
<1>2. {c[1] : c \in {<<x, x>> : x \in S}} = S /\ {c[2] : c \in {<<x, x>> : x \in S}} = S
  BY <1>1, Zenon
<1> QED
  BY <1>2 DEF Olds, News

LEMMA SidesOfNew ==
    ASSUME NEW C, NEW F
    PROVE  /\ Olds(C \cup {<<INVALID, q>> : q \in F}) \ {INVALID} = Olds(C) \ {INVALID}
           /\ News(C \cup {<<INVALID, q>> : q \in F}) = News(C) \cup (F \ {INVALID})
<1>1. \A q : <<INVALID, q>>[1] = INVALID /\ <<INVALID, q>>[2] = q
  OBVIOUS
<1>2. {c[1] : c \in C \cup {<<INVALID, q>> : q \in F}} \ {INVALID} = {c[1] : c \in C} \ {INVALID}
  BY <1>1, Zenon
<1>3. {c[2] : c \in C \cup {<<INVALID, q>> : q \in F}} = {c[2] : c \in C} \cup F
  BY <1>1, Zenon
<1> QED
  BY <1>2, <1>3 DEF Olds, News

(* The changes that checkPidChange finds name every stream that is gone,   *)
(* new or of another type, and no other, for any two versions of a PMT;    *)
(* and where it followed no null pointer the type of each new one is in    *)
(* the table.                                                              *)
THEOREM ChangesAreFound ==
    ASSUME NEW p \in DOMAIN Pmts, NEW os, NEW ns, IsSectionOf(os, p), IsSectionOf(ns, p)
    PROVE  LET result == checkPidChange(os, ns)
               same == Unchanged(os, ns)
           IN  /\ Olds(result.changed) \ {INVALID} = DOMAIN StreamMap(os) \ same
               /\ News(result.changed) = DOMAIN StreamMap(ns) \ same
               /\ ~result.null => \A q \in News(result.changed) : TypeInfo(StreamMap(ns), q) # Unknown
<1> DEFINE old == StreamMap(os)
           new == StreamMap(ns)
           both == DOMAIN old \cap DOMAIN new
           retyped == {<<x, x>> : x \in {y \in both : ~SameType(old, new, y, y)}}
           start == [gone |-> DOMAIN old \ both, left |-> DOMAIN new \ both,
                     changed |-> retyped, null |-> FALSE]
           replaced == Replaced(old, new, start)
           changed == replaced.changed \cup {<<INVALID, q>> : q \in replaced.left}
           null == replaced.null \/ \E c \in changed : c[2] # INVALID /\ TypeInfo(new, c[2]) = Unknown
           same == Unchanged(os, ns)
<1>1. checkPidChange(os, ns) = [changed |-> changed, null |-> null]
  BY DEF checkPidChange
<1>2. /\ DOMAIN old \in SUBSET (Nat \ {INVALID}) /\ IsFiniteSet(DOMAIN old)
      /\ DOMAIN new \in SUBSET (Nat \ {INVALID})
  BY StreamMapFacts
<1>3. same \subseteq both /\ {y \in both : ~SameType(old, new, y, y)} = both \ same
  BY Zenon DEF Unchanged
<1>4. Olds(retyped) = both \ same /\ News(retyped) = both \ same
  <2>1. (both \ same) \ {INVALID} = both \ same
    BY <1>2
  <2> QED
    BY <1>3, <2>1, SidesOfPairs
<1>5. AfterRound(start, replaced, Cardinality(start.gone))
  <2>1. start.gone \in SUBSET Nat /\ start.left \in SUBSET (Nat \ {INVALID})
    BY <1>2
  <2>2. IsFiniteSet(start.gone)
    BY <1>2, FS_Difference
  <2>3. retyped \in SUBSET (Nat \X Nat)
    BY <1>2
  <2>4. start \in Rounds(start.gone, start.left)
    <3> HIDE DEF retyped
    <3> QED
      BY <2>3 DEF Rounds
  <2> HIDE DEF start
  <2> QED
    BY <2>1, <2>2, <2>4, AllAreReplaced
<1> HIDE DEF replaced, same
<1>6. replaced.gone = {} /\ replaced.left \subseteq start.left
  <2>1. IsFiniteSet(start.gone)
    BY <1>2, FS_Difference
  <2>2. Cardinality(start.gone) \in Nat
    BY <2>1, FS_CardinalityType
  <2> HIDE DEF start
  <2>3. IsFiniteSet(replaced.gone) /\ Cardinality(replaced.gone) = 0
    BY <1>5, <2>2 DEF AfterRound
  <2> QED
    BY <1>5, <2>3, FS_EmptySet DEF AfterRound, Rounds
<1>7. /\ Olds(replaced.changed) = (both \ same) \cup (DOMAIN old \ both)
      /\ News(replaced.changed) = (both \ same) \cup ((DOMAIN new \ both) \ replaced.left)
  <2>1. start.gone = DOMAIN old \ both /\ start.left = DOMAIN new \ both /\ start.changed = retyped
    OBVIOUS
  <2> HIDE DEF start, retyped
  <2> QED
    BY <1>4, <1>5, <1>6, <2>1 DEF AfterRound
<1>8. /\ Olds(changed) \ {INVALID} = Olds(replaced.changed) \ {INVALID}
      /\ News(changed) = News(replaced.changed) \cup (replaced.left \ {INVALID})
  BY SidesOfNew
<1>9. Olds(changed) \ {INVALID} = DOMAIN old \ same
  BY <1>2, <1>3, <1>7, <1>8
<1>10. News(changed) = DOMAIN new \ same
  BY <1>2, <1>3, <1>6, <1>7, <1>8
<1>11. ASSUME ~null, NEW q \in News(changed) PROVE TypeInfo(new, q) # Unknown
  <2> HIDE DEF changed, new
  <2> QED
    BY <1>11 DEF News
<1>12. checkPidChange(os, ns).changed = changed /\ checkPidChange(os, ns).null = null
  BY <1>1
<1> HIDE DEF changed, null, old, new
<1> QED
  BY <1>9, <1>10, <1>11, <1>12 DEF same, old, new

LEMMA SectionStreams ==
    ASSUME NEW p \in DOMAIN Pmts, NEW s, IsSectionOf(s, p)
    PROVE  \E c \in Pmts[p] :
              /\ c.current /\ c.programNumber = s.programNumber
              /\ DOMAIN s.streams = DOMAIN c.streams
              /\ \A i \in DOMAIN s.streams :
                    /\ s.streams[i] = Stream(c.streams[i])
                    /\ s.streams[i].pid = c.streams[i].pid /\ s.streams[i].type = c.streams[i].type
<1>1. PICK c \in Pmts[p] : c.current /\ s = PmtSection(p, c, s.version)
  BY DEF IsSectionOf
<1>2. s.programNumber = c.programNumber /\ s.streams = [i \in DOMAIN c.streams |-> Stream(c.streams[i])]
  BY <1>1 DEF PmtSection
<1>3. \A i \in DOMAIN c.streams :
          Stream(c.streams[i]).pid = c.streams[i].pid /\ Stream(c.streams[i]).type = c.streams[i].type
  BY DEF Stream
<1> QED
  BY <1>1, <1>2, <1>3

LEMMA KnownByMap ==
    ASSUME NamedOnce, NEW p \in DOMAIN Pmts, NEW s, IsSectionOf(s, p)
    PROVE  Known(s) = {q \in DOMAIN StreamMap(s) : StreamCodec(StreamMap(s)[q]) # Unknown}
<1>1. PICK c \in Pmts[p] :
          /\ c.current /\ DOMAIN s.streams = DOMAIN c.streams
          /\ \A i \in DOMAIN s.streams : s.streams[i].pid = c.streams[i].pid
  BY SectionStreams
<1>2. \A i, j \in DOMAIN s.streams : s.streams[i].pid = s.streams[j].pid => i = j
  BY <1>1 DEF NamedOnce
<1>3. /\ \A i \in DOMAIN s.streams : s.streams[i].pid \in DOMAIN StreamMap(s)
      /\ \A q \in DOMAIN StreamMap(s) : \E i \in DOMAIN s.streams :
            s.streams[i].pid = q /\ StreamMap(s)[q] = s.streams[i]
  BY StreamMapFacts
<1>4. ASSUME NEW i \in DOMAIN s.streams
      PROVE  StreamMap(s)[s.streams[i].pid] = s.streams[i]
  BY <1>2, <1>3
<1>5. Known(s) = {s.streams[i].pid : i \in {j \in DOMAIN s.streams : StreamCodec(s.streams[j]) # Unknown}}
  BY DEF Known
<1> QED
  BY <1>3, <1>4, <1>5

LEMMA KnownTypeIsKnown ==
    ASSUME NEW map, NEW q, TypeInfo(map, q) # Unknown PROVE StreamCodec(map[q]) # Unknown
BY DEF TypeInfo, StreamCodec

LEMMA UnchangedIsKnown ==
    ASSUME KnownByType, NEW p \in DOMAIN Pmts, NEW os, NEW ns, IsSectionOf(os, p), IsSectionOf(ns, p),
           NEW q \in Unchanged(os, ns)
    PROVE  /\ q \in DOMAIN StreamMap(os) /\ q \in DOMAIN StreamMap(ns)
           /\ StreamCodec(StreamMap(os)[q]) = Unknown <=> StreamCodec(StreamMap(ns)[q]) = Unknown
<1>1. /\ q \in DOMAIN StreamMap(os) /\ q \in DOMAIN StreamMap(ns)
      /\ StreamMap(os)[q].type = StreamMap(ns)[q].type
  BY DEF Unchanged, SameType
<1>2. PICK c \in Pmts[p] :
          /\ c.current /\ DOMAIN os.streams = DOMAIN c.streams
          /\ \A i \in DOMAIN os.streams :
                    /\ os.streams[i] = Stream(c.streams[i])
                    /\ os.streams[i].pid = c.streams[i].pid /\ os.streams[i].type = c.streams[i].type
  BY SectionStreams
<1>3. PICK d \in Pmts[p] :
          /\ d.current /\ DOMAIN ns.streams = DOMAIN d.streams
          /\ \A i \in DOMAIN ns.streams :
                    /\ ns.streams[i] = Stream(d.streams[i])
                    /\ ns.streams[i].pid = d.streams[i].pid /\ ns.streams[i].type = d.streams[i].type
  BY SectionStreams
<1>4. PICK i \in DOMAIN os.streams : os.streams[i].pid = q /\ StreamMap(os)[q] = os.streams[i]
  BY <1>1, StreamMapFacts
<1>5. PICK j \in DOMAIN ns.streams : ns.streams[j].pid = q /\ StreamMap(ns)[q] = ns.streams[j]
  BY <1>1, StreamMapFacts
<1>6. c.streams[i].pid = d.streams[j].pid /\ c.streams[i].type = d.streams[j].type
  BY <1>1, <1>2, <1>3, <1>4, <1>5
<1>7. StreamCodec(Stream(c.streams[i])) = Unknown <=> StreamCodec(Stream(d.streams[j])) = Unknown
  BY <1>2, <1>3, <1>6 DEF KnownByType
<1> QED
  BY <1>1, <1>2, <1>3, <1>4, <1>5, <1>7

(* Who knows the streams of one section and takes over the changes that    *)
(* checkPidChange finds knows those of the next.                           *)
LEMMA ChangesLeadOn ==
    ASSUME NamedOnce, KnownByType,
           NEW p \in DOMAIN Pmts, NEW os, NEW ns, IsSectionOf(os, p), IsSectionOf(ns, p),
           ~checkPidChange(os, ns).null, NEW pids, Known(os) \subseteq pids
    PROVE  /\ Known(ns) \subseteq Follow(pids, checkPidChange(os, ns).changed)
           /\ pids = Known(os) => Follow(pids, checkPidChange(os, ns).changed) = Known(ns)
<1> DEFINE changed == checkPidChange(os, ns).changed
           same == Unchanged(os, ns)
<1>1. /\ Olds(changed) \ {INVALID} = DOMAIN StreamMap(os) \ same
      /\ News(changed) = DOMAIN StreamMap(ns) \ same
      /\ \A q \in News(changed) : TypeInfo(StreamMap(ns), q) # Unknown
  BY ChangesAreFound
<1> HIDE DEF changed
<1>2. Follow(pids, changed) = (pids \ Olds(changed)) \cup News(changed)
  BY Zenon DEF Follow, Olds, News
<1>3. /\ INVALID \notin DOMAIN StreamMap(os) /\ INVALID \notin DOMAIN StreamMap(ns)
  BY StreamMapFacts
<1>4. /\ Known(os) = {q \in DOMAIN StreamMap(os) : StreamCodec(StreamMap(os)[q]) # Unknown}
      /\ Known(ns) = {q \in DOMAIN StreamMap(ns) : StreamCodec(StreamMap(ns)[q]) # Unknown}
  BY KnownByMap
<1>5. \A q \in News(changed) : q \in Known(ns)
  BY <1>1, <1>4, KnownTypeIsKnown
<1>6. \A q \in same : q \in Known(os) <=> q \in Known(ns)
  BY <1>4, UnchangedIsKnown
<1>7. \A q \in same : q \in DOMAIN StreamMap(os) /\ q \in DOMAIN StreamMap(ns)
  BY UnchangedIsKnown
<1>8. Known(os) \subseteq DOMAIN StreamMap(os) /\ Known(ns) \subseteq DOMAIN StreamMap(ns)
  BY <1>4
<1> HIDE DEF same
<1>9. ASSUME NEW q \in Known(ns) PROVE q \in Follow(pids, changed)
  <2>1. CASE q \in same
    BY <2>1, <1>1, <1>2, <1>3, <1>6, <1>7
  <2>2. CASE q \notin same
    BY <2>2, <1>1, <1>2, <1>8
  <2> QED
    BY <2>1, <2>2
<1>10. ASSUME pids = Known(os), NEW q \in Follow(pids, changed) PROVE q \in Known(ns)
  <2>1. CASE q \in News(changed)
    BY <2>1, <1>5
  <2>2. CASE q \in pids \ Olds(changed)
    BY <2>2, <1>10, <1>1, <1>3, <1>6, <1>8
  <2> QED
    BY <1>10, <2>1, <2>2, <1>2
<1> QED
  BY <1>9, <1>10 DEF changed

(* What leaves the program, its PMT and the listener alone.                *)
LEMMA ListenerQuiet ==
    ASSUME ChangesInv, UNCHANGED <<pc, pmt, toFill, found, mPidPmtMap, listener>>,
           mProgramInfo'.programNumber = mProgramInfo.programNumber,
           mProgramInfo'.pmtPid = mProgramInfo.pmtPid, mProgramInfo'.streams = mProgramInfo.streams,
           mProgramInfo.programNumber # -1 => mProgramNumber' = mProgramNumber
    PROVE  ChangesInv'
<1>1. Current' = Current
  BY DEF Current
<1>2. reported' = reported /\ reportedLate' = reportedLate
  BY DEF listener
<1>3. CurrentOK'
  BY <1>1 DEF ChangesInv, CurrentOK
<1>4. StreamsOK'
  BY <1>1 DEF ChangesInv, StreamsOK
<1>5. ReportedOK'
  BY <1>1, <1>2 DEF ChangesInv, ReportedOK, Tells
<1> QED
  BY <1>3, <1>4, <1>5 DEF ChangesInv

LEMMA ListenerInitial == ParserInit => ChangesInv
<1> SUFFICES ASSUME ParserInit PROVE ChangesInv
  OBVIOUS
<1>1. mProgramInfo.programNumber = -1 /\ pc = "idle" /\ reported = {}
  BY DEF ParserInit, EmptyInfo
<1> QED
  BY <1>1 DEF ChangesInv, CurrentOK, StreamsOK, ReportedOK

LEMMA PatKeepsListener ==
    ASSUME InfoInv, ChangesInv, NEW pat, onPatParsed(pat) PROVE ChangesInv'
<1>1. /\ UNCHANGED <<pc, pmt, toFill, found, mPidPmtMap, mProgramInfo, listener>>
      /\ mProgramNumber' # mProgramNumber => mProgramNumber = -1
  BY DEF onPatParsed, handling
<1>2. mProgramInfo.programNumber # -1 => mProgramInfo.programNumber = mProgramNumber
  BY DEF InfoInv, ProgramOK
<1> QED
  BY <1>1, <1>2, ListenerQuiet

LEMMA CatKeepsListener ==
    ASSUME InfoInv, ChangesInv, NEW cat, onCatParsed(cat) PROVE ChangesInv'
<1> DEFINE info == [mProgramInfo EXCEPT !.scrambled = TRUE, !.emmPid = EmmPid(cat)]
<1>1. /\ UNCHANGED <<pc, pmt, toFill, found, mPidPmtMap, mProgramNumber>> /\ pc = "idle"
      /\ mProgramInfo' = info
      /\ \/ UNCHANGED listener
         \/ /\ programComplete(info)
            /\ reported' = IF reported = {} THEN {info.streams} ELSE reported
            /\ reportedLate' = (reportedLate \/ reported = {})
  BY DEF onCatParsed, handling, tables
<1>2. /\ info.programNumber = mProgramInfo.programNumber /\ info.pmtPid = mProgramInfo.pmtPid
      /\ info.streams = mProgramInfo.streams
      /\ info.audio = mProgramInfo.audio /\ info.video = mProgramInfo.video
  BY DEF InfoInv, TablesOK, InfoFields
<1> HIDE DEF info
<1>3. CASE UNCHANGED listener
  BY <1>1, <1>2, <1>3, ListenerQuiet
<1>4. CASE /\ programComplete(info)
           /\ reported' = IF reported = {} THEN {info.streams} ELSE reported
           /\ reportedLate' = (reportedLate \/ reported = {})
  <2>1. mProgramInfo.programNumber # -1
    BY <1>2, <1>4 DEF programComplete, InfoInv, ProgramOK, Part, Kinds
  <2>2. Current' = Current
    BY <1>1, <1>2 DEF Current
  <2>3. Known(Current) \subseteq mProgramInfo.streams
    BY <1>1, <2>1 DEF ChangesInv, StreamsOK
  <2>4. CurrentOK' /\ StreamsOK'
    BY <1>1, <1>2, <2>2 DEF ChangesInv, CurrentOK, StreamsOK
  <2>5. ASSUME NEW pids \in reported' PROVE Tells(pids, Current)'
    <3>1. CASE reported = {}
      BY <3>1, <1>2, <1>4, <2>2, <2>3 DEF Tells
    <3>2. CASE reported # {}
      <4>1. Tells(pids, Current)
        BY <3>2, <1>1, <1>4 DEF ChangesInv, ReportedOK
      <4> QED
        BY <3>2, <4>1, <1>4, <2>2 DEF Tells
    <3> QED
      BY <3>1, <3>2
  <2>6. ReportedOK'
    BY <1>1, <1>2, <2>1, <2>5 DEF ReportedOK
  <2> QED
    BY <2>4, <2>6 DEF ChangesInv
<1> QED
  BY <1>1, <1>3, <1>4

(* Two sections of one program are of one PMT.                             *)
LEMMA SectionsOfProgram ==
    ASSUME NEW p \in DOMAIN Pmts, NEW q \in DOMAIN Pmts, NEW s, NEW t, IsSectionOf(s, p), IsSectionOf(t, q)
    PROVE  /\ OneProgramPerPmt /\ p = q => s.programNumber = t.programNumber
           /\ OnePmtPerProgram /\ s.programNumber = t.programNumber => p = q
<1>1. PICK c \in Pmts[p] : c.programNumber = s.programNumber
  BY SectionFacts
<1>2. PICK d \in Pmts[q] : d.programNumber = t.programNumber
  BY SectionFacts
<1> QED
  BY <1>1, <1>2 DEF OneProgramPerPmt, OnePmtPerProgram

(* A section of the program that is played was compared with the one that  *)
(* listeners know; of any other PMT they are not told.                     *)
LEMMA PmtKeepsListener ==
    ASSUME OnePmtPerProgram, OneProgramPerPmt, NamedOnce, KnownByType,
           InfoInv, ChangesInv, NEW p \in DOMAIN Pmts, onPmtParsed(p)
    PROVE  fault' \/ ChangesInv'
<1> DEFINE section == PmtSection(p, onAir[p].content, onAir[p].version)
           selected == IsSelected(section)
           isNew == p \notin DOMAIN mPidPmtMap
           changes == IF isNew THEN [changed |-> {}, null |-> FALSE]
                      ELSE checkPidChange(mPidPmtMap[p], section)
<1>1. /\ pc = "idle" /\ onAir[p].content.current
      /\ fault' = changes.null
      /\ mPidPmtMap' = [q \in DOMAIN mPidPmtMap \cup {p} |->
                            IF q = p THEN section ELSE mPidPmtMap[q]]
      /\ mProgramNumber' = IF selected THEN section.programNumber ELSE mProgramNumber
      /\ selected => /\ pc' = "start" /\ pmt' = section
                     /\ found' = [isNew |-> isNew, changed |-> changes.changed]
      /\ ~selected => UNCHANGED <<pc, pmt, found>>
      /\ UNCHANGED <<mProgramInfo, listener>>
  BY DEF onPmtParsed
<1>2. IsSectionOf(section, p)
  BY <1>1 DEF InfoInv, TablesOK, IsSectionOf, PmtSection
<1>3. mProgramNumber # -1 => (selected <=> section.programNumber = mProgramNumber)
  BY DEF IsSelected
<1>4. ~isNew => changes = checkPidChange(mPidPmtMap[p], section)
  OBVIOUS
<1> HIDE DEF section, selected, changes
<1>5. /\ mProgramInfo.programNumber # -1 => mProgramNumber # -1
      /\ \A q \in DOMAIN mPidPmtMap : q \in DOMAIN Pmts /\ IsSectionOf(mPidPmtMap[q], q)
  BY DEF InfoInv, ProgramOK, TablesOK
<1>6. ASSUME mProgramInfo.programNumber # -1
      PROVE  /\ mProgramInfo.pmtPid \in DOMAIN mPidPmtMap /\ Current.programNumber = mProgramNumber
             /\ mProgramNumber' = mProgramNumber
             /\ section.programNumber = mProgramNumber <=> p = mProgramInfo.pmtPid
  <2>1. mProgramInfo.pmtPid \in DOMAIN mPidPmtMap /\ Current.programNumber = mProgramNumber
    BY <1>6 DEF ChangesInv, CurrentOK
  <2>2. mProgramNumber' = mProgramNumber
    BY <1>1, <1>3, <1>5, <1>6
  <2>3. section.programNumber = mProgramNumber <=> p = mProgramInfo.pmtPid
    BY <1>2, <1>5, <2>1, SectionsOfProgram DEF Current
  <2> QED
    BY <2>1, <2>2, <2>3
<1>7. CurrentOK'
  <2> SUFFICES ASSUME mProgramInfo.programNumber # -1
               PROVE  mProgramInfo.pmtPid \in DOMAIN mPidPmtMap' /\ Current'.programNumber = mProgramNumber'
    BY <1>1 DEF CurrentOK
  <2> QED
    BY <1>1, <1>6 DEF Current
<1>8. ASSUME ~selected PROVE ChangesInv'
  <2>1. ASSUME mProgramInfo.programNumber # -1 PROVE Current' = Current
    BY <1>1, <1>3, <1>5, <1>6, <1>8, <2>1 DEF Current
  <2>2. pc' = "idle" /\ UNCHANGED <<mProgramInfo, listener>>
    BY <1>1, <1>8
  <2>3. StreamsOK'
    BY <1>1, <2>1, <2>2 DEF ChangesInv, StreamsOK
  <2>4. ReportedOK'
    BY <1>1, <2>1, <2>2 DEF ChangesInv, ReportedOK, Tells, listener
  <2> QED
    BY <1>7, <2>3, <2>4 DEF ChangesInv
<1>9. ASSUME selected, ~changes.null PROVE ChangesInv'
  <2>1. pc' = "start" /\ pmt' = section /\ found'.isNew = isNew /\ found'.changed = changes.changed
    BY <1>1, <1>9
  <2>2. reported' = reported /\ reportedLate' = reportedLate
    BY <1>1 DEF listener
  <2>3. ASSUME mProgramInfo.programNumber # -1 PROVE ~isNew /\ Current = mPidPmtMap[p]
    BY <1>3, <1>5, <1>6, <1>9, <2>3 DEF Current
  <2>4. reported # {} => mProgramInfo.programNumber # -1
    BY DEF ChangesInv, ReportedOK
  <2>5. ASSUME NEW pids \in reported PROVE Tells(Follow(pids, changes.changed), section)
    <3>1. ~isNew /\ Current = mPidPmtMap[p]
      BY <2>3, <2>4
    <3>2. Tells(pids, Current)
      BY <1>1 DEF ChangesInv, ReportedOK
    <3>3. /\ Known(section) \subseteq Follow(pids, changes.changed)
          /\ pids = Known(mPidPmtMap[p]) => Follow(pids, changes.changed) = Known(section)
      <4>1. changes = checkPidChange(mPidPmtMap[p], section) /\ IsSectionOf(mPidPmtMap[p], p)
        BY <1>4, <1>5, <3>1
      <4>2. Known(mPidPmtMap[p]) \subseteq pids
        BY <3>1, <3>2 DEF Tells
      <4> QED
        BY <1>2, <1>9, <4>1, <4>2, ChangesLeadOn
    <3> QED
      BY <3>1, <3>2, <3>3 DEF Tells
  <2>6. isNew => reported = {}
    BY <2>3, <2>4
  <2>7. ReportedOK'
    <3>1. ASSUME NEW pids \in reported' PROVE Tells(Follow(pids, found.changed), pmt)'
      <4>1. Tells(Follow(pids, changes.changed), section)
        BY <2>2, <2>5
      <4> QED
        BY <2>1, <2>2, <4>1 DEF Tells
    <3> QED
      BY <1>1, <2>1, <2>2, <2>4, <2>6, <3>1 DEF ReportedOK
  <2>8. StreamsOK'
    BY <2>1 DEF StreamsOK
  <2> QED
    BY <1>7, <2>7, <2>8 DEF ChangesInv
<1> QED
  BY <1>1, <1>8, <1>9

(* The section that is gone through is the last of its PMT.                *)
LEMMA PmtIsCurrent ==
    ASSUME InfoInv, pc # "idle"
    PROVE  /\ pmt.pmtPid \in DOMAIN mPidPmtMap /\ pmt = mPidPmtMap[pmt.pmtPid]
           /\ pmt.programNumber \in Nat /\ pmt.programNumber = mProgramNumber
<1>1. PICK p \in DOMAIN mPidPmtMap : pmt = mPidPmtMap[p]
  BY DEF InfoInv, HandlingOK
<1>2. p \in DOMAIN Pmts /\ IsSectionOf(pmt, p)
  BY <1>1 DEF InfoInv, TablesOK
<1>3. pmt.pmtPid = p /\ pmt.programNumber \in Nat
  BY <1>2, SectionFacts
<1> QED
  BY <1>1, <1>3 DEF InfoInv, HandlingOK

LEMMA FillProgramKeepsListener ==
    ASSUME InfoInv, ChangesInv, FillProgram PROVE ChangesInv'
<1>1. /\ UNCHANGED <<pmt, found, mPidPmtMap, mProgramNumber, listener>>
      /\ pc = "start" /\ pc' = "fill" /\ toFill' = pmt.streams
  BY DEF FillProgram, tables
<1>2. mProgramInfo'.programNumber = pmt.programNumber /\ mProgramInfo'.pmtPid = pmt.pmtPid
  BY DEF FillProgram, InfoInv, TablesOK, InfoFields
<1>3. /\ pmt.pmtPid \in DOMAIN mPidPmtMap /\ pmt = mPidPmtMap[pmt.pmtPid]
      /\ pmt.programNumber \in Nat /\ pmt.programNumber = mProgramNumber
  BY <1>1, PmtIsCurrent
<1>4. CurrentOK'
  BY <1>1, <1>2, <1>3 DEF CurrentOK, Current
<1>5. Known(pmt) = KnownIn(pmt.streams)
  BY DEF Known, KnownIn
<1>6. StreamsOK'
  BY <1>1, <1>5 DEF StreamsOK
<1>7. ReportedOK'
  BY <1>1, <1>2, <1>3 DEF ChangesInv, ReportedOK, Tells, listener
<1> QED
  BY <1>4, <1>6, <1>7 DEF ChangesInv

LEMMA FillStreamKeepsListener ==
    ASSUME InfoInv, ChangesInv, FillStream PROVE ChangesInv'
<1>1. /\ UNCHANGED <<pc, pmt, found, mPidPmtMap, mProgramNumber, listener>>
      /\ pc = "fill" /\ toFill' = Tail(toFill) /\ toFill # <<>>
  BY DEF FillStream, tables
<1>2. /\ mProgramInfo'.programNumber = mProgramInfo.programNumber
      /\ mProgramInfo'.pmtPid = mProgramInfo.pmtPid
      /\ mProgramInfo'.streams = mProgramInfo.streams \cup
            (IF StreamCodec(Head(toFill)) = Unknown THEN {} ELSE {Head(toFill).pid})
  BY FillStreamFacts
<1>3. toFill \in Seq(StreamsOf(pmt))
  BY <1>1 DEF InfoInv, HandlingOK
<1>4. ASSUME NEW i \in DOMAIN toFill, StreamCodec(toFill[i]) # Unknown
      PROVE  toFill[i].pid \in mProgramInfo'.streams \cup KnownIn(Tail(toFill))
  <2>1. CASE i = 1
    BY <2>1, <1>1, <1>2, <1>3, <1>4
  <2>2. CASE i # 1
    <3>1. i - 1 \in DOMAIN Tail(toFill) /\ Tail(toFill)[i - 1] = toFill[i]
      BY <2>2, <1>1, <1>3
    <3> QED
      BY <3>1, <1>4 DEF KnownIn
  <2> QED
    BY <2>1, <2>2
<1>5. KnownIn(toFill) \subseteq mProgramInfo'.streams \cup KnownIn(Tail(toFill))
  BY <1>4 DEF KnownIn
<1>6. CurrentOK'
  BY <1>1, <1>2 DEF ChangesInv, CurrentOK, Current
<1>7. StreamsOK'
  BY <1>1, <1>2, <1>5 DEF ChangesInv, StreamsOK
<1>8. ReportedOK'
  BY <1>1, <1>2 DEF ChangesInv, ReportedOK, Tells, listener
<1> QED
  BY <1>6, <1>7, <1>8 DEF ChangesInv

LEMMA ReportKeepsListener ==
    ASSUME InfoInv, ChangesInv, Report PROVE ChangesInv'
<1>1. /\ UNCHANGED <<mPidPmtMap, mProgramNumber, mProgramInfo, reportedLate>>
      /\ pc = "fill" /\ pc' = "idle" /\ toFill = <<>>
      /\ reported' = IF found.isNew
                     THEN IF programComplete(mProgramInfo) THEN {Known(pmt)} ELSE reported
                     ELSE {Follow(r, found.changed) : r \in reported}
  BY DEF Report, tables
<1>2. Current = pmt /\ mProgramInfo.programNumber # -1
  BY <1>1, PmtIsCurrent DEF InfoInv, HandlingOK, Current
<1>3. Known(pmt) \subseteq mProgramInfo.streams
  <2>1. KnownIn(toFill) = {}
    BY <1>1 DEF KnownIn
  <2> QED
    BY <1>1, <2>1 DEF ChangesInv, StreamsOK
<1>4. ASSUME NEW pids \in reported' PROVE Tells(pids, pmt)
  <2>1. CASE found.isNew
    BY <2>1, <1>1, <1>4 DEF ChangesInv, ReportedOK, Tells
  <2>2. CASE ~found.isNew
    <3>1. PICK r \in reported : pids = Follow(r, found.changed)
      BY <2>2, <1>1, <1>4
    <3> QED
      BY <2>2, <3>1, <1>1 DEF ChangesInv, ReportedOK
  <2> QED
    BY <2>1, <2>2
<1>5. Current' = pmt
  BY <1>1, <1>2 DEF Current
<1>6. CurrentOK'
  BY <1>1 DEF ChangesInv, CurrentOK, Current
<1>7. StreamsOK'
  BY <1>1, <1>3, <1>5 DEF StreamsOK
<1>8. ReportedOK'
  BY <1>1, <1>2, <1>4, <1>5 DEF ReportedOK, Tells
<1> QED
  BY <1>6, <1>7, <1>8 DEF ChangesInv

LEMMA ListenerStep ==
    ASSUME OnePmtPerProgram, OneProgramPerPmt, NamedOnce, KnownByType,
           ListenerInv, [ParserNext]_parservars
    PROVE  ListenerInv'
<1>1. InfoInv'
  BY InfoStep DEF ListenerInv
<1>2. CASE UNCHANGED parservars
  BY <1>1, <1>2, ListenerQuiet DEF ListenerInv, parservars, handling, tables, listener
<1>3. CASE ParserNext
  <2>1. InfoInv /\ ChangesInv
    BY <1>3 DEF ListenerInv, ParserNext
  <2>2. CASE DemuxStep
    BY <2>1, <2>2, PatKeepsListener, CatKeepsListener, PmtKeepsListener, FillProgramKeepsListener,
       FillStreamKeepsListener, ReportKeepsListener, <1>1 DEF DemuxStep, ListenerInv
  <2>3. CASE ~DemuxStep
    <3>1. \/ signalQuit \/ \E p \in DOMAIN Pmts : Rebroadcast(p)
          \/ \E c \in Client : Wake(c) \/ TimeOut(c) \/ \E what \in {"program", "cat"} : WaitFor(c, what)
      BY <1>3, <2>3 DEF ParserNext
    <3>2. UNCHANGED <<pc, pmt, toFill, found, mPidPmtMap, mProgramInfo, mProgramNumber, listener>>
      BY <3>1 DEF signalQuit, Rebroadcast, Wake, TimeOut, WaitFor, handling, tables
    <3> QED
      BY <1>1, <2>1, <3>2, ListenerQuiet DEF ListenerInv
  <2> QED
    BY <2>2, <2>3
<1> QED
  BY <1>2, <1>3

(* Who takes the streams of the program when it is reported, and each      *)
(* change after that, knows those of its last PMT: checkPidChange finds    *)
(* every stream that came, went or became another type, and compares with  *)
(* the PMT that was reported before, whatever other PMTs came in between.  *)
THEOREM ListenersKnowTheStreams ==
    ASSUME OnePmtPerProgram, OneProgramPerPmt, NamedOnce, KnownByType
    PROVE  ParserSpec => []ChangesAddUp
<1>1. ParserInit => ListenerInv
  BY InfoInitial, ListenerInitial DEF ListenerInv
<1>2. ListenerInv /\ [ParserNext]_parservars => ListenerInv'
  BY ListenerStep
<1>3. ListenerInv => ChangesAddUp
  BY DEF ListenerInv, ChangesInv, ReportedOK, Tells, Current, ChangesAddUp
<1> QED
  BY <1>1, <1>2, <1>3, PTL DEF ParserSpec

-----------------------------------------------------------------------------
(* SwDemux: packets, and what the parser keeps of sections.                *)

Units == 1 .. 2 * Len(Packets)
Cells == {Junk} \cup {Packets[i].cells[j] : i \in DOMAIN Packets, j \in {1, 2}}

(* What is cut out begins with a head; what waits for its rest is a head.  *)
WholePackets == {packet \in Seq(Units) : Len(packet) = 2 /\ IsHead(packet[1])}
RestOK(units) == units \in Seq(Units) /\ (units # <<>> => Len(units) = 1 /\ IsHead(units[1]))

SectionOK(section) ==
    /\ DOMAIN section = {"buffer", "started", "versions"}
    /\ section.buffer \in Seq(Cells)
    /\ section.buffer # <<>> => section.buffer[1].length \in Nat

ParserOK(p) ==
    /\ DOMAIN p = {"psi", "streams", "programMapPID"}
    /\ \A pid \in Pids : IsSection(pid) =>
          /\ pid \notin DOMAIN p.streams
          /\ pid \in DOMAIN p.psi => SectionOK(p.psi[pid])

(* A section with a checksum is one that was sent.                         *)
GoodPieces ==
    {piece \in [cells : Seq(Cells), pts : {-1}] :
        Head(piece.cells).syntax => piece.cells \in transport.sections}
DeliveredOK(got) ==
    /\ DOMAIN got = Pids
    /\ \A pid \in Pids : IsSection(pid) => got[pid] \in Seq(GoodPieces)

Messages ==
    [what : {"feed"}, units : Seq(Units), generation : Nat]
    \cup [what : {"flush"}, after : {"idle", "close"}]
    \cup [what : {"add", "remove"}, pid : Pids]

ThreadsOK ==
    /\ sent \in 0 .. 2 * Len(Packets) /\ chunk \in Seq(Units) /\ mBufferGeneration \in Nat
    /\ feeder.at = "posting" => feeder.generation \in Nat
    /\ controller.at = "posting" => controller.after \in {"idle", "close"}
    /\ queue \in Seq(Messages)

SectionsInv ==
    /\ transport \in Transports /\ ThreadsOK
    /\ RestOK(mRemainingBytesBuffer) /\ ParserOK(parser)
    /\ mChannels \subseteq Pids /\ DeliveredOK(delivered)

LEMMA UnitsOfPackets ==
    ASSUME transport \in Transports
    PROVE  /\ Len(Packets) \in Nat /\ DOMAIN Packets = 1 .. Len(Packets)
           /\ \A u \in Units : (u + 1) \div 2 \in DOMAIN Packets /\ u % 2 \in {0, 1}
<1>1. Len(Packets) \in Nat /\ DOMAIN Packets = 1 .. Len(Packets)
  BY TransportsAssumption DEF Packets
<1>2. ASSUME NEW u \in Units PROVE (u + 1) \div 2 \in DOMAIN Packets /\ u % 2 \in {0, 1}
  <2>1. u \in Nat /\ 1 <= u /\ u <= 2 * Len(Packets)
    BY <1>1 DEF Units
  <2> QED
    BY <1>1, <2>1
<1> QED
  BY <1>1, <1>2

LEMMA CellFacts ==
    ASSUME transport \in Transports, NEW packet \in WholePackets
    PROVE  /\ PayloadOf(packet) \in Seq(Cells) /\ Len(PayloadOf(packet)) = 2
           /\ HeaderOf(packet).pid \in Pids
           /\ IsSection(HeaderOf(packet).pid) => PayloadOf(packet)[1].length \in Nat
<1>1. /\ packet[1] \in Units /\ packet[2] \in Units /\ IsHead(packet[1])
  <2>1. packet \in Seq(Units) /\ Len(packet) = 2 /\ IsHead(packet[1])
    BY DEF WholePackets
  <2>2. packet[1] \in Units /\ packet[2] \in Units
    <3>1. 1 \in 1 .. Len(packet) /\ 2 \in 1 .. Len(packet)
      BY <2>1
    <3> QED
      BY <2>1, <3>1, ElementOfSeq, Zenon
  <2> QED
    BY <2>1, <2>2
<1>2. \A u \in Units : (u + 1) \div 2 \in DOMAIN Packets /\ u % 2 \in {0, 1}
  BY UnitsOfPackets
<1>3. packet[1] % 2 = 1
  BY <1>1 DEF IsHead
<1> DEFINE n1 == (packet[1] + 1) \div 2
           n2 == (packet[2] + 1) \div 2
<1>4. n1 \in DOMAIN Packets /\ n2 \in DOMAIN Packets /\ 2 - (packet[2] % 2) \in {1, 2}
  BY <1>1, <1>2
<1>5. CellOf(packet, 1) = Packets[n1].cells[1]
  BY <1>3 DEF CellOf
<1>6. CellOf(packet, 2) \in {Junk, Packets[n2].cells[2 - (packet[2] % 2)]}
  BY DEF CellOf
<1>7. HeaderOf(packet) = Packets[n1]
  BY DEF HeaderOf
<1> HIDE DEF n1, n2
<1>8. CellOf(packet, 1) \in Cells /\ CellOf(packet, 2) \in Cells
  BY <1>4, <1>5, <1>6 DEF Cells
<1>9. /\ Packets[n1].pid \in Pids
      /\ IsSection(Packets[n1].pid) => Packets[n1].cells[1].length \in Nat
  BY <1>4, TransportsAssumption DEF Packets, Pids, IsSection
<1>10. PayloadOf(packet) \in Seq(Cells) /\ Len(PayloadOf(packet)) = 2
       /\ PayloadOf(packet)[1] = CellOf(packet, 1)
  <2> DEFINE c1 == CellOf(packet, 1)
             c2 == CellOf(packet, 2)
  <2>1. PayloadOf(packet) = <<c1, c2>>
    BY DEF PayloadOf
  <2> HIDE DEF c1, c2
  <2>2. c1 \in Cells /\ c2 \in Cells
    BY <1>8 DEF c1, c2
  <2> QED
    BY <2>1, <2>2 DEF c1
<1> QED
  BY <1>5, <1>7, <1>9, <1>10

LEMMA FirstOfJoined ==
    ASSUME NEW S, NEW b \in Seq(S), NEW d \in Seq(S), Len(d) = 2
    PROVE  (b \o d)[1] = IF b = <<>> THEN d[1] ELSE b[1]
<1>1. Len(b) \in Nat /\ (b = <<>> <=> Len(b) = 0)
  OBVIOUS
<1>2. \A i \in 1 .. Len(b) + Len(d) :
          (b \o d)[i] = IF i <= Len(b) THEN b[i] ELSE d[i - Len(b)]
  BY ConcatProperties
<1>3. 1 \in 1 .. Len(b) + Len(d)
  BY <1>1
<1>4. (b \o d)[1] = IF 1 <= Len(b) THEN b[1] ELSE d[1 - Len(b)]
  BY <1>2, <1>3
<1>5. CASE Len(b) = 0
  <2>1. 1 - Len(b) = 1 /\ ~(1 <= Len(b))
    BY <1>5
  <2> QED
    BY <1>1, <1>4, <1>5, <2>1
<1>6. CASE Len(b) # 0
  BY <1>1, <1>4, <1>6
<1> QED
  BY <1>5, <1>6

(* A section gets the payload of a packet.                                 *)
LEMMA SectionGrows ==
    ASSUME NEW old, SectionOK(old), NEW start, NEW data \in Seq(Cells), Len(data) = 2,
           data[1].length \in Nat
    PROVE  SectionOK(SectionAppended(SectionStarts(old, start), data))
<1> DEFINE s == SectionStarts(old, start)
<1>1. DOMAIN old = {"buffer", "started", "versions"} /\ old.buffer \in Seq(Cells)
      /\ (old.buffer # <<>> => old.buffer[1].length \in Nat)
  BY DEF SectionOK
<1>2. SectionOK(s)
  <2>1. CASE start
    <3>1. s = [old EXCEPT !.buffer = <<>>, !.started = TRUE]
      BY <2>1 DEF SectionStarts
    <3>2. DOMAIN s = {"buffer", "started", "versions"} /\ s.buffer = <<>>
      BY <3>1, <1>1
    <3> QED
      BY <3>2 DEF SectionOK
  <2>2. CASE ~start
    BY <2>2 DEF SectionStarts
  <2> QED
    BY <2>1, <2>2
<1> HIDE DEF s
<1>3. CASE s.started
  <2> DEFINE r == [s EXCEPT !.buffer = @ \o data]
  <2>1. SectionAppended(s, data) = r
    BY <1>3 DEF SectionAppended
  <2>2. DOMAIN s = {"buffer", "started", "versions"} /\ s.buffer \in Seq(Cells)
        /\ (s.buffer # <<>> => s.buffer[1].length \in Nat)
    BY <1>2 DEF SectionOK
  <2>3. DOMAIN r = {"buffer", "started", "versions"} /\ r.buffer = s.buffer \o data
    BY <2>2
  <2>4. s.buffer \o data \in Seq(Cells)
    BY <2>2
  <2>5. (s.buffer \o data)[1] = IF s.buffer = <<>> THEN data[1] ELSE s.buffer[1]
    BY <2>2, FirstOfJoined
  <2> HIDE DEF r
  <2> QED
    BY <2>1, <2>2, <2>3, <2>4, <2>5 DEF SectionOK, s
<1>4. CASE ~s.started
  BY <1>2, <1>4 DEF SectionAppended, s
<1> QED
  BY <1>3, <1>4

(* What is in a section that has come, and its checksum.                   *)
LEMMA SectionGiven ==
    ASSUME NEW section, SectionOK(section), sectionComplete(section)
    PROVE  /\ setRange(section) \in Seq(Cells)
           /\ parseSection(section) /\ Head(setRange(section)).syntax =>
                 setRange(section) \in transport.sections
<1> DEFINE b == section.buffer
           n == b[1].length + 1
<1>1. b \in Seq(Cells) /\ b # <<>> /\ b[1].length \in Nat /\ Head(b) = b[1]
  BY DEF SectionOK, sectionComplete
<1>2. CASE Oversize(section)
  <2>1. setRange(section) = b
    BY <1>2 DEF setRange
  <2>2. ~parseSection(section)
    BY <1>2 DEF parseSection
  <2> QED
    BY <1>1, <2>1, <2>2
<1>3. CASE ~Oversize(section)
  <2>1. sectionLength(section) = n
    BY <1>1 DEF sectionLength
  <2>2. setRange(section) = SubSeq(b, 1, n) /\ Len(b) >= n
    BY <1>3, <2>1 DEF setRange, sectionComplete
  <2>3. n \in Nat /\ 1 <= n
    BY <1>1
  <2> HIDE DEF b, n
  <2>4. SubSeq(b, 1, n) \in Seq(Cells) /\ SubSeq(b, 1, n) # <<>> /\ SubSeq(b, 1, n)[1] = b[1]
    BY <1>1, <2>2, <2>3
  <2>5. Head(setRange(section)) = Head(section.buffer)
    BY <1>1, <2>2, <2>4 DEF b
  <2> QED
    BY <2>2, <2>4, <2>5 DEF parseSection, ChecksumRight
<1> QED
  BY <1>2, <1>3

(* What becomes of the parser when one of its sections changes.            *)
LEMMA SectionKept ==
    ASSUME NEW p, ParserOK(p), NEW pid \in DOMAIN p.psi, NEW section,
           pid \in Pids /\ IsSection(pid) => SectionOK(section)
    PROVE  ParserOK([p EXCEPT !.psi[pid] = section])
<1> DEFINE r == [p EXCEPT !.psi = [@ EXCEPT ![pid] = section]]
<1>1. DOMAIN p = {"psi", "streams", "programMapPID"}
  BY DEF ParserOK
<1>2. DOMAIN r = {"psi", "streams", "programMapPID"} /\ r.streams = p.streams
      /\ r.psi = [p.psi EXCEPT ![pid] = section]
  BY <1>1
<1>3. DOMAIN r.psi = DOMAIN p.psi
      /\ \A s \in DOMAIN p.psi : r.psi[s] = IF s = pid THEN section ELSE p.psi[s]
  BY <1>2
<1>4. [p EXCEPT !.psi[pid] = section] = r
  OBVIOUS
<1> HIDE DEF r
<1>5. ParserOK(r)
  BY <1>2, <1>3 DEF ParserOK
<1> QED
  BY <1>4, <1>5

(* A pid of sections that is entered has none yet.                         *)
LEMMA NewSectionOK == SectionOK(NewSection)
<1>1. DOMAIN NewSection = {"buffer", "started", "versions"} /\ NewSection.buffer = <<>>
  BY DEF NewSection
<1> QED
  BY <1>1 DEF SectionOK

LEMMA SectionsEntered ==
    ASSUME NEW p, ParserOK(p), NEW r, NEW pids, DOMAIN r = DOMAIN p, r.streams = p.streams,
           r.psi = Entered(p.psi, pids, NewSection)
    PROVE  ParserOK(r)
<1>1. /\ DOMAIN r.psi = DOMAIN p.psi \cup pids
      /\ \A s \in DOMAIN r.psi : r.psi[s] = IF s \in DOMAIN p.psi THEN p.psi[s] ELSE NewSection
  BY DEF Entered
<1> QED
  BY <1>1, NewSectionOK DEF ParserOK

LEMMA PatKeeps ==
    ASSUME NEW p, ParserOK(p), NEW cells
    PROVE  ParserOK(parseProgramAssociationTable(p, cells))
<1> DEFINE naming == {i \in DOMAIN cells : cells[i].start /\ cells[i].programs # <<>>}
           named == UNION {Range(cells[i].programs) : i \in naming}
           last == Last(cells[Max(naming)].programs)
           r == [p EXCEPT !.programMapPID = last, !.psi = Entered(@, named, NewSection)]
<1>1. parseProgramAssociationTable(p, cells) = IF naming = {} THEN p ELSE r
  BY DEF parseProgramAssociationTable
<1>2. ParserOK(r)
  <2>1. DOMAIN p = {"psi", "streams", "programMapPID"}
    BY DEF ParserOK
  <2> HIDE DEF named, last
  <2>2. DOMAIN r = DOMAIN p /\ r.streams = p.streams
        /\ r.psi = Entered(p.psi, named, NewSection)
    BY <2>1
  <2> HIDE DEF r
  <2> QED
    BY <2>2, SectionsEntered
<1> HIDE DEF naming, r
<1> QED
  BY <1>1, <1>2

(* A packet of a pid that is in the table of sections.                     *)
LEMMA SectionPacket ==
    ASSUME NEW p, ParserOK(p), NEW pid \in DOMAIN p.psi, pid \in Pids, NEW start,
           NEW data \in Seq(Cells), Len(data) = 2, IsSection(pid) => data[1].length \in Nat
    PROVE  /\ ParserOK(ParseSectionPid(p, pid, start, data).p)
           /\ IsSection(pid) => ParseSectionPid(p, pid, start, data).out \in Seq(GoodPieces)
<1> DEFINE section == SectionAppended(SectionStarts(p.psi[pid], start), data)
           versions == VersionsAfter(p, pid, section)
           cells == setRange(section)
           done == [section EXCEPT !.buffer = <<>>, !.versions = versions]
           after == [p EXCEPT !.psi[pid] = done]
           some == [p EXCEPT !.psi[pid] = section]
           piece == [cells |-> cells, pts |-> -1]
           r == ParseSectionPid(p, pid, start, data)
<1>1. IsSection(pid) => SectionOK(section)
  <2>1. IsSection(pid) => SectionOK(p.psi[pid])
    BY DEF ParserOK
  <2> QED
    BY <2>1, SectionGrows
<1>2. r = IF ~sectionComplete(section)
          THEN [p |-> some, version |-> -1, out |-> <<>>]
          ELSE [p |-> IF pid = 0 THEN parseProgramAssociationTable(after, cells) ELSE after,
                version |-> sectionVersion(p, pid, versions),
                out |-> IF parseSection(section) THEN <<piece>> ELSE <<>>]
  BY DEF ParseSectionPid, SectionTaken
<1> HIDE DEF section, r
<1>3. ASSUME IsSection(pid) PROVE SectionOK(done)
  <2> HIDE DEF versions
  <2>1. DOMAIN section = {"buffer", "started", "versions"}
    BY <1>1, <1>3 DEF SectionOK
  <2>2. DOMAIN done = {"buffer", "started", "versions"} /\ done.buffer = <<>>
    BY <2>1
  <2> HIDE DEF done
  <2> QED
    BY <2>2 DEF SectionOK
<1> HIDE DEF done, cells, versions
<1>4. ParserOK(after) /\ ParserOK(some)
  BY <1>1, <1>3, SectionKept
<1> HIDE DEF after, some
<1>5. ParserOK(parseProgramAssociationTable(after, cells))
  BY <1>4, PatKeeps
<1>6. ParserOK(r.p)
  BY <1>2, <1>4, <1>5
<1>7. ASSUME IsSection(pid) PROVE r.out \in Seq(GoodPieces)
  <2>1. CASE sectionComplete(section) /\ parseSection(section)
    <3>1. cells \in Seq(Cells) /\ (Head(cells).syntax => cells \in transport.sections)
      BY <1>1, <1>7, <2>1, SectionGiven DEF cells
    <3>2. piece \in GoodPieces
      BY <3>1 DEF GoodPieces
    <3> HIDE DEF piece
    <3>3. r.out = <<piece>>
      BY <1>2, <2>1
    <3> QED
      BY <3>2, <3>3
  <2>2. CASE ~(sectionComplete(section) /\ parseSection(section))
    BY <1>2, <2>2
  <2> QED
    BY <2>1, <2>2
<1> QED
  BY <1>6, <1>7 DEF r

(* The parser and what the filters got, after some of the packets.         *)
FeedOK(f) ==
    /\ DOMAIN f = {"p", "version", "delivered"}
    /\ ParserOK(f.p) /\ DeliveredOK(f.delivered)

LEMMA StreamPacket ==
    ASSUME NEW p, ParserOK(p), NEW header, header.pid \in DOMAIN p.streams, NEW data
    PROVE  ParserOK(ParseStreamPid(p, header, data).p)
<1> DEFINE stream == StreamParse(p.streams[header.pid], header, data).stream
           streams == [p.streams EXCEPT ![header.pid] = stream]
           r == [p EXCEPT !.streams = streams]
<1>1. ParseStreamPid(p, header, data).p = r
  BY DEF ParseStreamPid, StreamParsed
<1> HIDE DEF stream
<1>2. DOMAIN streams = DOMAIN p.streams
  OBVIOUS
<1> HIDE DEF streams
<1>3. DOMAIN p = {"psi", "streams", "programMapPID"}
  BY DEF ParserOK
<1>4. DOMAIN r = {"psi", "streams", "programMapPID"} /\ r.psi = p.psi /\ r.streams = streams
  BY <1>3
<1> HIDE DEF r
<1>5. ParserOK(r)
  BY <1>2, <1>4 DEF ParserOK
<1> QED
  BY <1>1, <1>5

LEMMA PidParsed ==
    ASSUME NEW p, ParserOK(p), transport \in Transports, NEW packet \in WholePackets
    PROVE  LET r == parsePID(p, HeaderOf(packet), PayloadOf(packet)) IN
           /\ ParserOK(r.p)
           /\ IsSection(HeaderOf(packet).pid) => r.out \in Seq(GoodPieces)
<1> DEFINE header == HeaderOf(packet)
           data == PayloadOf(packet)
           r == parsePID(p, header, data)
<1>1. /\ data \in Seq(Cells) /\ Len(data) = 2 /\ header.pid \in Pids
      /\ IsSection(header.pid) => data[1].length \in Nat
  BY CellFacts
<1> HIDE DEF header, data
<1>2. CASE header.pid \in DOMAIN p.psi
  <2>1. r = ParseSectionPid(p, header.pid, header.start, data)
    BY <1>2 DEF parsePID
  <2>2. /\ ParserOK(ParseSectionPid(p, header.pid, header.start, data).p)
        /\ IsSection(header.pid) =>
              ParseSectionPid(p, header.pid, header.start, data).out \in Seq(GoodPieces)
    BY <1>1, <1>2, SectionPacket
  <2> QED
    BY <2>1, <2>2 DEF header, data
<1>3. CASE header.pid \notin DOMAIN p.psi /\ header.pid \in DOMAIN p.streams
  <2>1. r = ParseStreamPid(p, header, data)
    BY <1>3 DEF parsePID
  <2>2. ParserOK(r.p)
    BY <1>3, <2>1, StreamPacket
  <2>3. ~IsSection(header.pid)
    BY <1>1, <1>3 DEF ParserOK
  <2> QED
    BY <2>2, <2>3 DEF header, data
<1>4. CASE header.pid \notin DOMAIN p.psi /\ header.pid \notin DOMAIN p.streams
  <2>1. r = [p |-> p, version |-> -1, out |-> <<>>]
    BY <1>4 DEF parsePID
  <2>2. r.p = p /\ r.out = <<>>
    BY <2>1
  <2>3. ParserOK(r.p) /\ r.out \in Seq(GoodPieces)
    BY <2>2
  <2> QED
    BY <2>3 DEF header, data
<1> QED
  BY <1>2, <1>3, <1>4

LEMMA PacketKeeps ==
    ASSUME NEW f, FeedOK(f), transport \in Transports, NEW packet \in WholePackets
    PROVE  FeedOK(parseTS(f, packet))
<1> DEFINE header == HeaderOf(packet)
           pid == header.pid
           r == parsePID(f.p, header, PayloadOf(packet))
           given == [f.delivered EXCEPT ![pid] = @ \o r.out]
           told == [f.version EXCEPT ![pid] = r.version]
           next == notifyListener(f, pid, r)
<1>1. parseTS(f, packet) \in {f, next}
  BY DEF parseTS
<1>2. ParserOK(r.p) /\ (IsSection(pid) => r.out \in Seq(GoodPieces))
  BY PidParsed DEF FeedOK
<1>3. pid \in Pids
  BY CellFacts
<1> HIDE DEF header, r, pid
<1>4. next \in {[f EXCEPT !.p = r.p], [p |-> r.p, version |-> told, delivered |-> given]}
  BY DEF notifyListener
<1>5. FeedOK([f EXCEPT !.p = r.p])
  <2> DEFINE g == [f EXCEPT !.p = r.p]
  <2>1. DOMAIN f = {"p", "version", "delivered"}
    BY DEF FeedOK
  <2>2. DOMAIN g = {"p", "version", "delivered"} /\ g.p = r.p /\ g.delivered = f.delivered
    BY <2>1
  <2> HIDE DEF g
  <2>3. FeedOK(g)
    BY <1>2, <2>2 DEF FeedOK
  <2> QED
    BY <2>3 DEF g
<1>6. DeliveredOK(given)
  <2>1. DOMAIN f.delivered = Pids
        /\ \A s \in Pids : IsSection(s) => f.delivered[s] \in Seq(GoodPieces)
    BY DEF FeedOK, DeliveredOK
  <2>2. DOMAIN given = Pids
        /\ \A s \in Pids : given[s] = IF s = pid THEN f.delivered[pid] \o r.out ELSE f.delivered[s]
    BY <2>1, <1>3
  <2> HIDE DEF given
  <2>3. IsSection(pid) => f.delivered[pid] \o r.out \in Seq(GoodPieces)
    <3> DEFINE old == f.delivered[pid]
               new == r.out
    <3>1. IsSection(pid) => old \in Seq(GoodPieces) /\ new \in Seq(GoodPieces)
      BY <1>2, <1>3, <2>1
    <3> HIDE DEF old, new
    <3>2. IsSection(pid) => old \o new \in Seq(GoodPieces)
      BY <3>1
    <3> QED
      BY <3>2 DEF old, new
  <2>4. ASSUME NEW s \in Pids, IsSection(s) PROVE given[s] \in Seq(GoodPieces)
    <3>1. CASE s = pid
      BY <2>2, <2>3, <2>4, <3>1
    <3>2. CASE s # pid
      BY <2>1, <2>2, <2>4, <3>2
    <3> QED
      BY <3>1, <3>2
  <2> QED
    BY <2>2, <2>4 DEF DeliveredOK
<1>7. FeedOK([p |-> r.p, version |-> told, delivered |-> given])
  <2> HIDE DEF told, given
  <2> QED
    BY <1>2, <1>6 DEF FeedOK
<1> HIDE DEF next, told, given
<1>8. FeedOK(next)
  BY <1>4, <1>5, <1>7
<1> QED
  BY <1>1, <1>8

(* The rounds of feedTs.                                                   *)
LEMMA FeedRuns ==
    ASSUME NEW packets, Len(packets) \in Nat
    PROVE  \E f : /\ f[0] = [p |-> parser, version |-> mVersion, delivered |-> delivered]
                  /\ \A n \in 1 .. Len(packets) : f[n] = parseTS(f[n - 1], packets[n])
                  /\ feedTs(packets) = f[Len(packets)]
<1> DEFINE L == Len(packets)
           start == [p |-> parser, version |-> mVersion, delivered |-> delivered]
           next(f, n) == IF n = 0 THEN start ELSE parseTS(f[n - 1], packets[n])
           upto(f, m) == [n \in 0 .. m |-> next(f, n)]
           after == CHOOSE f : f = upto(f, L)
           T == {m \in 0 .. L : \E f : f = upto(f, m)}
<1>1. L \in Nat
  OBVIOUS
<1>2. 0 \in T
  <2> DEFINE g == [n \in 0 .. 0 |-> start]
  <2> HIDE DEF start
  <2>1. g = upto(g, 0)
    OBVIOUS
  <2> HIDE DEF g, upto
  <2> QED
    BY <1>1, <2>1
<1>3. ASSUME NEW m \in 1 .. L, m - 1 \in T PROVE m \in T
  <2>1. PICK f : f = upto(f, m - 1)
    BY <1>3
  <2> DEFINE g == [n \in 0 .. m |-> IF n = m THEN next(f, m) ELSE f[n]]
  <2> HIDE DEF next
  <2>2. ASSUME NEW n \in 0 .. m PROVE g[n] = next(g, n)
    <3>1. n # m => n \in 0 .. m - 1 /\ f[n] = next(f, n)
      BY <2>1
    <3>2. g[n] = next(f, n)
      BY <3>1
    <3>3. n # 0 => f[n - 1] = g[n - 1]
      BY <2>2
    <3> HIDE DEF g
    <3>4. next(f, n) = next(g, n)
      BY <3>3, Zenon DEF next
    <3> QED
      BY <3>2, <3>4
  <2>3. g = upto(g, m)
    BY <2>2
  <2> HIDE DEF g, upto
  <2> QED
    BY <2>3
<1>4. L \in T
  <2>1. \A m \in 1 .. L : m - 1 \in T => m \in T
    BY <1>3
  <2> HIDE DEF T
  <2> QED
    <3>1. \A n \in 0 .. L : n \in T
      BY <1>1, <1>2, <2>1, InductionToLength
    <3> QED
      BY <1>1, <3>1
<1>5. after = upto(after, L)
  <2>1. \E f : f = upto(f, L)
    BY <1>4
  <2> HIDE DEF upto
  <2> QED
    BY <2>1
<1>6. feedTs(packets) = after[L]
  BY DEF feedTs
<1> HIDE DEF after
<1>7. after[0] = start /\ \A n \in 1 .. L : after[n] = parseTS(after[n - 1], packets[n])
  BY <1>1, <1>5
<1> QED
  BY <1>6, <1>7

(* After all of them.                                                      *)
LEMMA FeedKeeps ==
    ASSUME transport \in Transports, ParserOK(parser), DeliveredOK(delivered),
           NEW packets \in Seq(WholePackets)
    PROVE  FeedOK(feedTs(packets))
<1> DEFINE L == Len(packets)
           start == [p |-> parser, version |-> mVersion, delivered |-> delivered]
<1>1. L \in Nat
  OBVIOUS
<1>2. PICK after : /\ after[0] = start
                   /\ \A n \in 1 .. L : after[n] = parseTS(after[n - 1], packets[n])
                   /\ feedTs(packets) = after[L]
  BY <1>1, FeedRuns
<1> DEFINE Holds == {n \in 0 .. L : FeedOK(after[n])}
<1>3. 0 \in Holds
  <2>1. FeedOK(start)
    BY DEF FeedOK
  <2> QED
    BY <1>1, <1>2, <2>1
<1>4. ASSUME NEW n \in 1 .. L, n - 1 \in Holds PROVE n \in Holds
  <2>1. after[n] = parseTS(after[n - 1], packets[n])
    BY <1>2
  <2>2. packets[n] \in WholePackets /\ n \in 0 .. L
    OBVIOUS
  <2> QED
    BY <1>4, <2>1, <2>2, PacketKeeps
<1> HIDE DEF Holds
<1>5. \A n \in 0 .. L : n \in Holds
  BY <1>1, <1>3, <1>4, InductionToLength
<1> QED
  BY <1>1, <1>2, <1>5 DEF Holds

-----------------------------------------------------------------------------
(* From what is fed to packets.                                            *)
LEMMA FromIs ==
    ASSUME NEW S, NEW s \in Seq(S), NEW i \in 1 .. Len(s) + 1
    PROVE  From(s, i) \in Seq(S) /\ Len(From(s, i)) = Len(s) - i + 1
<1>1. Len(s) \in Nat
  OBVIOUS
<1>2. \A k \in i .. Len(s) : s[k] \in S
  <2>1. \A k \in i .. Len(s) : k \in 1 .. Len(s)
    BY <1>1
  <2> QED
    BY <2>1, ElementOfSeq
<1>3. /\ Len(SubSeq(s, i, Len(s))) = IF i <= Len(s) THEN Len(s) - i + 1 ELSE 0
      /\ SubSeq(s, i, Len(s)) \in Seq(S)
  BY <1>1, <1>2, SubSeqProperties
<1> QED
  BY <1>1, <1>3 DEF From

CutStates == [units : Seq(Units), packets : Seq(WholePackets)]

LEMMA CutGoesOn ==
    ASSUME NEW c \in CutStates
    PROVE  /\ CutNext(c) \in CutStates
           /\ Len(c.units) >= 2 => Len(CutNext(c).units) < Len(c.units)
<1> DEFINE u == c.units
           ps == c.packets
           L == Len(u)
<1>1. u \in Seq(Units) /\ ps \in Seq(WholePackets) /\ L \in Nat
  BY DEF CutStates
<1>2. CASE L < 2
  BY <1>1, <1>2 DEF CutNext, PacketSize
<1>3. CASE L >= 2 /\ IsHead(u[1])
  <2> DEFINE rest == From(u, 3)
             packet == SubSeq(u, 1, 2)
  <2>1. CutNext(c) = [units |-> rest, packets |-> Append(ps, packet)]
    BY <1>1, <1>3 DEF CutNext, PacketSize
  <2>2. rest \in Seq(Units) /\ Len(rest) < L
    <3>1. 3 \in 1 .. L + 1
      BY <1>1, <1>3
    <3> HIDE DEF u
    <3> QED
      BY <1>1, <3>1, FromIs
  <2>3. packet \in Seq(Units) /\ Len(packet) = 2 /\ packet[1] = u[1]
    <3> HIDE DEF u
    <3>1. \A k \in 1 .. 2 : u[k] \in Units
      BY <1>1, <1>3, ElementOfSeq
    <3> QED
      BY <1>1, <1>3, <3>1, SubSeqProperties
  <2>4. packet \in WholePackets
    BY <1>3, <2>3 DEF WholePackets
  <2> HIDE DEF rest, packet, u, ps
  <2>5. Append(ps, packet) \in Seq(WholePackets)
    BY <1>1, <2>4
  <2> QED
    BY <2>1, <2>2, <2>5 DEF CutStates, u
<1>4. CASE L >= 2 /\ ~IsHead(u[1])
  <2> DEFINE heads == {i \in DOMAIN u : /\ IsHead(u[i])
                                        /\ i + PacketSize <= L => IsHead(u[i + PacketSize])}
  <2>1. resync(u) = IF heads = {} THEN <<>> ELSE From(u, Min(heads))
    BY DEF resync
  <2>2. heads \in SUBSET Nat /\ \A i \in heads : i \in 2 .. L
    <3>1. DOMAIN u = 1 .. L
      BY <1>1
    <3>2. 1 \notin heads
      BY <1>4
    <3>3. heads \subseteq 1 .. L
      BY <3>1
    <3> HIDE DEF heads
    <3> QED
      BY <1>1, <3>2, <3>3
  <2> HIDE DEF heads
  <2>3. resync(u) \in Seq(Units) /\ Len(resync(u)) < L
    <3>1. CASE heads = {}
      BY <1>4, <2>1, <3>1
    <3>2. CASE heads # {}
      <4>1. Min(heads) \in 2 .. L
        BY <2>2, <3>2, MinIn
      <4> DEFINE m == Min(heads)
      <4>2. m \in 1 .. L + 1 /\ m >= 2
        BY <1>1, <4>1
      <4> HIDE DEF u, m
      <4>3. From(u, m) \in Seq(Units) /\ Len(From(u, m)) = L - m + 1
        BY <1>1, <4>2, FromIs
      <4> QED
        BY <1>1, <2>1, <3>2, <4>2, <4>3 DEF m
    <3> QED
      BY <3>1, <3>2
  <2>4. CutNext(c) = [c EXCEPT !.units = resync(@)]
    BY <1>1, <1>4 DEF CutNext, PacketSize
  <2>5. CutNext(c) = [units |-> resync(u), packets |-> ps]
    BY <2>4 DEF CutStates
  <2> HIDE DEF u, ps
  <2> QED
    BY <1>1, <2>3, <2>5 DEF CutStates, u
<1> QED
  BY <1>1, <1>2, <1>3, <1>4

LEMMA ShortIsOne ==
    ASSUME NEW S, NEW s \in Seq(S), Len(s) < 2, s # <<>>
    PROVE  Len(s) = 1
<1>1. Len(s) \in Nat
  OBVIOUS
<1>2. Len(s) # 0
  BY EmptySeq
<1>3. \A n \in Nat : n < 2 /\ n # 0 => n = 1
  OBVIOUS
<1> QED
  BY <1>1, <1>2, <1>3, Zenon

(* The rounds of Cut.                                                      *)
LEMMA CutRuns ==
    ASSUME NEW units \in Seq(Units), NEW packets \in Seq(WholePackets)
    PROVE  \E cut \in [0 .. Len(units) -> CutStates] :
              /\ cut[0] = [units |-> units, packets |-> packets]
              /\ \A n \in 1 .. Len(units) : cut[n] = CutNext(cut[n - 1])
              /\ LET last == cut[Len(units)] IN
                 Cut(units, packets) =
                    [packets |-> last.packets,
                     remaining |-> IF last.units # <<>> /\ IsHead(last.units[1]) THEN last.units ELSE <<>>]
<1> DEFINE L == Len(units)
           start == [units |-> units, packets |-> packets]
           round == [c \in CutStates |-> CutNext(c)]
           step == [n \in 1 .. L |-> round]
           loop(f) == [n \in 0 .. L |-> IF n = 0 THEN start ELSE CutNext(f[n - 1])]
           cut == CHOOSE f : f = loop(f)
           last == cut[L]
<1>1. L \in Nat
  OBVIOUS
<1>2. start \in CutStates
  BY DEF CutStates
<1>3. \E f : f = loop(f)
  <2>1. step \in [1 .. L -> [CutStates -> CutStates]]
    <3>1. round \in [CutStates -> CutStates]
      BY CutGoesOn
    <3> HIDE DEF round
    <3> QED
      BY <3>1
  <2> HIDE DEF step, start
  <2>2. PICK f : IsLoop(f, L, CutStates, start, step)
    BY <1>1, <1>2, <2>1, LoopExists
  <2>3. f \in [0 .. L -> CutStates] /\ f[0] = start /\ \A n \in 1 .. L : f[n] = step[n][f[n - 1]]
    BY <2>2 DEF IsLoop
  <2>4. ASSUME NEW n \in 1 .. L PROVE f[n] = CutNext(f[n - 1])
    <3>1. f[n - 1] \in CutStates
      BY <1>1, <2>3
    <3>2. step[n] = round
      BY DEF step
    <3>3. f[n] = step[n][f[n - 1]]
      BY <2>3, Zenon
    <3> QED
      BY <3>1, <3>2, <3>3
  <2>5. ASSUME NEW n \in 0 .. L PROVE f[n] = IF n = 0 THEN start ELSE CutNext(f[n - 1])
    <3>1. n # 0 => n \in 1 .. L
      BY <1>1
    <3> QED
      BY <2>3, <2>4, <3>1
  <2>6. f = loop(f)
    BY <2>3, <2>5
  <2> HIDE DEF loop
  <2> QED
    BY <2>6
<1>4. cut = loop(cut)
  <2> HIDE DEF loop
  <2> QED
    BY <1>3
<1>5. Cut(units, packets) =
          [packets |-> last.packets,
           remaining |-> IF last.units # <<>> /\ IsHead(last.units[1]) THEN last.units ELSE <<>>]
  BY DEF Cut
<1> HIDE DEF cut
<1>6. cut[0] = start /\ (\A n \in 1 .. L : cut[n] = CutNext(cut[n - 1])) /\ DOMAIN cut = 0 .. L
  BY <1>1, <1>4
<1>7. cut = [n \in 0 .. L |-> cut[n]]
  BY <1>4
<1>8. \A n \in 0 .. L : cut[n] \in CutStates
  <2> DEFINE T == {n \in 0 .. L : cut[n] \in CutStates}
  <2>1. ASSUME NEW n \in 1 .. L, n - 1 \in T PROVE n \in T
    <3>1. cut[n] = CutNext(cut[n - 1]) /\ n \in 0 .. L
      BY <1>6
    <3> QED
      BY <2>1, <3>1, CutGoesOn
  <2>2. 0 \in T
    BY <1>1, <1>2, <1>6
  <2> HIDE DEF T
  <2>3. \A n \in 0 .. L : n \in T
    BY <1>1, <2>1, <2>2, InductionToLength
  <2> QED
    BY <2>3 DEF T
<1> HIDE DEF loop, L
<1>9. cut \in [0 .. L -> CutStates]
  BY <1>7, <1>8
<1> QED
  BY <1>5, <1>6, <1>9 DEF L

LEMMA CutIs ==
    ASSUME NEW units \in Seq(Units), NEW packets \in Seq(WholePackets)
    PROVE  /\ Cut(units, packets).packets \in Seq(WholePackets)
           /\ RestOK(Cut(units, packets).remaining)
<1> DEFINE L == Len(units)
           start == [units |-> units, packets |-> packets]
<1>1. L \in Nat
  OBVIOUS
<1>2. start \in CutStates
  BY DEF CutStates
<1>3. PICK cut \in [0 .. L -> CutStates] :
          /\ cut[0] = start
          /\ \A n \in 1 .. L : cut[n] = CutNext(cut[n - 1])
          /\ LET last == cut[L] IN
             Cut(units, packets) =
                [packets |-> last.packets,
                 remaining |-> IF last.units # <<>> /\ IsHead(last.units[1]) THEN last.units ELSE <<>>]
  BY CutRuns
<1> DEFINE last == cut[L]
<1>5. Cut(units, packets) =
          [packets |-> last.packets,
           remaining |-> IF last.units # <<>> /\ IsHead(last.units[1]) THEN last.units ELSE <<>>]
  BY <1>3
<1>6. cut[0] = start /\ \A n \in 1 .. L : cut[n] = CutNext(cut[n - 1])
  BY <1>3
<1> DEFINE Holds(n) == /\ cut[n] \in CutStates
                       /\ Len(cut[n].units) < 2 \/ Len(cut[n].units) <= L - n
           T == {n \in 0 .. L : Holds(n)}
<1>7. Holds(0)
  BY <1>1, <1>2, <1>6
<1>8. ASSUME NEW n \in 1 .. L, Holds(n - 1) PROVE Holds(n)
  <2> DEFINE c == cut[n - 1]
             d == cut[n]
  <2>1. d = CutNext(c)
    BY <1>6
  <2>2. c \in CutStates /\ (Len(c.units) < 2 \/ Len(c.units) <= L - (n - 1))
    BY <1>8
  <2> HIDE DEF c, d
  <2>3. d \in CutStates /\ (Len(c.units) >= 2 => Len(d.units) < Len(c.units))
    BY <2>1, <2>2, CutGoesOn
  <2>4. Len(c.units) \in Nat /\ Len(d.units) \in Nat
    BY <2>2, <2>3 DEF CutStates
  <2>5. CASE Len(c.units) < 2
    <3>1. d = c
      BY <2>1, <2>5 DEF CutNext, PacketSize
    <3> QED
      BY <2>3, <2>5, <3>1 DEF d
  <2>6. CASE Len(c.units) >= 2
    <3>1. Len(d.units) <= L - n
      BY <1>1, <2>2, <2>3, <2>4, <2>6
    <3> QED
      BY <2>3, <3>1 DEF d
  <2> QED
    BY <2>4, <2>5, <2>6
<1>9. Holds(L)
  <2>1. 0 \in T /\ \A n \in 1 .. L : n - 1 \in T => n \in T
    BY <1>1, <1>7, <1>8
  <2> HIDE DEF T
  <2>2. \A n \in 0 .. L : n \in T
    BY <1>1, <2>1, InductionToLength
  <2>3. L \in T
    BY <1>1, <2>2
  <2> QED
    BY <2>3 DEF T
<1>10. last \in CutStates /\ Len(last.units) < 2
  <2>1. last \in CutStates /\ (Len(last.units) < 2 \/ Len(last.units) <= L - L)
    BY <1>9
  <2> HIDE DEF last
  <2> QED
    BY <1>1, <2>1
<1> HIDE DEF last
<1>11. last.units \in Seq(Units) /\ last.packets \in Seq(WholePackets)
  BY <1>10 DEF CutStates
<1>12. last.units # <<>> => Len(last.units) = 1
  BY <1>10, <1>11, ShortIsOne
<1> QED
  BY <1>5, <1>11, <1>12 DEF RestOK

LEMMA TwoOnes ==
    ASSUME NEW S, NEW a \in Seq(S), Len(a) = 1, NEW b \in Seq(S), Len(b) = 1
    PROVE  a \o b \in Seq(S) /\ Len(a \o b) = 2 /\ (a \o b)[1] = a[1]
<1>1. a \o b \in Seq(S) /\ Len(a \o b) = Len(a) + Len(b)
  BY ConcatProperties
<1>2. \A i \in 1 .. Len(a) + Len(b) : (a \o b)[i] = IF i <= Len(a) THEN a[i] ELSE b[i - Len(a)]
  BY ConcatProperties
<1>3. 1 \in 1 .. Len(a) + Len(b) /\ 1 <= Len(a)
  OBVIOUS
<1>4. (a \o b)[1] = a[1]
  BY <1>2, <1>3
<1> QED
  BY <1>1, <1>4

LEMMA FeedIsCut ==
    ASSUME NEW remaining, RestOK(remaining), NEW units \in Seq(Units)
    PROVE  /\ onFeedData(remaining, units).packets \in Seq(WholePackets)
           /\ RestOK(onFeedData(remaining, units).remaining)
<1> DEFINE r == onFeedData(remaining, units)
<1>1. remaining \in Seq(Units) /\ (remaining # <<>> => Len(remaining) = 1 /\ IsHead(remaining[1]))
  BY DEF RestOK
<1>2. Len(units) \in Nat
  OBVIOUS
<1>3. CASE remaining = <<>>
  <2>1. r = Cut(units, <<>>)
    BY <1>3 DEF onFeedData
  <2>2. <<>> \in Seq(WholePackets)
    OBVIOUS
  <2>3. /\ Cut(units, <<>>).packets \in Seq(WholePackets)
        /\ RestOK(Cut(units, <<>>).remaining)
    BY <2>2, CutIs
  <2> QED
    BY <2>1, <2>3
<1>4. CASE remaining # <<>> /\ Len(units) < 1
  <2>1. PacketSize - Len(remaining) = 1
    <3>1. Len(remaining) = 1
      BY <1>1, <1>4, Zenon
    <3> QED
      BY <3>1 DEF PacketSize
  <2>2. r = [packets |-> <<>>, remaining |-> remaining \o units]
    BY <1>4, <2>1 DEF onFeedData
  <2>3. units = <<>>
    BY <1>2, <1>4
  <2>4. remaining \o units = remaining
    BY <1>1, <2>3
  <2> QED
    BY <2>2, <2>4
<1>5. CASE remaining # <<>> /\ Len(units) >= 1
  <2> DEFINE packet == remaining \o SubSeq(units, 1, 1)
             rest == From(units, 2)
  <2>1. PacketSize - Len(remaining) = 1
    <3>1. Len(remaining) = 1
      BY <1>1, <1>5, Zenon
    <3> QED
      BY <3>1 DEF PacketSize
  <2>2. r = Cut(rest, <<packet>>)
    <3> DEFINE n == PacketSize - Len(remaining)
    <3>1. r = IF Len(units) < n THEN [packets |-> <<>>, remaining |-> remaining \o units]
              ELSE Cut(From(units, n + 1), <<remaining \o SubSeq(units, 1, n)>>)
      BY <1>5, Zenon DEF onFeedData
    <3> HIDE DEF n
    <3>2. n = 1
      BY <2>1, Zenon DEF n
    <3>3. ~(Len(units) < n) /\ n + 1 = 2
      BY <1>2, <1>5, <3>2
    <3> QED
      BY <3>1, <3>2, <3>3, Zenon
  <2>3. rest \in Seq(Units)
    <3>1. 2 \in 1 .. Len(units) + 1
      BY <1>2, <1>5
    <3> QED
      BY <3>1, FromIs
  <2>4. packet \in WholePackets
    <3> DEFINE one == SubSeq(units, 1, 1)
    <3>1. \A k \in 1 .. 1 : units[k] \in Units
      BY <1>2, <1>5, ElementOfSeq
    <3>2. one \in Seq(Units) /\ Len(one) = 1
      BY <3>1, SubSeqProperties
    <3> HIDE DEF one
    <3>3. /\ Len(remaining \o one) = 2 /\ remaining \o one \in Seq(Units)
          /\ (remaining \o one)[1] = remaining[1]
      <4>1. Len(remaining) = 1
        BY <1>1, <1>5, Zenon
      <4> QED
        BY <1>1, <3>2, <4>1, TwoOnes
    <3> QED
      BY <1>1, <1>5, <3>3 DEF WholePackets, one
  <2> HIDE DEF packet, rest
  <2>5. <<packet>> \in Seq(WholePackets)
    BY <2>4
  <2> QED
    BY <2>2, <2>3, <2>5, CutIs
<1> QED
  BY <1>2, <1>3, <1>4, <1>5

-----------------------------------------------------------------------------
(* The steps.                                                              *)

LEMMA SectionsInitial == SwInit => SectionsInv
<1> SUFFICES ASSUME SwInit PROVE SectionsInv
  OBVIOUS
<1> USE DEF SwInit
<1>1. ThreadsOK
  <2>1. 0 \in 0 .. 2 * Len(Packets)
    BY UnitsOfPackets
  <2> QED
    BY <2>1 DEF ThreadsOK, Idle
<1>2. RestOK(mRemainingBytesBuffer)
  BY DEF RestOK
<1>3. ParserOK(parser)
  <2>1. /\ DOMAIN NewParser = {"psi", "streams", "programMapPID"}
        /\ NewParser.psi = [pid \in {0, 1} |-> NewSection] /\ NewParser.streams = <<>>
    BY DEF NewParser
  <2>2. DOMAIN parser.streams = {}
    BY <2>1
  <2>3. \A pid \in DOMAIN parser.psi : parser.psi[pid] = NewSection
    BY <2>1
  <2> QED
    BY <2>1, <2>2, <2>3, NewSectionOK DEF ParserOK
<1>4. DeliveredOK(delivered)
  BY DEF DeliveredOK
<1> QED
  BY <1>1, <1>2, <1>3, <1>4 DEF SectionsInv

(* Nothing but the transport tells which pids carry sections.              *)
LEMMA Meanings ==
    ASSUME transport' = transport
    PROVE  /\ Pids' = Pids /\ Len(Packets)' = Len(Packets) /\ Units' = Units
           /\ GoodPieces' = GoodPieces /\ Messages' = Messages
           /\ \A pid : IsSection(pid)' <=> IsSection(pid)
           /\ \A p : ParserOK(p)' <=> ParserOK(p)
           /\ \A got : DeliveredOK(got)' <=> DeliveredOK(got)
           /\ \A units : RestOK(units)' <=> RestOK(units)
<1>1. Pids' = Pids /\ Packets' = Packets
  BY DEF Pids, Packets
<1>2. Units' = Units
  BY <1>1 DEF Units
<1>3. Cells' = Cells
  BY <1>1 DEF Cells, Junk
<1>4. GoodPieces' = GoodPieces
  BY <1>3 DEF GoodPieces
<1>5. Messages' = Messages
  BY <1>1, <1>2 DEF Messages
<1>6. \A pid : IsSection(pid)' <=> IsSection(pid)
  BY DEF IsSection
<1>7. \A section : SectionOK(section)' <=> SectionOK(section)
  BY <1>3 DEF SectionOK
<1>8. \A p : ParserOK(p)' <=> ParserOK(p)
  BY <1>1, <1>6, <1>7 DEF ParserOK
<1>9. \A got : DeliveredOK(got)' <=> DeliveredOK(got)
  BY <1>1, <1>4, <1>6 DEF DeliveredOK
<1>10. \A units : RestOK(units)' <=> RestOK(units)
  BY <1>2 DEF RestOK, IsHead
<1> QED
  BY <1>1, <1>2, <1>4, <1>5, <1>6, <1>8, <1>9, <1>10

LEMMA Assembled ==
    ASSUME SectionsInv, transport' = transport, ThreadsOK', RestOK(mRemainingBytesBuffer'),
           ParserOK(parser'), mChannels' \subseteq Pids, DeliveredOK(delivered')
    PROVE  SectionsInv'
<1>1. /\ Pids' = Pids /\ Units' = Units /\ GoodPieces' = GoodPieces
      /\ \A pid : IsSection(pid)' <=> IsSection(pid)
  BY Meanings
<1>2. RestOK(mRemainingBytesBuffer)'
  BY <1>1 DEF RestOK, IsHead
<1>3. ParserOK(parser)'
  <2>1. Cells' = Cells
    BY DEF Cells, Packets, Junk
  <2>2. \A section : SectionOK(section)' <=> SectionOK(section)
    BY <2>1 DEF SectionOK
  <2> QED
    BY <1>1, <2>2 DEF ParserOK
<1>4. DeliveredOK(delivered)'
  BY <1>1 DEF DeliveredOK
<1> QED
  BY <1>1, <1>2, <1>3, <1>4 DEF SectionsInv

(* A step of the threads that leaves demux and filters alone.              *)
LEMMA ThreadsOnly ==
    ASSUME SectionsInv, transport' = transport, ThreadsOK',
           mRemainingBytesBuffer' = mRemainingBytesBuffer, parser' = parser,
           mChannels' \subseteq Pids, delivered' = delivered
    PROVE  SectionsInv'
<1>1. /\ RestOK(mRemainingBytesBuffer') /\ ParserOK(parser') /\ DeliveredOK(delivered')
  BY DEF SectionsInv
<1> QED
  BY <1>1, Assembled

LEMMA ThreadsKept ==
    ASSUME transport' = transport, sent' \in 0 .. 2 * Len(Packets), chunk' \in Seq(Units),
           mBufferGeneration' \in Nat,
           feeder'.at = "posting" => feeder'.generation \in Nat,
           controller'.at = "posting" => controller'.after \in {"idle", "close"},
           queue' \in Seq(Messages)
    PROVE  ThreadsOK'
<1>1. Units' = Units /\ Messages' = Messages /\ Len(Packets)' = Len(Packets)
  BY Meanings
<1> QED
  BY <1>1 DEF ThreadsOK

LEMMA Queued ==
    ASSUME SectionsInv
    PROVE  /\ queue \in Seq(Messages)
           /\ queue # <<>> => Tail(queue) \in Seq(Messages) /\ Head(queue) \in Messages
           /\ \A msg \in Messages : Post(msg) => queue' \in Seq(Messages)
<1>1. queue \in Seq(Messages)
  BY DEF SectionsInv, ThreadsOK
<1> QED
  BY <1>1 DEF Post

(* What the feeding thread does.                                           *)
LEMMA FeedersKeep == SectionsInv /\ Feeds => SectionsInv'
<1> SUFFICES ASSUME SectionsInv, Feeds PROVE SectionsInv'
  OBVIOUS
<1> USE DEF threads, demux, base
<1>1. /\ sent \in 0 .. 2 * Len(Packets) /\ chunk \in Seq(Units) /\ mBufferGeneration \in Nat
      /\ feeder.at = "posting" => feeder.generation \in Nat
      /\ controller.at = "posting" => controller.after \in {"idle", "close"}
      /\ queue \in Seq(Messages) /\ mChannels \subseteq Pids /\ Len(Packets) \in Nat
  BY UnitsOfPackets DEF SectionsInv, ThreadsOK
<1>2. ASSUME NEW n \in 1 .. MaxChunk, FeedTs(n) PROVE SectionsInv'
  <2>1. n \in Nat /\ sent \in Nat /\ sent + n <= 2 * Len(Packets)
    BY <1>1, <1>2, TransportsAssumption DEF FeedTs
  <2>2. chunk' \in Seq(Units)
    <3>1. \A i \in 1 .. n : sent + i \in Units
      BY <1>1, <2>1 DEF Units
    <3>2. chunk' = [i \in 1 .. n |-> sent + i]
      BY <1>2 DEF FeedTs
    <3>3. chunk' \in [1 .. n -> Units]
      BY <3>1, <3>2
    <3> QED
      BY <2>1, <3>3
  <2>3. sent' \in 0 .. 2 * Len(Packets)
    BY <1>1, <1>2, <2>1 DEF FeedTs
  <2>4. feeder'.generation \in Nat
    BY <1>1, <1>2 DEF FeedTs
  <2>5. ThreadsOK'
    BY <1>1, <1>2, <2>2, <2>3, <2>4, ThreadsKept DEF FeedTs
  <2> QED
    BY <1>1, <1>2, <2>5, ThreadsOnly DEF FeedTs
<1>3. CASE Lose
  <2>1. sent' \in 0 .. 2 * Len(Packets)
    BY <1>1, <1>3 DEF Lose
  <2>2. ThreadsOK'
    BY <1>1, <1>3, <2>1, ThreadsKept DEF Lose
  <2> QED
    BY <1>1, <1>3, <2>2, ThreadsOnly DEF Lose
<1>4. CASE PostFeed
  <2> DEFINE msg == [what |-> "feed", units |-> chunk, generation |-> feeder.generation]
  <2>1. msg \in Messages
    BY <1>1, <1>4 DEF PostFeed, Messages
  <2>2. Post(msg)
    BY <1>4 DEF PostFeed
  <2> HIDE DEF msg
  <2>3. queue' \in Seq(Messages)
    BY <2>1, <2>2, Queued
  <2>4. chunk' \in Seq(Units) /\ feeder'.at # "posting"
    BY <1>4 DEF PostFeed, Blocked, Idle
  <2>5. ThreadsOK'
    BY <1>1, <1>4, <2>3, <2>4, ThreadsKept DEF PostFeed
  <2> QED
    BY <1>1, <1>4, <2>5, ThreadsOnly DEF PostFeed
<1> QED
  BY <1>2, <1>3, <1>4 DEF Feeds

(* What the controlling thread does.                                       *)
LEMMA ControlsKeep == SectionsInv /\ Controls => SectionsInv'
<1> SUFFICES ASSUME SectionsInv, Controls PROVE SectionsInv'
  OBVIOUS
<1> USE DEF threads, demux, base
<1>1. /\ sent \in 0 .. 2 * Len(Packets) /\ chunk \in Seq(Units) /\ mBufferGeneration \in Nat
      /\ feeder.at = "posting" => feeder.generation \in Nat
      /\ controller.at = "posting" => controller.after \in {"idle", "close"}
      /\ queue \in Seq(Messages) /\ mChannels \subseteq Pids
  BY DEF SectionsInv, ThreadsOK
<1>2. ASSUME NEW after \in {"idle", "close"}, Flush(after) PROVE SectionsInv'
  <2>1. controller' = [at |-> "posting", after |-> after] /\ mBufferGeneration' \in Nat
    BY <1>1, <1>2 DEF Flush
  <2>2. controller'.after \in {"idle", "close"}
    BY <2>1
  <2>3. ThreadsOK'
    BY <1>1, <1>2, <2>1, <2>2, ThreadsKept DEF Flush
  <2> QED
    BY <1>1, <1>2, <2>3, ThreadsOnly DEF Flush
<1>3. CASE PostFlush
  <2> DEFINE msg == [what |-> "flush", after |-> controller.after]
  <2>1. msg \in Messages
    BY <1>1, <1>3 DEF PostFlush, Messages
  <2>2. Post(msg)
    BY <1>3 DEF PostFlush
  <2> HIDE DEF msg
  <2>3. queue' \in Seq(Messages)
    BY <2>1, <2>2, Queued
  <2>4. controller'.at # "posting"
    BY <1>3 DEF PostFlush, Blocked
  <2>5. ThreadsOK'
    BY <1>1, <1>3, <2>3, <2>4, ThreadsKept DEF PostFlush
  <2> QED
    BY <1>1, <1>3, <2>5, ThreadsOnly DEF PostFlush
<1>4. ASSUME NEW pid \in Pids, AddDemuxFilter(pid) PROVE SectionsInv'
  <2> DEFINE msg == [what |-> "add", pid |-> pid]
  <2>1. msg \in Messages
    BY DEF Messages
  <2>2. Post(msg)
    BY <1>4 DEF AddDemuxFilter
  <2> HIDE DEF msg
  <2>3. queue' \in Seq(Messages)
    BY <2>1, <2>2, Queued
  <2>4. ThreadsOK'
    BY <1>1, <1>4, <2>3, ThreadsKept DEF AddDemuxFilter
  <2>5. mChannels' \subseteq Pids
    BY <1>1, <1>4 DEF AddDemuxFilter
  <2> QED
    BY <1>4, <2>4, <2>5, ThreadsOnly DEF AddDemuxFilter
<1>5. ASSUME NEW pid \in Pids, RemoveDemuxFilter(pid) PROVE SectionsInv'
  <2> DEFINE msg == [what |-> "remove", pid |-> pid]
  <2>1. msg \in Messages
    BY DEF Messages
  <2>2. Post(msg)
    BY <1>5 DEF RemoveDemuxFilter
  <2> HIDE DEF msg
  <2>3. queue' \in Seq(Messages)
    BY <2>1, <2>2, Queued
  <2>4. ThreadsOK'
    BY <1>1, <1>5, <2>3, ThreadsKept DEF RemoveDemuxFilter
  <2>5. mChannels' \subseteq Pids
    BY <1>1, <1>5 DEF RemoveDemuxFilter
  <2> QED
    BY <1>5, <2>4, <2>5, ThreadsOnly DEF RemoveDemuxFilter
<1>6. CASE Stop
  <2>1. ThreadsOK'
    BY <1>1, <1>6, ThreadsKept DEF Stop
  <2> QED
    BY <1>1, <1>6, <2>1, ThreadsOnly DEF Stop
<1>7. CASE Close
  <2>1. queue' \in Seq(Messages) /\ controller'.at # "posting"
    BY <1>7 DEF Close
  <2>2. feeder'.at = "posting" => feeder'.generation \in Nat
    BY <1>1, <1>7 DEF Close, Idle
  <2>3. ThreadsOK'
    BY <1>1, <1>7, <2>1, <2>2, ThreadsKept DEF Close
  <2> QED
    BY <1>1, <1>7, <2>3, ThreadsOnly DEF Close
<1> QED
  BY <1>2, <1>3, <1>4, <1>5, <1>6, <1>7 DEF Controls

(* What the looper's thread does.                                          *)
LEMMA HandlersKeep == SectionsInv /\ Handles => SectionsInv'
<1> SUFFICES ASSUME SectionsInv, Handles PROVE SectionsInv'
  OBVIOUS
<1> USE DEF threads, demux, base
<1>1. /\ sent \in 0 .. 2 * Len(Packets) /\ chunk \in Seq(Units) /\ mBufferGeneration \in Nat
      /\ feeder.at = "posting" => feeder.generation \in Nat
      /\ controller.at = "posting" => controller.after \in {"idle", "close"}
      /\ queue \in Seq(Messages) /\ mChannels \subseteq Pids /\ transport \in Transports
  BY DEF SectionsInv, ThreadsOK
<1>2. RestOK(mRemainingBytesBuffer) /\ ParserOK(parser) /\ DeliveredOK(delivered)
  BY DEF SectionsInv
<1>3. queue # <<>> /\ Head(queue) \in Messages /\ queue' \in Seq(Messages)
  <2>1. queue # <<>> /\ queue' = Tail(queue)
    BY DEF Handles, HandleFeed, HandleFlush, HandleAdd, HandleRemove
  <2> QED
    BY <2>1, Queued
<1>4. CASE HandleFeed
  <2>1. Head(queue).units \in Seq(Units)
    BY <1>3, <1>4 DEF HandleFeed, Messages
  <2>2. feeder'.at # "posting"
    BY <1>4 DEF HandleFeed, Idle
  <2>3. mBufferGeneration' = mBufferGeneration
    BY <1>4 DEF HandleFeed
  <2>4. ThreadsOK'
    BY <1>1, <1>3, <1>4, <2>2, <2>3, ThreadsKept DEF HandleFeed
  <2>5. CASE Head(queue).generation # mBufferGeneration
    BY <1>1, <1>4, <2>4, <2>5, ThreadsOnly DEF HandleFeed
  <2>6. CASE Head(queue).generation = mBufferGeneration
    <3> DEFINE cut == onFeedData(mRemainingBytesBuffer, Head(queue).units)
               f == feedTs(cut.packets)
    <3>1. /\ mRemainingBytesBuffer' = cut.remaining /\ parser' = f.p /\ delivered' = f.delivered
          /\ mChannels' = mChannels /\ transport' = transport
      BY <1>4, <2>6 DEF HandleFeed
    <3>2. cut.packets \in Seq(WholePackets) /\ RestOK(cut.remaining)
      BY <1>2, <2>1, FeedIsCut
    <3>3. FeedOK(f)
      BY <1>1, <1>2, <3>2, FeedKeeps
    <3> HIDE DEF cut, f
    <3>4. ParserOK(f.p) /\ DeliveredOK(f.delivered)
      BY <3>3 DEF FeedOK
    <3> QED
      BY <1>1, <2>4, <3>1, <3>2, <3>4, Assembled
  <2> QED
    BY <2>5, <2>6
<1>5. CASE HandleFlush
  <2>1. controller'.at # "posting"
    BY <1>3, <1>5 DEF HandleFlush, Messages
  <2>2. ThreadsOK'
    BY <1>1, <1>3, <1>5, <2>1, ThreadsKept DEF HandleFlush
  <2>3. ParserOK(parser')
    <3> DEFINE psi == [pid \in DOMAIN parser.psi |-> [parser.psi[pid] EXCEPT !.buffer = <<>>]]
               r == [parser EXCEPT !.psi = psi]
    <3>1. parser' = r
      BY <1>5 DEF HandleFlush, Reset
    <3>2. DOMAIN parser = {"psi", "streams", "programMapPID"}
      BY <1>2 DEF ParserOK
    <3>3. ASSUME NEW pid \in Pids, IsSection(pid), pid \in DOMAIN parser.psi
          PROVE  SectionOK(psi[pid])
      <4> DEFINE s == parser.psi[pid]
                 e == [s EXCEPT !.buffer = <<>>]
      <4>1. SectionOK(s)
        BY <1>2, <3>3 DEF ParserOK
      <4>2. psi[pid] = e
        BY <3>3
      <4> HIDE DEF s, psi
      <4>3. DOMAIN s = {"buffer", "started", "versions"}
        BY <4>1 DEF SectionOK
      <4>4. DOMAIN e = {"buffer", "started", "versions"} /\ e.buffer = <<>>
        BY <4>3
      <4> HIDE DEF e
      <4>5. SectionOK(e)
        BY <4>4 DEF SectionOK
      <4> QED
        BY <4>2, <4>5
    <3>4. DOMAIN psi = DOMAIN parser.psi
      OBVIOUS
    <3> HIDE DEF psi
    <3>5. DOMAIN r = {"psi", "streams", "programMapPID"} /\ r.psi = psi /\ r.streams = parser.streams
      BY <3>2
    <3> HIDE DEF r
    <3>6. ParserOK(r)
      BY <1>2, <3>3, <3>4, <3>5 DEF ParserOK
    <3> QED
      BY <3>1, <3>6
  <2>4. RestOK(mRemainingBytesBuffer')
    BY <1>5 DEF HandleFlush, RestOK
  <2> QED
    BY <1>1, <1>2, <1>5, <2>2, <2>3, <2>4, Assembled DEF HandleFlush
<1>6. CASE HandleAdd
  <2> DEFINE pid == Head(queue).pid
             new == NewStream(transport.codec[pid])
             withPsi == [parser EXCEPT !.psi = Entered(@, {pid}, NewSection)]
             withStream == [parser EXCEPT !.streams = Entered(@, {pid}, new)]
  <2>1. ThreadsOK'
    BY <1>1, <1>3, <1>6, ThreadsKept DEF HandleAdd
  <2>2. DOMAIN parser = {"psi", "streams", "programMapPID"}
    BY <1>2 DEF ParserOK
  <2>3. parser' = IF IsSection(pid) THEN withPsi ELSE withStream
    BY <1>6 DEF HandleAdd
  <2> HIDE DEF pid, new
  <2>4. ParserOK(withPsi)
    <3>1. DOMAIN withPsi = DOMAIN parser /\ withPsi.streams = parser.streams
          /\ withPsi.psi = Entered(parser.psi, {pid}, NewSection)
      BY <2>2
    <3> HIDE DEF withPsi
    <3> QED
      BY <1>2, <3>1, SectionsEntered
  <2>5. ASSUME ~IsSection(pid) PROVE ParserOK(withStream)
    <3>1. DOMAIN withStream = DOMAIN parser /\ withStream.psi = parser.psi
          /\ withStream.streams = Entered(parser.streams, {pid}, new)
      BY <2>2
    <3> HIDE DEF withStream
    <3>2. DOMAIN withStream.streams = DOMAIN parser.streams \cup {pid}
      BY <3>1 DEF Entered
    <3> QED
      BY <1>2, <2>5, <3>1, <3>2 DEF ParserOK
  <2> HIDE DEF withPsi, withStream
  <2>6. ParserOK(parser')
    BY <2>3, <2>4, <2>5
  <2> QED
    BY <1>1, <1>2, <1>6, <2>1, <2>6, Assembled DEF HandleAdd
<1>7. CASE HandleRemove
  <2> DEFINE pid == Head(queue).pid
             psi == [s \in DOMAIN parser.psi \ {pid} |-> parser.psi[s]]
             streams == [s \in DOMAIN parser.streams \ {pid} |-> parser.streams[s]]
             lessPsi == [parser EXCEPT !.psi = psi]
             lessStream == [parser EXCEPT !.streams = streams]
  <2>1. ThreadsOK'
    BY <1>1, <1>3, <1>7, ThreadsKept DEF HandleRemove
  <2>2. DOMAIN parser = {"psi", "streams", "programMapPID"}
    BY <1>2 DEF ParserOK
  <2>3. parser' = IF pid \in DOMAIN parser.psi THEN lessPsi ELSE lessStream
    BY <1>7 DEF HandleRemove
  <2> HIDE DEF pid
  <2>4. /\ DOMAIN psi \subseteq DOMAIN parser.psi /\ \A s \in DOMAIN psi : psi[s] = parser.psi[s]
        /\ DOMAIN streams \subseteq DOMAIN parser.streams
    OBVIOUS
  <2> HIDE DEF psi, streams
  <2>5. ParserOK(lessPsi)
    <3>1. DOMAIN lessPsi = DOMAIN parser /\ lessPsi.streams = parser.streams /\ lessPsi.psi = psi
      BY <2>2
    <3> HIDE DEF lessPsi
    <3> QED
      BY <1>2, <2>4, <3>1 DEF ParserOK
  <2>6. ParserOK(lessStream)
    <3>1. DOMAIN lessStream = DOMAIN parser /\ lessStream.streams = streams
          /\ lessStream.psi = parser.psi
      BY <2>2
    <3> HIDE DEF lessStream
    <3> QED
      BY <1>2, <2>4, <3>1 DEF ParserOK
  <2> HIDE DEF lessPsi, lessStream
  <2>7. ParserOK(parser')
    BY <2>3, <2>5, <2>6
  <2> QED
    BY <1>1, <1>2, <1>7, <2>1, <2>7, Assembled DEF HandleRemove
<1> QED
  BY <1>4, <1>5, <1>6, <1>7 DEF Handles

-----------------------------------------------------------------------------
(* EsQueue: what a queue makes of the payloads that are appended to it.    *)

(* The cells S of streams and the timestamps P of PES packets.             *)
RangeSet(P) == [pts : P, length : Nat \ {0}]
QueueSet(S, P) == [mode : Modes, buffer : Seq(S), ranges : Seq(RangeSet(P)), format : BOOLEAN]

LEMMA MinIs ==
    ASSUME NEW S \in SUBSET Nat, S # {}
    PROVE  Min(S) \in S /\ \A i \in S : Min(S) <= i
BY FirstOf DEF Min

LEMMA LengthsAre ==
    ASSUME NEW P, NEW ranges \in Seq(RangeSet(P))
    PROVE  /\ Len(ranges) \in Nat
           /\ \A k \in 1 .. Len(ranges) : ranges[k].length \in Nat \ {0} /\ ranges[k].pts \in P
<1>1. \A k \in 1 .. Len(ranges) : ranges[k] \in RangeSet(P)
  BY ElementOfSeq
<1>2. Len(ranges) \in Nat
  BY LenProperties
<1> QED
  BY <1>1, <1>2 DEF RangeSet

LEMMA EndsAre ==
    ASSUME NEW P, NEW ranges \in Seq(RangeSet(P))
    PROVE  LET end == RangeEnds(ranges) IN
           /\ end \in [0 .. Len(ranges) -> Nat] /\ end[0] = 0
           /\ \A k \in 1 .. Len(ranges) : end[k] = end[k - 1] + ranges[k].length
<1> DEFINE L == Len(ranges)
           next(f, n) == IF n = 0 THEN 0 ELSE f[n - 1] + ranges[n].length
           loop(f) == [n \in 0 .. L |-> next(f, n)]
           it == CHOOSE f : f = loop(f)
           step == [n \in 1 .. L |-> [x \in Nat |-> x + ranges[n].length]]
<1>1. L \in Nat /\ \A n \in 1 .. L : ranges[n].length \in Nat
  BY LengthsAre
<1>2. step \in [1 .. L -> [Nat -> Nat]]
  BY <1>1
<1>3. PICK f : IsLoop(f, L, Nat, 0, step)
  <2> HIDE DEF step
  <2> QED
    BY <1>1, <1>2, LoopExists
<1>4. f \in [0 .. L -> Nat] /\ f[0] = 0 /\ \A n \in 1 .. L : f[n] = f[n - 1] + ranges[n].length
  <2>1. f \in [0 .. L -> Nat] /\ f[0] = 0 /\ \A n \in 1 .. L : f[n] = step[n][f[n - 1]]
    BY <1>3 DEF IsLoop
  <2>2. ASSUME NEW n \in 1 .. L PROVE f[n] = f[n - 1] + ranges[n].length
    <3>1. f[n - 1] \in Nat
      BY <1>1, <2>1
    <3> QED
      BY <2>1, <3>1
  <2> QED
    BY <2>1, <2>2
<1>5. f = loop(f)
  <2>1. \A n \in 0 .. L : f[n] = next(f, n)
    BY <1>1, <1>4
  <2> QED
    BY <1>4, <2>1
<1>6. it = loop(it)
  <2> HIDE DEF loop
  <2> QED
    BY <1>5
<1>7. it = RangeEnds(ranges)
  BY DEF RangeEnds
<1> HIDE DEF it
<1>8. it[0] = 0 /\ \A n \in 1 .. L : it[n] = it[n - 1] + ranges[n].length
  BY <1>1, <1>6
<1> DEFINE T == {n \in 0 .. L : it[n] \in Nat}
<1>9. 0 \in T /\ \A n \in 1 .. L : n - 1 \in T => n \in T
  BY <1>1, <1>8
<1>10. \A n \in 0 .. L : n \in T
  <2> HIDE DEF T
  <2> QED
    BY <1>1, <1>9, InductionToLength
<1>11. it \in [0 .. L -> Nat]
  BY <1>6, <1>10
<1> QED
  BY <1>7, <1>8, <1>11

LEMMA EndsGrow ==
    ASSUME NEW P, NEW ranges \in Seq(RangeSet(P)), NEW i \in 0 .. Len(ranges)
    PROVE  \A k \in 0 .. Len(ranges) : i < k => RangeEnds(ranges)[i] < RangeEnds(ranges)[k]
<1> DEFINE L == Len(ranges)
           end == RangeEnds(ranges)
           T == {k \in 0 .. L : i < k => end[i] < end[k]}
<1>1. /\ L \in Nat /\ end \in [0 .. L -> Nat]
      /\ \A k \in 1 .. L : end[k] = end[k - 1] + ranges[k].length /\ ranges[k].length \in Nat \ {0}
  <2>1. L \in Nat /\ \A k \in 1 .. L : ranges[k].length \in Nat \ {0}
    BY LengthsAre
  <2>2. end \in [0 .. L -> Nat] /\ \A k \in 1 .. L : end[k] = end[k - 1] + ranges[k].length
    BY EndsAre
  <2> HIDE DEF end
  <2> QED
    BY <2>1, <2>2
<1> HIDE DEF end
<1>2. 0 \in T
  BY <1>1
<1>3. ASSUME NEW k \in 1 .. L, k - 1 \in T PROVE k \in T
  <2>1. end[k - 1] \in Nat /\ end[k] = end[k - 1] + ranges[k].length /\ ranges[k].length \in Nat \ {0}
    BY <1>1
  <2>2. end[k - 1] < end[k]
    BY <2>1
  <2>3. i < k - 1 => end[i] < end[k - 1]
    BY <1>3
  <2>4. end[i] \in Nat /\ end[k] \in Nat
    BY <1>1
  <2>5. i < k => i < k - 1 \/ i = k - 1
    BY <1>1
  <2> QED
    BY <2>1, <2>2, <2>3, <2>4, <2>5
<1>4. \A k \in 0 .. L : k \in T
  <2>1. \A k \in 1 .. L : k - 1 \in T => k \in T
    BY <1>3
  <2> HIDE DEF T
  <2> QED
    BY <1>1, <1>2, <2>1, InductionToLength
<1> QED
  BY <1>4 DEF end

(* All but the first d ranges are left, the first of them until n later.   *)
Shortened(old, new, d, n) ==
    /\ Len(old) = Len(new) + d
    /\ \A j \in 1 .. Len(new) :
          new[j].length = IF j = 1 THEN RangeEnds(old)[1 + d] - n ELSE old[j + d].length

(* The prefix sums of what is left of ranges.                              *)
LEMMA EndsShift ==
    ASSUME NEW P, NEW old \in Seq(RangeSet(P)), NEW new \in Seq(RangeSet(P)), NEW d \in Nat, NEW n \in Nat,
           Shortened(old, new, d, n)
    PROVE  \A j \in 1 .. Len(new) : RangeEnds(new)[j] = RangeEnds(old)[j + d] - n
<1> DEFINE L == Len(new)
           before == RangeEnds(old)
           after == RangeEnds(new)
           T == {j \in 0 .. L : j = 0 \/ after[j] = before[j + d] - n}
<1>7. /\ Len(old) = Len(new) + d
      /\ \A j \in 1 .. Len(new) :
            new[j].length = IF j = 1 THEN RangeEnds(old)[1 + d] - n ELSE old[j + d].length
  BY DEF Shortened
<1>1. /\ L \in Nat /\ after \in [0 .. L -> Nat] /\ after[0] = 0
      /\ \A k \in 1 .. L : after[k] = after[k - 1] + new[k].length
  BY EndsAre, LengthsAre
<1>2. \A j \in 1 .. L : new[j].length \in Nat
  BY LengthsAre
<1>3. /\ Len(old) \in Nat /\ before \in [0 .. Len(old) -> Nat]
      /\ \A k \in 1 .. Len(old) : before[k] = before[k - 1] + old[k].length
  BY EndsAre, LengthsAre
<1>6. \A j \in 1 .. Len(old) : old[j].length \in Nat
  BY LengthsAre
<1> HIDE DEF before, after
<1>4. ASSUME NEW j \in 1 .. L, j - 1 \in T PROVE j \in T
  <2>1. after[j] = after[j - 1] + new[j].length /\ after[j - 1] \in Nat
    <3>1. j - 1 \in 0 .. L
      BY <1>1
    <3> QED
      BY <1>1, <3>1
  <2>2. /\ j + d \in 1 .. Len(old) /\ (j + d) - 1 = (j - 1) + d
        /\ before[j + d] = before[(j - 1) + d] + old[j + d].length
        /\ before[(j - 1) + d] \in Nat
    <3>1. j + d \in 1 .. Len(old) /\ (j + d) - 1 = (j - 1) + d /\ (j - 1) + d \in 0 .. Len(old)
      BY <1>1, <1>3, <1>7
    <3> QED
      BY <1>3, <3>1
  <2>3. CASE j = 1
    <3>1. new[1].length = before[1 + d] - n
      BY <1>7, <2>3 DEF before
    <3>2. after[1] = after[0] + new[1].length
      BY <2>1, <2>3
    <3>3. new[1].length \in Nat
      BY <1>2, <2>3
    <3> QED
      BY <1>1, <2>3, <3>1, <3>2, <3>3
  <2>4. CASE j # 1
    <3>1. new[j].length = old[j + d].length /\ after[j - 1] = before[(j - 1) + d] - n
      BY <1>4, <1>7, <2>4
    <3>2. old[j + d].length \in Nat
      BY <1>6, <2>2
    <3>3. after[j] = (before[(j - 1) + d] - n) + old[j + d].length
      BY <2>1, <3>1
    <3>4. after[j] = before[j + d] - n
      <4> HIDE DEF T
      <4> QED
        BY <2>2, <3>2, <3>3
    <3> QED
      BY <3>4
  <2> QED
    BY <2>3, <2>4
<1>5. \A j \in 0 .. L : j \in T
  <2>1. 0 \in T /\ \A j \in 1 .. L : j - 1 \in T => j \in T
    BY <1>1, <1>4
  <2> HIDE DEF T
  <2> QED
    BY <1>1, <2>1, InductionToLength
<1> QED
  BY <1>1, <1>5 DEF before, after

(* A range that is left was there before, and ends n cells earlier.        *)
ShiftedBy(old, new, n) ==
    LET d == Len(old) - Len(new) IN
    /\ d \in Nat
    /\ RangeEnds(old)[d] <= n
    /\ \A j \in 1 .. Len(new) :
          new[j].pts = old[j + d].pts /\ RangeEnds(new)[j] = RangeEnds(old)[j + d] - n

LEMMA RangesAfterIs ==
    ASSUME NEW P, NEW ranges \in Seq(RangeSet(P)), NEW n \in Nat
    PROVE  /\ RangesAfter(ranges, n) \in Seq(RangeSet(P))
           /\ ShiftedBy(ranges, RangesAfter(ranges, n), n)
<1> DEFINE L == Len(ranges)
           end == RangeEnds(ranges)
           reached == {k \in 0 .. L : end[k] >= n}
           k == Min(reached)
           left == RangesAfter(ranges, n)
<1>1. L \in Nat /\ \A i \in 1 .. L : ranges[i].length \in Nat \ {0} /\ ranges[i].pts \in P
  BY LengthsAre
<1>2. end \in [0 .. L -> Nat] /\ end[0] = 0
  BY EndsAre
<1>3. CASE reached = {}
  <2>1. left = <<>>
    BY <1>3 DEF RangesAfter
  <2>2. left \in Seq(RangeSet(P)) /\ Len(left) = 0
    BY <2>1
  <2>3. end[L] <= n
    <3>1. L \in 0 .. L /\ ~(end[L] >= n)
      BY <1>1, <1>3
    <3> HIDE DEF end
    <3> QED
      BY <1>1, <1>2, <3>1
  <2> HIDE DEF left
  <2>4. L - Len(left) = L /\ ~ \E j \in 1 .. Len(left) : TRUE
    BY <1>1, <2>2
  <2> QED
    BY <1>1, <2>2, <2>3, <2>4 DEF ShiftedBy, left
<1>4. CASE reached # {}
  <2>1. reached \in SUBSET Nat
    BY <1>1
  <2>2. k \in reached /\ \A i \in reached : k <= i
    <3> HIDE DEF reached
    <3> QED
      BY <1>4, <2>1, MinIs
  <2>3. k \in 0 .. L /\ end[k] >= n
    BY <2>2
  <2>4. left = IF end[k] = n THEN From(ranges, k + 1)
               ELSE [From(ranges, k) EXCEPT ![1].length = end[k] - n]
    BY <1>4 DEF RangesAfter
  <2> HIDE DEF left, k
  <2>5. CASE end[k] = n
    <3>1. left = SubSeq(ranges, k + 1, L)
      BY <2>4, <2>5 DEF From
    <3>2. /\ left \in Seq(RangeSet(P)) /\ Len(left) = L - k
          /\ \A j \in 1 .. L - k : left[j] = ranges[j + k]
      <4>1. k + 1 \in Int /\ L \in Int /\ \A i \in (k + 1) .. L : ranges[i] \in RangeSet(P)
        <5>1. \A i \in (k + 1) .. L : i \in 1 .. L
          BY <1>1, <2>3
        <5> QED
          BY <1>1, <2>3, <5>1, ElementOfSeq
      <4>2. /\ left \in Seq(RangeSet(P))
            /\ Len(left) = IF k + 1 <= L THEN L - (k + 1) + 1 ELSE 0
            /\ \A j \in 1 .. L - (k + 1) + 1 : left[j] = ranges[(k + 1) + j - 1]
        <5> HIDE DEF L
        <5> QED
          BY <3>1, <4>1, SubSeqProperties
      <4>3. L - (k + 1) + 1 = L - k /\ \A j \in 1 .. L - k : (k + 1) + j - 1 = j + k
        BY <1>1, <2>3
      <4>4. ~(k + 1 <= L) => L - k = 0
        BY <1>1, <2>3
      <4>5. k + 1 <= L => L - (k + 1) + 1 = L - k
        BY <4>3
      <4>6. Len(left) = L - k
        BY <4>2, <4>4, <4>5, Zenon
      <4>7. \A j \in 1 .. L - k : left[j] = ranges[j + k]
        BY <4>2, <4>3
      <4> QED
        BY <4>2, <4>6, <4>7
    <3>3. /\ Len(left) \in Nat /\ L = Len(left) + k /\ L - Len(left) = k /\ k \in Nat
      BY <1>1, <2>3, <3>2
    <3>4. ASSUME NEW j \in 1 .. Len(left)
          PROVE  left[j].length = IF j = 1 THEN end[1 + k] - n ELSE ranges[j + k].length
      <4>1. left[j] = ranges[j + k]
        BY <3>2
      <4>2. j = 1 => ranges[j + k].length = end[1 + k] - n
        <5>1. 1 \in 1 .. Len(left) => 1 + k \in 1 .. L /\ (1 + k) - 1 = k
          BY <3>3
        <5>2. \A i \in 1 .. L : end[i] = end[i - 1] + ranges[i].length
          BY EndsAre
        <5>3. 1 \in 1 .. Len(left) => end[1 + k] = end[k] + ranges[1 + k].length
          <6> HIDE DEF end
          <6> QED
            BY <5>1, <5>2
        <5>4. 1 \in 1 .. Len(left) => ranges[1 + k].length \in Nat
          BY <5>1, <1>1
        <5>5. j = 1 => 1 \in 1 .. Len(left) /\ ranges[j + k].length = ranges[1 + k].length
          OBVIOUS
        <5> HIDE DEF end
        <5> QED
          BY <2>5, <5>3, <5>4, <5>5
      <4> QED
        BY <4>1, <4>2
    <3>5. \A j \in 1 .. Len(left) : RangeEnds(left)[j] = end[j + k] - n
      <4>1. Shortened(ranges, left, k, n)
        BY <3>3, <3>4 DEF Shortened
      <4> QED
        BY <3>2, <3>3, <4>1, EndsShift
    <3>6. end[k] <= n
      BY <2>5
    <3> HIDE DEF end, L
    <3>7. /\ Len(ranges) - Len(left) \in Nat
          /\ RangeEnds(ranges)[Len(ranges) - Len(left)] <= n
          /\ \A j \in 1 .. Len(left) :
                /\ left[j].pts = ranges[j + (Len(ranges) - Len(left))].pts
                /\ RangeEnds(left)[j] = RangeEnds(ranges)[j + (Len(ranges) - Len(left))] - n
      BY <3>2, <3>3, <3>5, <3>6 DEF end, L
    <3> QED
      BY <3>2, <3>7 DEF ShiftedBy, left
  <2>6. CASE end[k] # n
    <3> DEFINE d == k - 1
               rest == From(ranges, k)
               length == end[k] - n
    <3>1. k \in 1 .. L /\ d \in Nat /\ d \in 0 .. L /\ length \in Nat \ {0} /\ end[d] < n
      <4>1. end[k] \in Nat /\ end[k] > n
        <5> HIDE DEF end
        <5> QED
          BY <1>2, <2>3, <2>6
      <4>2. k # 0
        <5> HIDE DEF end
        <5> QED
          BY <1>2, <4>1
      <4>3. k \in 1 .. L /\ d \in Nat /\ d \in 0 .. L /\ d < k
        BY <1>1, <2>3, <4>2
      <4>4. d \notin reached
        <5> HIDE DEF reached, d
        <5> QED
          BY <2>2, <4>3, <1>1 DEF k
      <4>5. ~(end[d] >= n) /\ end[d] \in Nat
        <5>1. ~(end[d] >= n)
          BY <4>3, <4>4
        <5> HIDE DEF end, d
        <5> QED
          BY <1>2, <4>3, <5>1
      <4> HIDE DEF end, d
      <4> QED
        BY <4>1, <4>3, <4>5
    <3>2. /\ rest \in Seq(RangeSet(P)) /\ Len(rest) = L - d /\ Len(rest) >= 1
          /\ \A j \in 1 .. L - d : rest[j] = ranges[j + d]
      <4>1. \A i \in k .. L : ranges[i] \in RangeSet(P)
        <5>1. \A i \in k .. L : i \in 1 .. L
          BY <1>1, <3>1
        <5> QED
          BY <5>1, ElementOfSeq
      <4>2. /\ rest \in Seq(RangeSet(P))
            /\ Len(rest) = IF k <= L THEN L - k + 1 ELSE 0
            /\ \A j \in 1 .. L - k + 1 : rest[j] = ranges[k + j - 1]
        <5>1. rest = SubSeq(ranges, k, L) /\ k \in Int /\ L \in Int
          BY <1>1, <3>1 DEF From
        <5> HIDE DEF L, rest
        <5> QED
          BY <4>1, <5>1, SubSeqProperties
      <4>3. k <= L /\ L - k + 1 = L - d /\ L - d >= 1 /\ \A j \in 1 .. L - d : k + j - 1 = j + d
        BY <1>1, <3>1
      <4> HIDE DEF rest, d
      <4> QED
        BY <4>2, <4>3
    <3>3. left = [rest EXCEPT ![1].length = length]
      BY <2>4, <2>6
    <3> HIDE DEF rest, d, length
    <3>4. /\ rest[1] \in RangeSet(P) /\ 1 \in 1 .. Len(rest)
      <4>1. 1 \in 1 .. Len(rest)
        BY <3>2, <3>1, <1>1
      <4> QED
        BY <3>2, <4>1, ElementOfSeq
    <3> DEFINE first == [rest[1] EXCEPT !.length = length]
    <3>5. first \in RangeSet(P) /\ first.pts = rest[1].pts /\ first.length = length
      BY <3>1, <3>4 DEF RangeSet
    <3>6. left = [rest EXCEPT ![1] = first]
      BY <3>3
    <3> HIDE DEF first
    <3>7. /\ left \in Seq(RangeSet(P)) /\ Len(left) = Len(rest)
          /\ \A j \in 1 .. Len(rest) : left[j] = IF j = 1 THEN first ELSE rest[j]
      BY <3>2, <3>4, <3>5, <3>6, ExceptSeq
    <3>8. /\ Len(left) \in Nat /\ L = Len(left) + d /\ L - Len(left) = d /\ 1 + d = k
      <4> USE DEF d
      <4> QED
        BY <1>1, <3>1, <3>2, <3>7
    <3>9. \A j \in 1 .. Len(left) :
              left[j].length = IF j = 1 THEN end[1 + d] - n ELSE ranges[j + d].length
      BY <3>2, <3>5, <3>7, <3>8 DEF length
    <3>10. \A j \in 1 .. Len(left) : left[j].pts = ranges[j + d].pts
      BY <3>2, <3>5, <3>7, <3>8
    <3>11. \A j \in 1 .. Len(left) : RangeEnds(left)[j] = end[j + d] - n
      <4>1. Shortened(ranges, left, d, n)
        BY <3>8, <3>9 DEF Shortened
      <4> QED
        BY <3>1, <3>7, <4>1, EndsShift
    <3>12. end[d] <= n
      <4>1. end[d] \in Nat
        <5> HIDE DEF end
        <5> QED
          BY <1>2, <3>1
      <4> QED
        BY <3>1, <4>1
    <3> HIDE DEF end, L
    <3>13. /\ Len(ranges) - Len(left) \in Nat
           /\ RangeEnds(ranges)[Len(ranges) - Len(left)] <= n
           /\ \A j \in 1 .. Len(left) :
                /\ left[j].pts = ranges[j + (Len(ranges) - Len(left))].pts
                /\ RangeEnds(left)[j] = RangeEnds(ranges)[j + (Len(ranges) - Len(left))] - n
      BY <3>1, <3>8, <3>10, <3>11, <3>12 DEF end, L
    <3> QED
      BY <3>7, <3>13 DEF ShiftedBy, left
  <2> QED
    BY <2>5, <2>6
<1> QED
  BY <1>3, <1>4

-----------------------------------------------------------------------------
(* EsQueue: what is taken out and what is left is the end of what there    *)
(* was, and the ranges tell the timestamps of its cells.                   *)

(* Cells with an id have the timestamp of the range they are in.           *)
InStep(q, time) ==
    LET end == RangeEnds(q.ranges) IN
    /\ end[Len(q.ranges)] = Len(q.buffer)
    /\ \A k \in 1 .. Len(q.ranges) : \A i \in end[k - 1] + 1 .. end[k] :
          q.buffer[i].id # 0 => q.ranges[k].pts = time[q.buffer[i].id]

EndOf(whole, thrown, rest) ==
    /\ thrown \in Nat /\ Len(whole) = thrown + Len(rest)
    /\ \A k \in 1 .. Len(rest) : rest[k] = whole[thrown + k]

(* The queue p is the end of q.                                            *)
Trims(S, P, time, q, p) ==
    /\ p \in QueueSet(S, P) /\ p.mode = q.mode
    /\ \E t \in Nat : EndOf(q.buffer, t, p.buffer)
    /\ q.mode # "MPEG_AUDIO" /\ InStep(q, time) => InStep(p, time)

(* No access unit is empty.                                                *)
UnitSet(S, P) == [cells : Seq(S) \ {<<>>}, pts : P \cup {-1}]
UnitTimely(unit, time) ==
    unit.cells # <<>> /\ unit.cells[1].id # 0 => unit.pts = time[unit.cells[1].id]

Parts(whole, thrown, unit, rest) ==
    /\ thrown \in Nat /\ Len(whole) = thrown + Len(unit) + Len(rest)
    /\ \A k \in 1 .. Len(unit) : unit[k] = whole[thrown + k]
    /\ \A k \in 1 .. Len(rest) : rest[k] = whole[thrown + Len(unit) + k]

(* The result r of a dequeue from q.                                       *)
Cuts(S, P, time, q, r) ==
    /\ r.q \in QueueSet(S, P) /\ r.q.mode = q.mode /\ r.unit \in UnitSet(S, P) \cup {NoUnit}
    /\ \E t \in Nat : Parts(q.buffer, t, r.unit.cells, r.q.buffer)
    /\ q.mode # "MPEG_AUDIO" /\ InStep(q, time) => InStep(r.q, time) /\ UnitTimely(r.unit, time)

LEMMA QueueFields ==
    ASSUME NEW S, NEW P, NEW q \in QueueSet(S, P)
    PROVE  /\ q.mode \in Modes /\ q.buffer \in Seq(S) /\ q.ranges \in Seq(RangeSet(P))
           /\ q.format \in BOOLEAN /\ Len(q.buffer) \in Nat
           /\ DOMAIN q.buffer = 1 .. Len(q.buffer)
BY DEF QueueSet

LEMMA FromElements ==
    ASSUME NEW S, NEW s \in Seq(S), NEW i \in 1 .. Len(s) + 1
    PROVE  /\ From(s, i) \in Seq(S) /\ Len(From(s, i)) = Len(s) - i + 1
           /\ \A k \in 1 .. Len(s) - i + 1 : From(s, i)[k] = s[i + k - 1]
<1>1. Len(s) \in Nat
  OBVIOUS
<1>2. \A k \in i .. Len(s) : s[k] \in S
  <2>1. \A k \in i .. Len(s) : k \in 1 .. Len(s)
    BY <1>1
  <2> QED
    BY <2>1, ElementOfSeq
<1>3. \A k \in 1 .. Len(s) - i + 1 : SubSeq(s, i, Len(s))[k] = s[i + k - 1]
  BY <1>1, <1>2, SubSeqProperties
<1> QED
  BY <1>3, FromIs DEF From

(* A prefix of ranges drops with the cells.                                *)
LEMMA TimesShift ==
    ASSUME NEW S, NEW P, NEW time, NEW q \in QueueSet(S, P), NEW p \in QueueSet(S, P),
           NEW n \in Nat, EndOf(q.buffer, n, p.buffer), ShiftedBy(q.ranges, p.ranges, n),
           InStep(q, time)
    PROVE  InStep(p, time)
<1> DEFINE old == q.ranges
           new == p.ranges
           before == RangeEnds(old)
           after == RangeEnds(new)
           d == Len(old) - Len(new)
<1>1. old \in Seq(RangeSet(P)) /\ new \in Seq(RangeSet(P))
  BY QueueFields
<1>2. /\ d \in Nat /\ before[d] <= n
      /\ \A j \in 1 .. Len(new) : new[j].pts = old[j + d].pts /\ after[j] = before[j + d] - n
  BY DEF ShiftedBy
<1>3. /\ Len(q.buffer) = n + Len(p.buffer) /\ Len(p.buffer) \in Nat
      /\ \A k \in 1 .. Len(p.buffer) : p.buffer[k] = q.buffer[n + k]
  BY QueueFields DEF EndOf
<1>4. /\ before[Len(old)] = Len(q.buffer)
      /\ \A k \in 1 .. Len(old) : \A i \in before[k - 1] + 1 .. before[k] :
            q.buffer[i].id # 0 => old[k].pts = time[q.buffer[i].id]
  BY DEF InStep
<1>5. Len(new) \in Nat /\ Len(old) \in Nat
  BY <1>1, LengthsAre
<1>6. after \in [0 .. Len(new) -> Nat] /\ after[0] = 0
  BY <1>1, EndsAre
<1>7. before \in [0 .. Len(old) -> Nat]
  BY <1>1, EndsAre
<1>8. \A i, k \in 0 .. Len(new) : i < k => after[i] < after[k]
  BY <1>1, EndsGrow
<1> HIDE DEF before, after, old, new
<1>9. after[Len(new)] = Len(p.buffer)
  <2>1. CASE Len(new) = 0
    <3>1. d = Len(old)
      BY <1>5, <2>1
    <3> QED
      BY <1>2, <1>3, <1>4, <1>6, <2>1, <3>1
  <2>2. CASE Len(new) # 0
    <3>1. Len(new) \in 1 .. Len(new) /\ Len(new) + d = Len(old)
      BY <1>5, <2>2
    <3>2. after[Len(new)] = before[Len(old)] - n
      BY <1>2, <3>1
    <3> QED
      BY <1>3, <1>4, <3>2
  <2> QED
    BY <2>1, <2>2
<1>10. ASSUME NEW k \in 1 .. Len(new), NEW i \in after[k - 1] + 1 .. after[k], p.buffer[i].id # 0
       PROVE  new[k].pts = time[p.buffer[i].id]
  <2>1. k + d \in 1 .. Len(old) /\ (k + d) - 1 = (k - 1) + d /\ (k - 1) + d \in 0 .. Len(old)
        /\ k - 1 \in 0 .. Len(new) /\ k \in 0 .. Len(new)
    BY <1>2, <1>5
  <2>2. after[k - 1] \in Nat /\ after[k] \in Nat /\ before[k + d] \in Nat /\ before[(k - 1) + d] \in Nat
    BY <1>6, <1>7, <2>1
  <2>3. after[k] = before[k + d] - n /\ new[k].pts = old[k + d].pts
    BY <1>2
  <2>4. before[(k - 1) + d] - n <= after[k - 1]
    <3>1. CASE k = 1
      <4>1. (k - 1) + d = d /\ after[k - 1] = 0
        BY <1>2, <1>6, <3>1
      <4> QED
        BY <1>2, <2>2, <4>1
    <3>2. CASE k # 1
      <4>1. k - 1 \in 1 .. Len(new)
        BY <1>5, <3>2
      <4>2. after[k - 1] = before[(k - 1) + d] - n
        BY <1>2, <4>1
      <4> QED
        BY <2>2, <4>2
    <3> QED
      BY <3>1, <3>2
  <2>5. n + i \in before[(k + d) - 1] + 1 .. before[k + d] /\ i \in Nat
    <3>1. before[(k + d) - 1] = before[(k - 1) + d]
      BY <2>1
    <3>2. i \in Nat /\ after[k - 1] + 1 <= i /\ i <= after[k]
      BY <2>2
    <3>3. before[(k - 1) + d] + 1 <= n + i /\ n + i <= before[k + d]
      <4> DEFINE a == before[(k - 1) + d]
                 b == before[k + d]
                 u == after[k - 1]
                 v == after[k]
      <4>1. a \in Nat /\ b \in Nat /\ u \in Nat /\ v \in Nat /\ v = b - n /\ a - n <= u
            /\ u + 1 <= i /\ i <= v /\ i \in Nat
        BY <2>2, <2>3, <2>4, <3>2
      <4> HIDE DEF a, b, u, v
      <4>2. a + 1 <= n + i /\ n + i <= b
        BY <4>1
      <4> QED
        BY <4>2 DEF a, b
    <3> QED
      BY <2>2, <3>1, <3>2, <3>3
  <2>6. i \in 1 .. Len(p.buffer)
    <3>1. after[k] <= after[Len(new)]
      <4>1. Len(new) \in 0 .. Len(new) /\ (k < Len(new) \/ k = Len(new))
        BY <1>5
      <4>2. k < Len(new) => after[k] < after[Len(new)]
        BY <1>8, <2>1, <4>1
      <4>3. after[Len(new)] \in Nat
        BY <1>6, <4>1
      <4> QED
        BY <2>2, <4>1, <4>2, <4>3
    <3> QED
      BY <1>3, <1>9, <2>2, <3>1
  <2>7. p.buffer[i] = q.buffer[n + i]
    BY <1>3, <2>6
  <2>8. old[k + d].pts = time[q.buffer[n + i].id]
    BY <1>4, <1>10, <2>1, <2>5, <2>7
  <2> QED
    BY <2>3, <2>7, <2>8
<1> QED
  BY <1>9, <1>10 DEF InStep, after, new

LEMMA DropIs ==
    ASSUME NEW S, NEW P, NEW time, NEW q \in QueueSet(S, P), NEW n \in 0 .. Len(q.buffer)
    PROVE  /\ Drop(q, n) \in QueueSet(S, P) /\ Drop(q, n).mode = q.mode
           /\ EndOf(q.buffer, n, Drop(q, n).buffer)
           /\ InStep(q, time) => InStep(Drop(q, n), time)
<1> DEFINE b == From(q.buffer, n + 1)
           r == RangesAfter(q.ranges, n)
           p == Drop(q, n)
<1>1. /\ q.buffer \in Seq(S) /\ q.ranges \in Seq(RangeSet(P)) /\ Len(q.buffer) \in Nat
      /\ q.mode \in Modes /\ q.format \in BOOLEAN
  BY QueueFields
<1>2. n \in Nat /\ n + 1 \in 1 .. Len(q.buffer) + 1
  BY <1>1
<1>3. /\ b \in Seq(S) /\ Len(b) = Len(q.buffer) - (n + 1) + 1
      /\ \A k \in 1 .. Len(q.buffer) - (n + 1) + 1 : b[k] = q.buffer[(n + 1) + k - 1]
  BY <1>1, <1>2, FromElements
<1>4. r \in Seq(RangeSet(P)) /\ ShiftedBy(q.ranges, r, n)
  BY <1>1, <1>2, RangesAfterIs
<1>5. p = [mode |-> q.mode, buffer |-> b, ranges |-> r, format |-> q.format]
  <2>1. p = [q EXCEPT !.buffer = b, !.ranges = r]
    BY DEF Drop
  <2> HIDE DEF b, r, p
  <2> QED
    BY <2>1 DEF QueueSet
<1> HIDE DEF b, r, p
<1>6. p \in QueueSet(S, P) /\ p.mode = q.mode /\ p.buffer = b /\ p.ranges = r
  BY <1>1, <1>3, <1>4, <1>5 DEF QueueSet
<1>7. EndOf(q.buffer, n, b)
  <2>1. Len(q.buffer) - (n + 1) + 1 = Len(q.buffer) - n /\ Len(q.buffer) = n + (Len(q.buffer) - n)
    BY <1>1, <1>2
  <2>2. \A k \in 1 .. Len(b) : b[k] = q.buffer[n + k]
    <3>1. \A k \in 1 .. Len(b) : (n + 1) + k - 1 = n + k
      BY <1>1, <1>2
    <3> QED
      BY <1>3, <3>1
  <2> QED
    BY <1>2, <1>3, <2>1, <2>2 DEF EndOf
<1>8. ASSUME InStep(q, time) PROVE InStep(p, time)
  BY <1>2, <1>4, <1>6, <1>7, <1>8, TimesShift
<1> QED
  BY <1>6, <1>7, <1>8 DEF p

(* What begins the buffer has the timestamp of the first range.            *)
LEMMA FirstIsTimed ==
    ASSUME NEW S, NEW P, NEW time, NEW q \in QueueSet(S, P), InStep(q, time), Len(q.buffer) > 0
    PROVE  q.ranges # <<>> /\ (q.buffer[1].id # 0 => q.ranges[1].pts = time[q.buffer[1].id])
<1> DEFINE end == RangeEnds(q.ranges)
           L == Len(q.ranges)
<1>1. q.ranges \in Seq(RangeSet(P)) /\ Len(q.buffer) \in Nat
  BY QueueFields
<1>2. L \in Nat /\ \A k \in 1 .. L : q.ranges[k].length \in Nat \ {0}
  BY <1>1, LengthsAre
<1>3. /\ end \in [0 .. L -> Nat] /\ end[0] = 0
      /\ \A k \in 1 .. L : end[k] = end[k - 1] + q.ranges[k].length
  BY <1>1, EndsAre
<1>4. /\ end[L] = Len(q.buffer)
      /\ \A k \in 1 .. L : \A i \in end[k - 1] + 1 .. end[k] :
            q.buffer[i].id # 0 => q.ranges[k].pts = time[q.buffer[i].id]
  BY DEF InStep
<1> HIDE DEF end
<1>5. L # 0
  BY <1>1, <1>3, <1>4
<1>6. 1 \in 1 .. L
  BY <1>2, <1>5
<1>7. end[1] = end[0] + q.ranges[1].length /\ q.ranges[1].length \in Nat \ {0}
  <2>1. 1 - 1 = 0
    OBVIOUS
  <2> QED
    BY <1>2, <1>3, <1>6, <2>1
<1>8. 1 \in end[1 - 1] + 1 .. end[1]
  BY <1>3, <1>7
<1>9. q.ranges # <<>>
  BY <1>5
<1> QED
  BY <1>4, <1>6, <1>8, <1>9

LEMMA TrimsItself ==
    ASSUME NEW S, NEW P, NEW time, NEW q \in QueueSet(S, P)
    PROVE  Trims(S, P, time, q, q)
<1>1. EndOf(q.buffer, 0, q.buffer)
  BY QueueFields DEF EndOf
<1> QED
  BY <1>1 DEF Trims

LEMMA TrimsFormat ==
    ASSUME NEW S, NEW P, NEW time, NEW q, NEW p, Trims(S, P, time, q, p), NEW f \in BOOLEAN
    PROVE  Trims(S, P, time, q, [p EXCEPT !.format = f])
<1> DEFINE r == [p EXCEPT !.format = f]
<1>1. r \in QueueSet(S, P) /\ r.mode = p.mode /\ r.buffer = p.buffer /\ r.ranges = p.ranges
  BY DEF Trims, QueueSet
<1> HIDE DEF r
<1>2. InStep(p, time) => InStep(r, time)
  BY <1>1 DEF InStep
<1> QED
  BY <1>1, <1>2 DEF Trims, r

LEMMA EndOfEnd ==
    ASSUME NEW S, NEW a \in Seq(S), NEW b \in Seq(S), NEW c \in Seq(S), NEW m, NEW n,
           EndOf(a, m, b), EndOf(b, n, c)
    PROVE  EndOf(a, m + n, c)
<1>1. Len(a) \in Nat /\ Len(b) \in Nat /\ Len(c) \in Nat
  BY LenProperties
<1>2. m \in Nat /\ n \in Nat /\ Len(a) = m + Len(b) /\ Len(b) = n + Len(c)
  BY DEF EndOf
<1>3. ASSUME NEW k \in 1 .. Len(c) PROVE c[k] = a[(m + n) + k]
  <2>1. n + k \in 1 .. Len(b) /\ m + (n + k) = (m + n) + k
    BY <1>1, <1>2
  <2>2. c[k] = b[n + k] /\ b[n + k] = a[m + (n + k)]
    BY <2>1 DEF EndOf
  <2> QED
    BY <2>1, <2>2
<1>4. m + n \in Nat /\ Len(a) = (m + n) + Len(c)
  BY <1>1, <1>2
<1> QED
  BY <1>3, <1>4 DEF EndOf

LEMMA TrimsDrop ==
    ASSUME NEW S, NEW P, NEW time, NEW q \in QueueSet(S, P), NEW p, Trims(S, P, time, q, p),
           NEW n \in 0 .. Len(p.buffer)
    PROVE  Trims(S, P, time, q, Drop(p, n))
<1>1. p \in QueueSet(S, P) /\ p.mode = q.mode
  BY DEF Trims
<1>2. PICK t \in Nat : EndOf(q.buffer, t, p.buffer)
  BY DEF Trims
<1> DEFINE d == Drop(p, n)
<1>3. /\ d \in QueueSet(S, P) /\ d.mode = p.mode /\ EndOf(p.buffer, n, d.buffer)
      /\ InStep(p, time) => InStep(d, time)
  BY <1>1, DropIs
<1> HIDE DEF d
<1>4. EndOf(q.buffer, t + n, d.buffer)
  BY <1>1, <1>2, <1>3, QueueFields, EndOfEnd
<1>5. t + n \in Nat
  BY <1>4 DEF EndOf
<1> QED
  BY <1>1, <1>3, <1>4, <1>5 DEF Trims, d

LEMMA TrimsNothing ==
    ASSUME NEW S, NEW P, NEW time, NEW q \in QueueSet(S, P), NEW p, Trims(S, P, time, q, p)
    PROVE  Cuts(S, P, time, q, Nothing(p))
<1> DEFINE r == Nothing(p)
<1>1. r.q = p /\ r.unit = [cells |-> <<>>, pts |-> -1]
  BY DEF Nothing, NoUnit
<1> HIDE DEF r
<1>2. r.unit = NoUnit /\ r.unit.cells = <<>>
  BY <1>1 DEF NoUnit
<1>3. p \in QueueSet(S, P) /\ p.mode = q.mode
  BY DEF Trims
<1>4. PICK t \in Nat : EndOf(q.buffer, t, p.buffer)
  BY DEF Trims
<1>5. Parts(q.buffer, t, r.unit.cells, p.buffer)
  <2>1. Len(p.buffer) \in Nat
    BY <1>3, QueueFields
  <2>2. t + Len(r.unit.cells) = t
    BY <1>2
  <2> QED
    BY <1>2, <1>4, <2>1, <2>2 DEF EndOf, Parts
<1> QED
  BY <1>1, <1>2, <1>3, <1>5 DEF Trims, Cuts, UnitTimely, r

LEMMA TrimsTake ==
    ASSUME NEW S, NEW P, NEW time, NEW q \in QueueSet(S, P), NEW p, Trims(S, P, time, q, p),
           NEW n \in 1 .. Len(p.buffer)
    PROVE  Cuts(S, P, time, q, Take(p, n))
<1> DEFINE d == Drop(p, n)
           cells == SubSeq(p.buffer, 1, n)
           pts == fetchTimestamp(p, n)
           r == Take(p, n)
<1>1. p \in QueueSet(S, P) /\ p.mode = q.mode
  BY DEF Trims
<1>2. /\ p.buffer \in Seq(S) /\ Len(p.buffer) \in Nat /\ p.ranges \in Seq(RangeSet(P))
      /\ q.buffer \in Seq(S) /\ Len(q.buffer) \in Nat
  BY <1>1, QueueFields
<1>3. n \in 0 .. Len(p.buffer) /\ n \in Nat
  BY <1>2
<1>4. /\ d \in QueueSet(S, P) /\ d.mode = p.mode /\ EndOf(p.buffer, n, d.buffer)
      /\ InStep(p, time) => InStep(d, time)
  BY <1>1, <1>3, DropIs
<1>5. /\ cells \in Seq(S) /\ Len(cells) = n /\ \A k \in 1 .. n : cells[k] = p.buffer[k]
  <2>1. \A k \in 1 .. n : p.buffer[k] \in S
    BY <1>2, ElementOfSeq
  <2>2. /\ cells \in Seq(S) /\ Len(cells) = IF 1 <= n THEN n - 1 + 1 ELSE 0
        /\ \A k \in 1 .. n - 1 + 1 : cells[k] = p.buffer[1 + k - 1]
    BY <1>3, <2>1, SubSeqProperties
  <2>3. 1 <= n /\ n - 1 + 1 = n /\ \A k \in 1 .. n : 1 + k - 1 = k
    BY <1>3
  <2> HIDE DEF cells
  <2> QED
    BY <2>2, <2>3
<1>6. pts = IF p.ranges = <<>> THEN -1 ELSE p.ranges[1].pts
  BY DEF fetchTimestamp
<1>7. pts \in P \cup {-1}
  <2>1. p.ranges # <<>> => 1 \in 1 .. Len(p.ranges)
    BY <1>2
  <2> QED
    BY <1>2, <1>6, <2>1, LengthsAre
<1>8. r.q = d /\ r.unit = [cells |-> cells, pts |-> pts]
  BY DEF Take
<1> HIDE DEF d, cells, pts, r
<1>9. r.unit \in UnitSet(S, P) /\ r.unit.cells = cells /\ r.unit.pts = pts
  <2>1. cells # <<>>
    BY <1>3, <1>5
  <2> QED
    BY <1>5, <1>7, <1>8, <2>1 DEF UnitSet
<1>10. PICK t \in Nat : EndOf(q.buffer, t, p.buffer)
  BY DEF Trims
<1>11. Parts(q.buffer, t, cells, d.buffer)
  <2>1. Len(d.buffer) \in Nat
    BY <1>4, QueueFields
  <2>2. Len(q.buffer) = t + Len(p.buffer) /\ Len(p.buffer) = n + Len(d.buffer)
    BY <1>4, <1>10 DEF EndOf
  <2>3. Len(q.buffer) = t + Len(cells) + Len(d.buffer)
    <3>1. Len(cells) = n
      BY <1>5
    <3>2. Len(q.buffer) = t + n + Len(d.buffer)
      <4> DEFINE lq == Len(q.buffer)
                 lp == Len(p.buffer)
                 ld == Len(d.buffer)
      <4>1. lp \in Nat /\ ld \in Nat /\ lq = t + lp /\ lp = n + ld
        BY <1>2, <2>1, <2>2
      <4> HIDE DEF lq, lp, ld
      <4>2. lq = t + n + ld
        BY <1>3, <4>1
      <4> QED
        BY <4>2 DEF lq, ld
    <3> QED
      BY <3>1, <3>2
  <2>4. ASSUME NEW k \in 1 .. Len(cells) PROVE cells[k] = q.buffer[t + k]
    <3>1. k \in 1 .. n /\ k \in 1 .. Len(p.buffer)
      BY <1>3, <1>5, <1>2
    <3> QED
      BY <1>5, <1>10, <3>1 DEF EndOf
  <2>5. ASSUME NEW k \in 1 .. Len(d.buffer) PROVE d.buffer[k] = q.buffer[t + Len(cells) + k]
    <3>1. n + k \in 1 .. Len(p.buffer) /\ t + (n + k) = t + n + k
      BY <1>3, <2>1, <2>2
    <3>2. d.buffer[k] = p.buffer[n + k] /\ p.buffer[n + k] = q.buffer[t + (n + k)]
      BY <1>4, <1>10, <3>1 DEF EndOf
    <3> QED
      BY <1>5, <3>1, <3>2
  <2> QED
    BY <1>10, <2>3, <2>4, <2>5 DEF Parts
<1>12. InStep(p, time) => UnitTimely(r.unit, time)
  <2>1. cells[1] = p.buffer[1] /\ Len(p.buffer) > 0
    BY <1>2, <1>3, <1>5
  <2>2. InStep(p, time) =>
            p.ranges # <<>> /\ (p.buffer[1].id # 0 => p.ranges[1].pts = time[p.buffer[1].id])
    BY <1>1, <2>1, FirstIsTimed
  <2> QED
    BY <1>6, <1>9, <2>1, <2>2 DEF UnitTimely
<1> QED
  BY <1>1, <1>4, <1>8, <1>9, <1>11, <1>12 DEF Trims, Cuts, r

(* Where a cell starts something, its length is known.                     *)
CellsOK(S) == \A c \in S : c.start => c.len \in Nat

(* Where the scan of an MPEG-2 stream is after n cells.                    *)
ScanSet(S) ==
    LET codes == {-1} \cup {c.code : c \in S} IN
    [pprev : codes, prev : codes, format : BOOLEAN, begin : Nat, saw : BOOLEAN, cut : Nat]
ScanOK(scan, n) ==
    /\ scan.begin >= 1 /\ (scan.begin <= n \/ scan.begin = 1)
    /\ scan.saw => scan.begin <= n
    /\ scan.cut # 0 => scan.begin < scan.cut /\ scan.cut <= n

LEMMA StartCodeScanned ==
    ASSUME NEW S, NEW scan \in ScanSet(S), NEW n \in Nat \ {0}, NEW c \in S
    PROVE  /\ MpegStartCode(scan, n, c) \in ScanSet(S)
           /\ ScanOK(scan, n - 1) => ScanOK(MpegStartCode(scan, n, c), n)
<1> DEFINE next == MpegStartCode(scan, n, c)
           trims == c.code = SequenceHeader /\ ~scan.format
           format == \/ scan.format
                     \/ scan.prev = SequenceHeader /\ c.code # SequenceExtension
                     \/ scan.pprev = SequenceHeader /\ scan.prev = SequenceExtension
           picture == format /\ c.code = Picture
<1>1. /\ scan.format \in BOOLEAN /\ scan.saw \in BOOLEAN /\ scan.begin \in Nat /\ scan.cut \in Nat
      /\ scan.prev \in {-1} \cup {x.code : x \in S} /\ c.code \in {-1} \cup {x.code : x \in S}
  BY DEF ScanSet
<1>2. CASE scan.cut # 0 \/ ~c.start
  <2>1. next = scan
    BY <1>2 DEF MpegStartCode
  <2>2. ScanOK(scan, n - 1) => ScanOK(scan, n)
    BY <1>1 DEF ScanOK
  <2> QED
    BY <2>1, <2>2
<1>3. CASE ~(scan.cut # 0 \/ ~c.start)
  <2>1. next = [pprev |-> scan.prev, prev |-> c.code, format |-> format,
                begin |-> IF trims THEN n ELSE scan.begin,
                saw |-> scan.saw \/ picture,
                cut |-> IF picture /\ scan.saw THEN n ELSE 0]
    BY <1>3 DEF MpegStartCode
  <2>2. format \in BOOLEAN /\ picture \in BOOLEAN
    BY <1>1
  <2>3. ~(picture /\ trims)
    BY DEF SequenceHeader, Picture
  <2> HIDE DEF next, format, trims, picture
  <2>4. next \in ScanSet(S)
    BY <1>1, <2>1, <2>2 DEF ScanSet
  <2>5. /\ next.begin = IF trims THEN n ELSE scan.begin
        /\ next.saw = (scan.saw \/ picture)
        /\ next.cut = IF picture /\ scan.saw THEN n ELSE 0
    BY <2>1
  <2>6. ASSUME ScanOK(scan, n - 1) PROVE ScanOK(next, n)
    <3>1. /\ scan.begin >= 1 /\ (scan.begin <= n - 1 \/ scan.begin = 1)
          /\ scan.saw => scan.begin <= n - 1
      BY <2>6 DEF ScanOK
    <3>2. next.begin >= 1 /\ next.begin <= n
      BY <1>1, <2>5, <3>1
    <3>3. next.cut # 0 => next.begin < next.cut /\ next.cut <= n
      BY <1>1, <2>3, <2>5, <3>1
    <3> QED
      BY <3>2, <3>3 DEF ScanOK
  <2> QED
    BY <2>4, <2>6 DEF next
<1> QED
  BY <1>2, <1>3

LEMMA MpegVideoIsDequeued ==
    ASSUME NEW S, NEW P, NEW time, NEW q \in QueueSet(S, P)
    PROVE  Cuts(S, P, time, q, dequeueAccessUnitMPEGVideo(q))
<1> DEFINE L == Len(q.buffer)
           b == [pprev |-> -1, prev |-> -1, format |-> q.format, begin |-> 1, saw |-> FALSE, cut |-> 0]
           next(f, n) == IF n = 0 THEN b ELSE MpegStartCode(f[n - 1], n, q.buffer[n])
           loop(f) == [n \in 0 .. L |-> next(f, n)]
           it == CHOOSE f : f = loop(f)
           step == [n \in 1 .. L |-> [x \in ScanSet(S) |-> MpegStartCode(x, n, q.buffer[n])]]
           trimmed == [Drop(q, it[L].begin - 1) EXCEPT !.format = it[L].format]
<1>1. L \in Nat /\ q.format \in BOOLEAN /\ \A n \in 1 .. L : q.buffer[n] \in S
  BY QueueFields, ElementOfSeq
<1>2. b \in ScanSet(S) /\ ScanOK(b, 0)
  BY <1>1 DEF ScanSet, ScanOK
<1> HIDE DEF b, L
<1>3. \A n \in 1 .. L : \A x \in ScanSet(S) : MpegStartCode(x, n, q.buffer[n]) \in ScanSet(S)
  <2> SUFFICES ASSUME NEW n \in 1 .. L, NEW x \in ScanSet(S)
               PROVE  MpegStartCode(x, n, q.buffer[n]) \in ScanSet(S)
    OBVIOUS
  <2>1. q.buffer[n] \in S /\ n \in Nat
    BY <1>1
  <2> DEFINE cell == q.buffer[n]
  <2> HIDE DEF cell
  <2>2. cell \in S
    BY <2>1 DEF cell
  <2>3. MpegStartCode(x, n, cell) \in ScanSet(S)
    BY <2>1, <2>2, StartCodeScanned
  <2> QED
    BY <2>3 DEF cell
<1>4. step \in [1 .. L -> [ScanSet(S) -> ScanSet(S)]]
  BY <1>3
<1>5. PICK f : IsLoop(f, L, ScanSet(S), b, step)
  <2> HIDE DEF step
  <2> QED
    BY <1>1, <1>2, <1>4, LoopExists
<1>6. f = loop(f)
  <2>1. f \in [0 .. L -> ScanSet(S)] /\ f[0] = b /\ \A n \in 1 .. L : f[n] = step[n][f[n - 1]]
    BY <1>5 DEF IsLoop
  <2>2. ASSUME NEW n \in 1 .. L PROVE f[n] = MpegStartCode(f[n - 1], n, q.buffer[n])
    <3>1. f[n - 1] \in ScanSet(S)
      BY <1>1, <2>1
    <3> QED
      BY <2>1, <3>1
  <2>3. \A n \in 0 .. L : f[n] = next(f, n)
    BY <1>1, <2>1, <2>2
  <2> QED
    BY <2>1, <2>3
<1>7. it = loop(it)
  <2> HIDE DEF loop
  <2> QED
    BY <1>6
<1>8. dequeueAccessUnitMPEGVideo(q) =
          IF it[L].cut = 0 THEN Nothing(trimmed) ELSE Take(trimmed, it[L].cut - it[L].begin)
  BY DEF dequeueAccessUnitMPEGVideo, L, b
<1> HIDE DEF it
<1>9. it[0] = b /\ \A n \in 1 .. L : it[n] = MpegStartCode(it[n - 1], n, q.buffer[n])
  BY <1>1, <1>7
<1> DEFINE T == {n \in 0 .. L : it[n] \in ScanSet(S) /\ ScanOK(it[n], n)}
<1>10. ASSUME NEW n \in 1 .. L, n - 1 \in T PROVE n \in T
  <2>1. it[n - 1] \in ScanSet(S) /\ ScanOK(it[n - 1], n - 1) /\ n \in Nat \ {0} /\ q.buffer[n] \in S
    BY <1>1, <1>10
  <2> QED
    BY <1>1, <1>9, <2>1, StartCodeScanned
<1>11. \A n \in 0 .. L : n \in T
  <2>1. 0 \in T /\ \A n \in 1 .. L : n - 1 \in T => n \in T
    BY <1>1, <1>2, <1>9, <1>10
  <2> HIDE DEF T
  <2> QED
    BY <1>1, <2>1, InductionToLength
<1>12. it[L] \in ScanSet(S) /\ ScanOK(it[L], L)
  BY <1>1, <1>11
<1> DEFINE begin == it[L].begin
           cut == it[L].cut
<1>13. /\ begin \in Nat /\ cut \in Nat /\ it[L].format \in BOOLEAN
       /\ begin >= 1 /\ (begin <= L \/ begin = 1) /\ (cut # 0 => begin < cut /\ cut <= L)
  BY <1>12 DEF ScanSet, ScanOK
<1> HIDE DEF begin, cut
<1>14. begin - 1 \in 0 .. L /\ L - (begin - 1) \in Nat
  BY <1>1, <1>13
<1>15. begin - 1 \in 0 .. Len(q.buffer)
  BY <1>14 DEF L
<1>16. Trims(S, P, time, q, trimmed)
  <2>1. Trims(S, P, time, q, Drop(q, begin - 1))
    BY <1>15, TrimsItself, TrimsDrop
  <2> QED
    BY <1>13, <2>1, TrimsFormat DEF begin
<1>17. Len(trimmed.buffer) = L - (begin - 1)
  <2>1. EndOf(q.buffer, begin - 1, Drop(q, begin - 1).buffer) /\ Drop(q, begin - 1) \in QueueSet(S, P)
    BY <1>15, DropIs
  <2>2. trimmed.buffer = Drop(q, begin - 1).buffer
    BY <2>1 DEF begin, QueueSet
  <2>3. Len(trimmed.buffer) \in Nat
    BY <2>1, <2>2, QueueFields
  <2>4. L = (begin - 1) + Len(trimmed.buffer)
    BY <2>1, <2>2 DEF EndOf, L
  <2> HIDE DEF trimmed
  <2> QED
    BY <1>1, <1>13, <2>3, <2>4
<1> HIDE DEF trimmed
<1>18. CASE cut = 0
  <2>1. dequeueAccessUnitMPEGVideo(q) = Nothing(trimmed)
    BY <1>8, <1>18 DEF cut
  <2> QED
    BY <1>16, <2>1, TrimsNothing
<1>19. CASE cut # 0
  <2>1. dequeueAccessUnitMPEGVideo(q) = Take(trimmed, cut - begin)
    BY <1>8, <1>19 DEF cut, begin
  <2>2. cut - begin \in 1 .. Len(trimmed.buffer)
    BY <1>1, <1>13, <1>17, <1>19
  <2> QED
    BY <1>16, <2>1, <2>2, TrimsTake
<1> QED
  BY <1>18, <1>19

(* Where the scan of an MPEG-4 stream can be: what it has thrown away was  *)
(* at the beginning of q.                                                  *)
ChunkStates == {"sequence", "object", "vo", "vol", "wait", "vop", "refuse", "unit"}
ChunkSet(S, P, time, q) ==
    {scan \in [q : QueueSet(S, P), offset : Nat, state : ChunkStates] :
        /\ Trims(S, P, time, q, scan.q) /\ scan.offset <= Len(scan.q.buffer)
        /\ scan.state = "unit" => scan.offset > 0}

LEMMA ChunkScanned ==
    ASSUME NEW S, NEW P, NEW time, NEW q \in QueueSet(S, P), NEW scan \in ChunkSet(S, P, time, q)
    PROVE  Mpeg4Chunk(scan) \in ChunkSet(S, P, time, q)
<1> DEFINE p == scan.q
           first == p.buffer[scan.offset + 1]
           nexts == {i \in DOMAIN p.buffer : i > scan.offset + 1 /\ p.buffer[i].start}
           end == Min(nexts) - 1
           next == Mpeg4Header(scan.state, first.code)
           after == Mpeg4Chunk(scan)
<1>1. /\ scan \in [q : QueueSet(S, P), offset : Nat, state : ChunkStates]
      /\ Trims(S, P, time, q, p) /\ scan.offset <= Len(p.buffer)
      /\ scan.state = "unit" => scan.offset > 0
  BY DEF ChunkSet
<1>2. /\ p \in QueueSet(S, P) /\ scan.offset \in Nat /\ scan.state \in ChunkStates
      /\ Len(p.buffer) \in Nat /\ DOMAIN p.buffer = 1 .. Len(p.buffer)
  BY <1>1, QueueFields
<1>3. after = IF scan.state \in {"refuse", "unit"} THEN scan
              ELSE IF nexts = {} \/ ~first.start THEN [scan EXCEPT !.state = "refuse"]
              ELSE IF next = "discard" THEN [scan EXCEPT !.q = Drop(p, end), !.offset = 0]
              ELSE [q |-> [p EXCEPT !.format = @ \/ next = "vop"], offset |-> end, state |-> next]
  BY DEF Mpeg4Chunk
<1>4. nexts \in SUBSET Nat /\ \A i \in nexts : i \in 1 .. Len(p.buffer) /\ i > scan.offset + 1
  BY <1>2
<1> HIDE DEF after, nexts, first
<1>5. CASE scan.state \in {"refuse", "unit"}
  BY <1>3, <1>5 DEF after
<1>6. CASE scan.state \notin {"refuse", "unit"} /\ (nexts = {} \/ ~first.start)
  <2>1. after = [scan EXCEPT !.state = "refuse"]
    BY <1>3, <1>6
  <2>2. /\ after \in [q : QueueSet(S, P), offset : Nat, state : ChunkStates]
        /\ after.q = p /\ after.offset = scan.offset /\ after.state = "refuse"
    BY <1>1, <2>1 DEF ChunkStates
  <2> QED
    BY <1>1, <2>2 DEF ChunkSet, after
<1>7. CASE scan.state \notin {"refuse", "unit"} /\ nexts # {} /\ first.start
  <2>1. Min(nexts) \in nexts
    BY <1>4, <1>7, MinIs
  <2>2. end \in 0 .. Len(p.buffer) /\ end \in Nat /\ end > 0
    <3> DEFINE m == Min(nexts)
    <3>1. m \in 1 .. Len(p.buffer) /\ m > scan.offset + 1
      BY <1>4, <2>1
    <3> HIDE DEF m
    <3>2. m - 1 \in 0 .. Len(p.buffer) /\ m - 1 \in Nat /\ m - 1 > 0
      BY <1>2, <3>1
    <3> QED
      BY <3>2 DEF m
  <2> HIDE DEF end
  <2>3. CASE next = "discard"
    <3>1. after = [scan EXCEPT !.q = Drop(p, end), !.offset = 0]
      BY <1>3, <1>7, <2>3
    <3>2. Trims(S, P, time, q, Drop(p, end))
      BY <1>1, <2>2, TrimsDrop
    <3>3. Drop(p, end) \in QueueSet(S, P)
      BY <3>2 DEF Trims
    <3>4. /\ after \in [q : QueueSet(S, P), offset : Nat, state : ChunkStates]
          /\ after.q = Drop(p, end) /\ after.offset = 0 /\ after.state = scan.state
      BY <1>1, <3>1, <3>3
    <3>5. Len(Drop(p, end).buffer) \in Nat
      BY <3>3, QueueFields
    <3>6. 0 <= Len(Drop(p, end).buffer)
      BY <3>5
    <3>7. after.state # "unit"
      BY <1>7, <3>4
    <3> QED
      BY <3>2, <3>4, <3>6, <3>7 DEF ChunkSet, after
  <2>4. CASE next # "discard"
    <3> DEFINE f == p.format \/ next = "vop"
               r == [p EXCEPT !.format = f]
    <3>1. after = [q |-> r, offset |-> end, state |-> next]
      BY <1>3, <1>7, <2>4
    <3>2. f \in BOOLEAN
      BY <1>2, QueueFields
    <3>3. Trims(S, P, time, q, r)
      <4> HIDE DEF f
      <4> QED
        BY <1>1, <3>2, TrimsFormat
    <3>4. r \in QueueSet(S, P) /\ r.buffer = p.buffer
      <4> HIDE DEF f
      <4> QED
        BY <1>2, <3>2 DEF QueueSet
    <3>5. next \in ChunkStates
      <4>1. scan.state \in {"sequence", "object", "vo", "vol", "wait", "vop"}
        BY <1>2, <1>7 DEF ChunkStates
      <4>2. next \in ChunkStates \cup {"discard"}
        BY <4>1 DEF Mpeg4Header, ChunkStates
      <4> QED
        BY <2>4, <4>2
    <3> HIDE DEF r, next
    <3>6. /\ after \in [q : QueueSet(S, P), offset : Nat, state : ChunkStates]
          /\ after.q = r /\ after.offset = end
      BY <2>2, <3>1, <3>4, <3>5
    <3>7. end <= Len(r.buffer)
      BY <1>2, <2>2, <3>4
    <3> QED
      BY <2>2, <3>3, <3>6, <3>7 DEF ChunkSet, after
  <2> QED
    BY <2>3, <2>4
<1> QED
  BY <1>5, <1>6, <1>7

LEMMA Mpeg4VideoIsDequeued ==
    ASSUME NEW S, NEW P, NEW time, NEW q \in QueueSet(S, P)
    PROVE  Cuts(S, P, time, q, dequeueAccessUnitMPEG4Video(q))
<1> DEFINE L == Len(q.buffer)
           X == ChunkSet(S, P, time, q)
           b == [q |-> q, offset |-> 0, state |-> IF q.format THEN "vop" ELSE "sequence"]
           next(f, n) == IF n = 0 THEN b ELSE Mpeg4Chunk(f[n - 1])
           loop(f) == [n \in 0 .. L |-> next(f, n)]
           it == CHOOSE f : f = loop(f)
           step == [n \in 1 .. L |-> [x \in X |-> Mpeg4Chunk(x)]]
<1>1. L \in Nat
  BY QueueFields
<1>2. b \in X
  <2>1. /\ b \in [q : QueueSet(S, P), offset : Nat, state : ChunkStates]
        /\ b.q = q /\ b.offset = 0 /\ b.state # "unit"
    BY DEF ChunkStates
  <2>2. Trims(S, P, time, q, q)
    BY TrimsItself
  <2> HIDE DEF b
  <2> QED
    BY <1>1, <2>1, <2>2 DEF ChunkSet
<1>3. dequeueAccessUnitMPEG4Video(q) =
          IF it[L].state = "unit" THEN Take(it[L].q, it[L].offset) ELSE Nothing(it[L].q)
  BY DEF dequeueAccessUnitMPEG4Video
<1> HIDE DEF b, L
<1>4. \A x \in X : Mpeg4Chunk(x) \in X
  BY ChunkScanned
<1> HIDE DEF X
<1>5. step \in [1 .. L -> [X -> X]]
  BY <1>4
<1>6. PICK f : IsLoop(f, L, X, b, step)
  <2> HIDE DEF step
  <2> QED
    BY <1>1, <1>2, <1>5, LoopExists
<1>7. f = loop(f)
  <2>1. f \in [0 .. L -> X] /\ f[0] = b /\ \A n \in 1 .. L : f[n] = step[n][f[n - 1]]
    BY <1>6 DEF IsLoop
  <2>2. ASSUME NEW n \in 1 .. L PROVE f[n] = Mpeg4Chunk(f[n - 1])
    <3>1. f[n - 1] \in X
      BY <1>1, <2>1
    <3> QED
      BY <2>1, <3>1
  <2>3. \A n \in 0 .. L : f[n] = next(f, n)
    BY <1>1, <2>1, <2>2
  <2> QED
    BY <2>1, <2>3
<1>8. it = loop(it)
  <2> HIDE DEF loop
  <2> QED
    BY <1>7
<1> HIDE DEF it
<1>9. it[0] = b /\ \A n \in 1 .. L : it[n] = Mpeg4Chunk(it[n - 1])
  BY <1>1, <1>8
<1> DEFINE T == {n \in 0 .. L : it[n] \in X}
<1>10. 0 \in T /\ \A n \in 1 .. L : n - 1 \in T => n \in T
  BY <1>1, <1>2, <1>4, <1>9
<1>11. \A n \in 0 .. L : n \in T
  <2> HIDE DEF T
  <2> QED
    BY <1>1, <1>10, InductionToLength
<1> DEFINE last == it[L]
<1>12. last \in X
  BY <1>1, <1>11
<1> HIDE DEF last
<1>13. /\ last \in [q : QueueSet(S, P), offset : Nat, state : ChunkStates]
       /\ Trims(S, P, time, q, last.q) /\ last.offset <= Len(last.q.buffer)
       /\ last.state = "unit" => last.offset > 0
  BY <1>12 DEF X, ChunkSet
<1>14. Len(last.q.buffer) \in Nat /\ last.offset \in Nat
  BY <1>13, QueueFields
<1>15. CASE last.state = "unit"
  <2>1. last.offset \in 1 .. Len(last.q.buffer)
    BY <1>13, <1>14, <1>15
  <2>2. Cuts(S, P, time, q, Take(last.q, last.offset))
    BY <1>13, <2>1, TrimsTake
  <2> QED
    BY <1>3, <1>15, <2>2 DEF last
<1>16. CASE last.state # "unit"
  <2>1. Cuts(S, P, time, q, Nothing(last.q))
    BY <1>13, TrimsNothing
  <2> QED
    BY <1>3, <1>16, <2>1 DEF last
<1> QED
  BY <1>15, <1>16

LEMMA AdtsGoesOn ==
    ASSUME NEW S, CellsOK(S), NEW P, NEW q \in QueueSet(S, P), q.ranges # <<>>,
           NEW offset \in {-1} \cup 0 .. Len(q.buffer)
    PROVE  /\ AdtsNext(q, offset) \in {-1} \cup 0 .. Len(q.buffer)
           /\ AdtsNext(q, offset) = -1 \/ AdtsNext(q, offset) >= 1
<1> DEFINE L == Len(q.buffer)
           length == Head(q.ranges).length
           c == q.buffer[offset + 1]
           next == AdtsNext(q, offset)
<1>1. L \in Nat /\ q.ranges \in Seq(RangeSet(P)) /\ \A i \in 1 .. L : q.buffer[i] \in S
  BY QueueFields, ElementOfSeq
<1>2. length \in Nat \ {0}
  <2>1. 1 \in 1 .. Len(q.ranges) /\ Head(q.ranges) = q.ranges[1]
    BY <1>1
  <2> QED
    BY <1>1, <2>1, LengthsAre
<1>3. offset + 1 \in 1 .. L => (c.start => c.len \in Nat)
  BY <1>1 DEF CellsOK
<1>4. next = IF offset < 0 \/ offset >= length THEN offset
             ELSE IF offset + 1 > L THEN -1
             ELSE IF ~(c.start /\ c.code = Adts)
                  THEN IF offset + 1 = L THEN -1 ELSE offset + 1
                  ELSE IF c.len = 0 \/ offset + c.len > L THEN -1 ELSE offset + c.len
  BY DEF AdtsNext
<1>5. offset \in {-1} \cup 0 .. L
  OBVIOUS
<1> HIDE DEF L, length, c, next
<1>6. next \in {-1} \cup 0 .. L /\ (next = -1 \/ next >= 1)
  <2>1. CASE offset < 0 \/ offset >= length
    BY <1>1, <1>2, <1>4, <1>5, <2>1
  <2>2. CASE ~(offset < 0 \/ offset >= length)
    <3>1. CASE offset + 1 > L
      BY <1>4, <2>2, <3>1
    <3>2. CASE ~(offset + 1 > L) /\ ~(c.start /\ c.code = Adts)
      BY <1>1, <1>4, <1>5, <2>2, <3>2
    <3>3. CASE ~(offset + 1 > L) /\ c.start /\ c.code = Adts
      <4>1. c.len \in Nat /\ offset \in Nat
        BY <1>1, <1>3, <1>5, <2>2, <3>3
      <4>2. next = IF c.len = 0 \/ offset + c.len > L THEN -1 ELSE offset + c.len
        BY <1>4, <2>2, <3>3
      <4> QED
        BY <1>1, <4>1, <4>2
    <3> QED
      BY <3>1, <3>2, <3>3
  <2> QED
    BY <2>1, <2>2
<1> QED
  BY <1>6 DEF L, next

LEMMA AdtsFramesAre ==
    ASSUME NEW S, CellsOK(S), NEW P, NEW q \in QueueSet(S, P), q.ranges # <<>>, Len(q.buffer) > 0
    PROVE  AdtsFrames(q) \in {-1} \cup 1 .. Len(q.buffer)
<1> DEFINE L == Len(q.buffer)
           X == {-1} \cup 0 .. L
           next(f, n) == IF n = 0 THEN 0 ELSE AdtsNext(q, f[n - 1])
           loop(f) == [n \in 0 .. L |-> next(f, n)]
           it == CHOOSE f : f = loop(f)
           step == [n \in 1 .. L |-> [x \in X |-> AdtsNext(q, x)]]
<1>1. L \in Nat /\ L > 0
  BY QueueFields
<1>2. \A x \in X : AdtsNext(q, x) \in X /\ (AdtsNext(q, x) = -1 \/ AdtsNext(q, x) >= 1)
  BY AdtsGoesOn
<1>3. 0 \in X
  BY <1>1
<1>4. AdtsFrames(q) = it[L]
  BY DEF AdtsFrames
<1> HIDE DEF L
<1>13. X \cap {x \in Int : x = -1 \/ x >= 1} \subseteq {-1} \cup 1 .. L
  BY <1>1
<1>14. X \subseteq Int
  BY <1>1
<1> HIDE DEF X
<1>5. step \in [1 .. L -> [X -> X]]
  BY <1>2
<1>6. PICK f : IsLoop(f, L, X, 0, step)
  <2> HIDE DEF step
  <2> QED
    BY <1>1, <1>3, <1>5, LoopExists
<1>7. f = loop(f)
  <2>1. f \in [0 .. L -> X] /\ f[0] = 0 /\ \A n \in 1 .. L : f[n] = step[n][f[n - 1]]
    BY <1>6 DEF IsLoop
  <2>2. ASSUME NEW n \in 1 .. L PROVE f[n] = AdtsNext(q, f[n - 1])
    <3>1. f[n - 1] \in X
      BY <1>1, <2>1
    <3> QED
      BY <2>1, <3>1
  <2>3. \A n \in 0 .. L : f[n] = next(f, n)
    BY <1>1, <2>1, <2>2
  <2> QED
    BY <2>1, <2>3
<1>8. it = loop(it)
  <2> HIDE DEF loop
  <2> QED
    BY <1>7
<1> HIDE DEF it
<1>9. it[0] = 0 /\ \A n \in 1 .. L : it[n] = AdtsNext(q, it[n - 1])
  BY <1>1, <1>8
<1> DEFINE T == {n \in 0 .. L : it[n] \in X /\ (n # 0 => it[n] = -1 \/ it[n] >= 1)}
<1>10. 0 \in T /\ \A n \in 1 .. L : n - 1 \in T => n \in T
  BY <1>1, <1>2, <1>3, <1>9
<1>11. \A n \in 0 .. L : n \in T
  <2> HIDE DEF T
  <2> QED
    BY <1>1, <1>10, InductionToLength
<1>12. it[L] \in X /\ (it[L] = -1 \/ it[L] >= 1)
  BY <1>1, <1>11
<1> QED
  BY <1>4, <1>12, <1>13, <1>14 DEF L

LEMMA AacIsDequeued ==
    ASSUME NEW S, CellsOK(S), NEW P, NEW time, NEW q \in QueueSet(S, P)
    PROVE  Cuts(S, P, time, q, dequeueAccessUnitAAC(q))
<1> DEFINE length == Head(q.ranges).length
           none == q.buffer = <<>> \/ q.ranges = <<>> \/ length = 0 \/ Len(q.buffer) < length
<1>1. dequeueAccessUnitAAC(q) =
          IF none THEN Nothing(q)
          ELSE IF AdtsFrames(q) < 0 THEN Nothing(q) ELSE Take(q, AdtsFrames(q))
  BY DEF dequeueAccessUnitAAC
<1>2. Trims(S, P, time, q, q)
  BY TrimsItself
<1>3. ~none => q.ranges # <<>> /\ Len(q.buffer) > 0
  BY QueueFields
<1> HIDE DEF none
<1>4. Cuts(S, P, time, q, Nothing(q))
  BY <1>2, TrimsNothing
<1>5. CASE ~none /\ ~(AdtsFrames(q) < 0)
  <2>1. AdtsFrames(q) \in {-1} \cup 1 .. Len(q.buffer)
    BY <1>3, <1>5, AdtsFramesAre
  <2>2. AdtsFrames(q) \in 1 .. Len(q.buffer)
    BY <1>5, <2>1
  <2>3. Cuts(S, P, time, q, Take(q, AdtsFrames(q)))
    BY <1>2, <2>2, TrimsTake
  <2> QED
    BY <1>1, <1>5, <2>3
<1> QED
  BY <1>1, <1>4, <1>5

LEMMA DolbyIsDequeued ==
    ASSUME NEW S, CellsOK(S), NEW P, NEW time, NEW q \in QueueSet(S, P)
    PROVE  Cuts(S, P, time, q, dequeueAccessUnitEAC3(q))
<1> DEFINE frames == {i \in DOMAIN q.buffer : SyncFrame(q.mode, q.buffer, i) > 0}
           first == Min(frames)
           size == SyncFrame(q.mode, q.buffer, first)
           n == first - 1 + size
<1>1. /\ Len(q.buffer) \in Nat /\ DOMAIN q.buffer = 1 .. Len(q.buffer)
      /\ \A i \in 1 .. Len(q.buffer) : q.buffer[i] \in S
  BY QueueFields, ElementOfSeq
<1>2. dequeueAccessUnitEAC3(q) =
          IF frames = {} \/ n > Len(q.buffer) THEN Nothing(q) ELSE Take(q, n)
  BY DEF dequeueAccessUnitEAC3
<1>3. \A i \in 1 .. Len(q.buffer) : SyncFrame(q.mode, q.buffer, i) \in Nat
  BY <1>1 DEF SyncFrame, parseAC3SyncFrame, parseEAC3SyncFrame, CellsOK
<1>4. \A i \in frames : i \in 1 .. Len(q.buffer) /\ SyncFrame(q.mode, q.buffer, i) > 0
  BY <1>1
<1> HIDE DEF frames
<1>5. Trims(S, P, time, q, q)
  BY TrimsItself
<1>6. Cuts(S, P, time, q, Nothing(q))
  BY <1>5, TrimsNothing
<1>7. CASE ~(frames = {} \/ n > Len(q.buffer))
  <2>1. frames \in SUBSET Nat
    BY <1>1, <1>4
  <2>2. first \in frames
    BY <1>7, <2>1, MinIs
  <2>3. first \in Nat \ {0} /\ size \in Nat \ {0}
    BY <1>3, <1>4, <2>2
  <2> HIDE DEF first, size
  <2>4. n \in 1 .. Len(q.buffer)
    BY <1>1, <1>7, <2>3
  <2> HIDE DEF n
  <2>5. Cuts(S, P, time, q, Take(q, n))
    BY <1>5, <2>4, TrimsTake
  <2> QED
    BY <1>2, <1>7, <2>5 DEF n
<1> QED
  BY <1>2, <1>6, <1>7

LEMMA MpegAudioIsDequeued ==
    ASSUME NEW S, CellsOK(S), NEW P, NEW time, NEW q \in QueueSet(S, P), q.mode = "MPEG_AUDIO"
    PROVE  Cuts(S, P, time, q, dequeueAccessUnitMPEGAudio(q))
<1> DEFINE n == GetMPEGAudioFrameSize(Head(q.buffer))
           none == [q EXCEPT !.buffer = <<>>]
<1>1. /\ Len(q.buffer) \in Nat /\ \A i \in 1 .. Len(q.buffer) : q.buffer[i] \in S
      /\ q.buffer \in Seq(S)
  BY QueueFields, ElementOfSeq
<1>2. dequeueAccessUnitMPEGAudio(q) =
          IF q.buffer = <<>> THEN Nothing(q)
          ELSE IF n = 0 THEN Nothing(none)
          ELSE IF n > Len(q.buffer) THEN Nothing(q) ELSE Take(q, n)
  BY DEF dequeueAccessUnitMPEGAudio
<1>3. Trims(S, P, time, q, q)
  BY TrimsItself
<1>4. Cuts(S, P, time, q, Nothing(q))
  BY <1>3, TrimsNothing
<1>5. Cuts(S, P, time, q, Nothing(none))
  <2>1. none \in QueueSet(S, P) /\ none.mode = q.mode /\ none.buffer = <<>>
    <3>1. <<>> \in Seq(S)
      OBVIOUS
    <3> QED
      BY <3>1 DEF QueueSet
  <2> HIDE DEF none
  <2>2. EndOf(q.buffer, Len(q.buffer), none.buffer)
    BY <1>1, <2>1 DEF EndOf
  <2>3. Trims(S, P, time, q, none)
    BY <1>1, <2>1, <2>2 DEF Trims
  <2> QED
    BY <2>3, TrimsNothing
<1>6. CASE ~(q.buffer = <<>>) /\ n # 0 /\ ~(n > Len(q.buffer))
  <2>1. q.buffer[1] \in S /\ Head(q.buffer) = q.buffer[1]
    BY <1>1, <1>6
  <2>2. n \in Nat
    BY <2>1 DEF GetMPEGAudioFrameSize, CellsOK
  <2> HIDE DEF n
  <2>3. n \in 1 .. Len(q.buffer)
    BY <1>1, <1>6, <2>2
  <2>4. Cuts(S, P, time, q, Take(q, n))
    BY <1>3, <2>3, TrimsTake
  <2> QED
    BY <1>2, <1>6, <2>4 DEF n
<1> HIDE DEF n, none
<1> QED
  BY <1>2, <1>4, <1>5, <1>6

-----------------------------------------------------------------------------
(* EsQueue: access units that are made of whole NAL units.                 *)

Pictures == {"H264", "H265"}

(* Some of the first n cells, in their order.                              *)
Picks(whole, n, part) ==
    \E f \in [1 .. Len(part) -> 1 .. n] :
        /\ \A i, j \in 1 .. Len(part) : i < j => f[i] < f[j]
        /\ \A i \in 1 .. Len(part) : part[i] = whole[f[i]]

LEMMA OneMorePicked ==
    ASSUME NEW S, NEW whole, NEW n \in Nat \ {0}, NEW part \in Seq(S), Picks(whole, n - 1, part),
           NEW x \in S, x = whole[n]
    PROVE  Picks(whole, n, part) /\ Picks(whole, n, Append(part, x))
<1> DEFINE m == Len(part)
           more == Append(part, x)
<1>1. PICK f \in [1 .. m -> 1 .. n - 1] :
          /\ \A i, j \in 1 .. m : i < j => f[i] < f[j]
          /\ \A i \in 1 .. m : part[i] = whole[f[i]]
  BY DEF Picks
<1>2. /\ m \in Nat /\ Len(more) = m + 1 /\ more[m + 1] = x
      /\ \A i \in 1 .. m : more[i] = part[i]
  BY AppendProperties
<1>3. \A i \in 1 .. m : f[i] \in 1 .. n - 1 /\ f[i] \in 1 .. n /\ f[i] < n
  BY <1>1
<1> HIDE DEF m, more
<1>4. Picks(whole, n, part)
  <2>1. f \in [1 .. m -> 1 .. n]
    BY <1>1, <1>3
  <2> QED
    BY <1>1, <2>1 DEF Picks, m
<1> DEFINE g == [i \in 1 .. m + 1 |-> IF i = m + 1 THEN n ELSE f[i]]
<1>5. \A i \in 1 .. m + 1 : i = m + 1 \/ (i \in 1 .. m /\ i # m + 1)
  BY <1>2
<1>6. g \in [1 .. m + 1 -> 1 .. n] /\ g[m + 1] = n /\ \A i \in 1 .. m : g[i] = f[i]
  BY <1>2, <1>3, <1>5
<1> HIDE DEF g
<1>7. \A i, j \in 1 .. m + 1 : i < j => g[i] < g[j]
  <2> SUFFICES ASSUME NEW i \in 1 .. m + 1, NEW j \in 1 .. m + 1, i < j PROVE g[i] < g[j]
    OBVIOUS
  <2>1. i \in 1 .. m
    BY <1>2
  <2>2. CASE j = m + 1
    BY <1>3, <1>6, <2>1, <2>2
  <2>3. CASE j \in 1 .. m
    BY <1>1, <1>6, <2>1, <2>3
  <2> QED
    BY <1>5, <2>2, <2>3
<1>8. \A i \in 1 .. m + 1 : more[i] = whole[g[i]]
  BY <1>1, <1>2, <1>5, <1>6
<1>9. Picks(whole, n, more)
  BY <1>2, <1>6, <1>7, <1>8 DEF Picks
<1> QED
  BY <1>4, <1>9 DEF more

(* The cells of NAL units: the first is the first start code.              *)
LEMMA NalCellsAre ==
    ASSUME NEW S, NEW data \in Seq(S)
    PROVE  /\ NalCells(data) \in Seq(S) /\ Picks(data, Len(data), NalCells(data))
           /\ \A s \in 1 .. Len(data) :
                 data[s].start /\ (\A k \in 1 .. s - 1 : ~data[k].start) =>
                    NalCells(data) # <<>> /\ NalCells(data)[1] = data[s]
<1> DEFINE L == Len(data)
           more(x, n) == IF InNal(data, n) THEN Append(x, data[n]) ELSE x
           next(f, n) == IF n = 0 THEN <<>> ELSE more(f[n - 1], n)
           loop(f) == [n \in 0 .. L |-> next(f, n)]
           it == CHOOSE f : f = loop(f)
           step == [n \in 1 .. L |-> [x \in Seq(S) |-> more(x, n)]]
<1>1. L \in Nat /\ \A n \in 1 .. L : data[n] \in S
  BY ElementOfSeq
<1>2. NalCells(data) = it[L]
  BY DEF NalCells
<1>3. \A n \in 1 .. L : \A x \in Seq(S) : more(x, n) \in Seq(S)
  BY <1>1
<1> HIDE DEF L, more
<1>4. step \in [1 .. L -> [Seq(S) -> Seq(S)]]
  BY <1>3
<1>5. PICK f : IsLoop(f, L, Seq(S), <<>>, step)
  <2>1. <<>> \in Seq(S)
    OBVIOUS
  <2> HIDE DEF step
  <2> QED
    BY <1>1, <1>4, <2>1, LoopExists
<1>6. f = loop(f)
  <2>1. f \in [0 .. L -> Seq(S)] /\ f[0] = <<>> /\ \A n \in 1 .. L : f[n] = step[n][f[n - 1]]
    BY <1>5 DEF IsLoop
  <2>2. ASSUME NEW n \in 1 .. L PROVE f[n] = more(f[n - 1], n)
    <3>1. f[n - 1] \in Seq(S)
      BY <1>1, <2>1
    <3> QED
      BY <2>1, <3>1
  <2>3. \A n \in 0 .. L : f[n] = next(f, n)
    BY <1>1, <2>1, <2>2
  <2> QED
    BY <2>1, <2>3
<1>7. it = loop(it)
  <2> HIDE DEF loop
  <2> QED
    BY <1>6
<1> HIDE DEF it
<1>8. it[0] = <<>> /\ \A n \in 1 .. L : it[n] = more(it[n - 1], n)
  BY <1>1, <1>7
<1> DEFINE First(n) == \A s \in 1 .. L : data[s].start /\ (\A k \in 1 .. s - 1 : ~data[k].start) =>
                           IF n < s THEN it[n] = <<>> ELSE it[n] # <<>> /\ it[n][1] = data[s]
           T == {n \in 0 .. L : it[n] \in Seq(S) /\ Picks(data, n, it[n]) /\ First(n)}
<1>9. 0 \in T
  <2>1. Picks(data, 0, <<>>)
    <3> DEFINE g == [i \in 1 .. 0 |-> 0]
    <3>1. Len(<<>>) = 0 /\ 1 .. 0 = {}
      OBVIOUS
    <3>2. g \in [1 .. 0 -> 1 .. 0]
      BY <3>1
    <3> HIDE DEF g
    <3> QED
      BY <3>1, <3>2 DEF Picks
  <2>2. it[0] \in Seq(S) /\ Picks(data, 0, it[0]) /\ 0 \in 0 .. L
    BY <1>1, <1>8, <2>1
  <2>3. First(0)
    <3>1. \A s \in 1 .. L : 0 < s
      BY <1>1
    <3> QED
      BY <1>8, <3>1
  <2> HIDE DEF First
  <2> QED
    BY <2>2, <2>3
<1>10. ASSUME NEW n \in 1 .. L, n - 1 \in T PROVE n \in T
  <2> DEFINE x == it[n - 1]
             y == it[n]
             longer == Append(x, data[n])
  <2>1. x \in Seq(S) /\ Picks(data, n - 1, x) /\ First(n - 1)
    BY <1>10
  <2>2. y = IF InNal(data, n) THEN longer ELSE x
    BY <1>8 DEF more
  <2>3. n \in Nat \ {0} /\ n \in 0 .. L /\ data[n] \in S
    BY <1>1
  <2>4. Picks(data, n, x) /\ Picks(data, n, longer)
    BY <2>1, <2>3, OneMorePicked
  <2>5. /\ longer \in Seq(S) /\ longer # <<>> /\ (x = <<>> => longer[1] = data[n])
        /\ x # <<>> => longer[1] = x[1]
    BY <2>1, <2>3
  <2> HIDE DEF First
  <2>6. First(n)
    <3> HIDE DEF longer, x, y
    <3> SUFFICES ASSUME NEW s \in 1 .. L, data[s].start, \A k \in 1 .. s - 1 : ~data[k].start
                 PROVE  IF n < s THEN y = <<>> ELSE y # <<>> /\ y[1] = data[s]
      BY DEF First, y
    <3>1. IF n - 1 < s THEN x = <<>> ELSE x # <<>> /\ x[1] = data[s]
      BY <2>1 DEF First, x
    <3>2. CASE n < s
      <4>1. ~InNal(data, n)
        <5>1. \A k \in 1 .. n : k \in 1 .. s - 1
          BY <2>3, <3>2
        <5> QED
          BY <5>1 DEF InNal
      <4> QED
        BY <2>2, <2>3, <3>1, <3>2, <4>1
    <3>3. CASE n = s
      <4>1. n \in 1 .. n /\ n \in n .. Len(data) /\ ~IsZero(data[n]) /\ \A j \in n + 1 .. n : ~data[j].start
        BY <1>1, <2>3, <3>3 DEF IsZero, L
      <4>2. InNal(data, n)
        BY <3>3, <4>1 DEF InNal
      <4> QED
        BY <2>2, <2>3, <2>5, <3>1, <3>3, <4>2
    <3>4. CASE ~(n < s) /\ n # s
      <4>1. ~(n - 1 < s)
        BY <2>3, <3>4
      <4> QED
        BY <2>2, <2>5, <3>1, <3>4, <4>1
    <3> QED
      BY <3>2, <3>3, <3>4
  <2> QED
    BY <2>1, <2>2, <2>3, <2>4, <2>5, <2>6
<1>11. \A n \in 0 .. L : n \in T
  <2>1. \A n \in 1 .. L : n - 1 \in T => n \in T
    BY <1>10
  <2> HIDE DEF T
  <2> QED
    BY <1>1, <1>9, <2>1, InductionToLength
<1>12. L \in T /\ \A s \in 1 .. L : ~(L < s)
  BY <1>1, <1>11
<1> QED
  BY <1>2, <1>12 DEF L

(* A queue of pictures begins with a start code or with the zero bytes in  *)
(* front of one, and what was appended to it does not end in zero bytes.   *)
Framed(q) ==
    q.mode \in Pictures =>
        /\ q.buffer = <<>> \/ \E s \in 1 .. Len(q.buffer) :
                                 q.buffer[s].start /\ \A k \in 1 .. s - 1 : IsZero(q.buffer[k])
        /\ \A k \in 1 .. Len(q.ranges) : ~IsZero(q.buffer[RangeEnds(q.ranges)[k]])

Timed(q, time) == InStep(q, time) /\ Framed(q)

(* The result r of a dequeue from q: the unit has what it has from a block. *)
Dequeues(S, P, time, q, r) ==
    /\ r.q \in QueueSet(S, P) /\ r.q.mode = q.mode /\ r.unit \in UnitSet(S, P) \cup {NoUnit}
    /\ \E t \in Nat, block \in Seq(S) :
          Parts(q.buffer, t, block, r.q.buffer) /\ Picks(block, Len(block), r.unit.cells)
    /\ q.mode # "MPEG_AUDIO" /\ Timed(q, time) => Timed(r.q, time) /\ UnitTimely(r.unit, time)

LEMMA PicksAll ==
    ASSUME NEW S, NEW whole \in Seq(S)
    PROVE  Picks(whole, Len(whole), whole)
<1> DEFINE f == [i \in 1 .. Len(whole) |-> i]
<1>1. /\ f \in [1 .. Len(whole) -> 1 .. Len(whole)]
      /\ \A i \in 1 .. Len(whole) : f[i] = i
  OBVIOUS
<1> HIDE DEF f
<1> QED
  BY <1>1 DEF Picks

(* Units of other streams are the block.                                   *)
LEMMA OthersAreDequeued ==
    ASSUME NEW S, NEW P, NEW time, NEW q \in QueueSet(S, P), NEW r, Cuts(S, P, time, q, r),
           q.mode \notin Pictures
    PROVE  Dequeues(S, P, time, q, r)
<1>1. r.unit.cells \in Seq(S)
  <2>1. r.unit \in UnitSet(S, P) => r.unit.cells \in Seq(S)
    BY DEF UnitSet
  <2>2. r.unit = NoUnit => r.unit.cells = <<>> /\ <<>> \in Seq(S)
    BY DEF NoUnit
  <2> QED
    BY <2>1, <2>2 DEF Cuts
<1>2. Picks(r.unit.cells, Len(r.unit.cells), r.unit.cells)
  BY <1>1, PicksAll
<1>3. Framed(r.q)
  BY DEF Cuts, Framed
<1> QED
  BY <1>1, <1>2, <1>3 DEF Cuts, Dequeues, Timed

LEMMA MaxIs ==
    ASSUME NEW L \in Nat, NEW T \in SUBSET (0 .. L), T # {}
    PROVE  Max(T) \in T /\ \A i \in T : i <= Max(T)
<1> DEFINE R == {L - i : i \in T}
<1>1. R \in SUBSET Nat /\ R # {}
  <2>1. \A i \in T : i \in 0 .. L
    OBVIOUS
  <2>2. \A i \in T : L - i \in Nat
    BY <2>1
  <2>3. \E i \in T : TRUE
    OBVIOUS
  <2>4. R # {}
    BY <2>3
  <2>5. \A r \in R : r \in Nat
    BY <2>2
  <2> HIDE DEF R
  <2> QED
    BY <2>4, <2>5
<1>2. PICK r \in R : \A j \in R : r <= j
  BY <1>1, FirstOf
<1>3. PICK m \in T : r = L - m
  BY <1>2
<1>4. \A i \in T : m >= i
  BY <1>2, <1>3
<1>5. Max(T) \in T /\ \A i \in T : Max(T) >= i
  BY <1>3, <1>4 DEF Max
<1> QED
  BY <1>5

(* What is dropped from pictures ends before zero bytes or a start code.   *)
LEMMA DropFramed ==
    ASSUME NEW S, NEW P, NEW time, NEW q \in QueueSet(S, P), Timed(q, time), q.mode \in Pictures,
           NEW n \in 0 .. Len(q.buffer), NEW i \in n + 1 .. Len(q.buffer), q.buffer[i].start,
           \A k \in n + 1 .. i - 1 : IsZero(q.buffer[k])
    PROVE  Framed(Drop(q, n))
<1> DEFINE p == Drop(q, n)
           old == q.ranges
           new == p.ranges
           before == RangeEnds(old)
           after == RangeEnds(new)
           d == Len(old) - Len(new)
<1>1. /\ p \in QueueSet(S, P) /\ EndOf(q.buffer, n, p.buffer) /\ InStep(p, time)
  BY DropIs DEF Timed
<1>2. old \in Seq(RangeSet(P)) /\ new \in Seq(RangeSet(P)) /\ Len(q.buffer) \in Nat
      /\ Len(p.buffer) \in Nat /\ n \in Nat
  BY <1>1, QueueFields
<1>3. new = RangesAfter(old, n)
  BY DEF Drop, QueueSet
<1>4. ShiftedBy(old, new, n)
  BY <1>2, <1>3, RangesAfterIs
<1>5. /\ Len(q.buffer) = n + Len(p.buffer)
      /\ \A k \in 1 .. Len(p.buffer) : p.buffer[k] = q.buffer[n + k]
  BY <1>1 DEF EndOf
<1> HIDE DEF p
<1>6. \E s \in 1 .. Len(p.buffer) : p.buffer[s].start /\ \A k \in 1 .. s - 1 : IsZero(p.buffer[k])
  <2>1. i - n \in 1 .. Len(p.buffer) /\ n + (i - n) = i
    BY <1>2, <1>5
  <2>2. p.buffer[i - n].start
    BY <1>5, <2>1
  <2>3. ASSUME NEW k \in 1 .. (i - n) - 1 PROVE IsZero(p.buffer[k])
    <3>1. k \in 1 .. Len(p.buffer) /\ n + k \in n + 1 .. i - 1
      BY <1>2, <2>1
    <3> QED
      BY <1>5, <3>1
  <2> QED
    BY <2>1, <2>2, <2>3
<1>7. Len(new) \in Nat /\ Len(old) \in Nat
  BY <1>2, LengthsAre
<1>8. after \in [0 .. Len(new) -> Nat] /\ after[0] = 0 /\ after[Len(new)] = Len(p.buffer)
  BY <1>1, <1>2, EndsAre DEF InStep
<1>9. \A j, k \in 0 .. Len(new) : j < k => after[j] < after[k]
  BY <1>2, EndsGrow
<1>10. /\ d \in Nat
       /\ \A j \in 1 .. Len(new) : after[j] = before[j + d] - n
  BY <1>4 DEF ShiftedBy
<1>11. before \in [0 .. Len(old) -> Nat]
  BY <1>2, EndsAre
<1>12. \A k \in 1 .. Len(old) : ~IsZero(q.buffer[before[k]])
  BY DEF Timed, Framed
<1> HIDE DEF before, after, old, new
<1>13. ASSUME NEW k \in 1 .. Len(new) PROVE ~IsZero(p.buffer[after[k]])
  <2>1. k + d \in 1 .. Len(old) /\ k \in 0 .. Len(new) /\ 0 \in 0 .. Len(new) /\ Len(new) \in 0 .. Len(new)
    BY <1>7, <1>10
  <2>2. after[k] \in Nat /\ before[k + d] \in Nat /\ after[k] = before[k + d] - n
    BY <1>8, <1>10, <1>11, <2>1
  <2>3. n + after[k] = before[k + d]
    BY <1>2, <2>2
  <2>4. after[k] # 0
    BY <1>7, <1>8, <1>9, <2>1, <2>2
  <2>5. after[k] <= Len(p.buffer)
    <3>1. k < Len(new) \/ k = Len(new)
      BY <1>7
    <3> QED
      BY <1>2, <1>8, <1>9, <2>1, <2>2, <3>1
  <2>6. after[k] \in 1 .. Len(p.buffer)
    BY <1>2, <2>2, <2>4, <2>5
  <2> QED
    BY <1>5, <1>12, <2>1, <2>3, <2>6
<1> QED
  BY <1>6, <1>13 DEF Framed, p, new, after

(* What the first start code is in has the first range.                    *)
LEMMA FirstNalIsTimed ==
    ASSUME NEW S, NEW P, NEW time, NEW q \in QueueSet(S, P), Timed(q, time), q.mode \in Pictures,
           q.buffer # <<>>
    PROVE  /\ q.ranges # <<>>
           /\ \E s \in 1 .. Len(q.buffer) :
                 /\ q.buffer[s].start /\ \A k \in 1 .. s - 1 : IsZero(q.buffer[k])
                 /\ q.buffer[s].id # 0 => q.ranges[1].pts = time[q.buffer[s].id]
<1> DEFINE end == RangeEnds(q.ranges)
           L == Len(q.ranges)
<1>1. q.ranges \in Seq(RangeSet(P)) /\ Len(q.buffer) \in Nat /\ q.buffer \in Seq(S)
  BY QueueFields
<1>2. L \in Nat /\ \A k \in 1 .. L : q.ranges[k].length \in Nat \ {0}
  BY <1>1, LengthsAre
<1>3. /\ end \in [0 .. L -> Nat] /\ end[0] = 0
      /\ \A k \in 1 .. L : end[k] = end[k - 1] + q.ranges[k].length
  BY <1>1, EndsAre
<1>4. /\ end[L] = Len(q.buffer)
      /\ \A k \in 1 .. L : \A i \in end[k - 1] + 1 .. end[k] :
            q.buffer[i].id # 0 => q.ranges[k].pts = time[q.buffer[i].id]
  BY DEF Timed, InStep
<1>5. \A k \in 1 .. L : ~IsZero(q.buffer[end[k]])
  BY DEF Timed, Framed
<1>6. PICK s \in 1 .. Len(q.buffer) : q.buffer[s].start /\ \A k \in 1 .. s - 1 : IsZero(q.buffer[k])
  BY DEF Timed, Framed
<1> HIDE DEF end
<1>7. L # 0
  BY <1>1, <1>3, <1>4
<1>8. 1 \in 1 .. L /\ 1 - 1 = 0
  BY <1>2, <1>7
<1>9. end[1] = q.ranges[1].length /\ q.ranges[1].length \in Nat \ {0}
  <2>1. end[1] = end[0] + q.ranges[1].length
    BY <1>3, <1>8
  <2> QED
    BY <1>2, <1>3, <1>8, <2>1
<1>10. ~(end[1] < s)
  BY <1>5, <1>6, <1>8, <1>9
<1>11. s \in end[1 - 1] + 1 .. end[1]
  BY <1>3, <1>8, <1>9, <1>10
<1>12. q.buffer[s].id # 0 => q.ranges[1].pts = time[q.buffer[s].id]
  BY <1>4, <1>8, <1>11
<1>13. q.ranges # <<>>
  BY <1>7
<1> QED
  BY <1>6, <1>12, <1>13

LEMMA SubSeqIs ==
    ASSUME NEW S, NEW s \in Seq(S), NEW n \in 0 .. Len(s)
    PROVE  /\ SubSeq(s, 1, n) \in Seq(S) /\ Len(SubSeq(s, 1, n)) = n
           /\ \A k \in 1 .. n : SubSeq(s, 1, n)[k] = s[k]
<1> DEFINE b == SubSeq(s, 1, n)
<1>1. Len(s) \in Nat /\ \A k \in 1 .. n : s[k] \in S
  BY ElementOfSeq
<1>2. /\ b \in Seq(S) /\ Len(b) = IF 1 <= n THEN n - 1 + 1 ELSE 0
      /\ \A k \in 1 .. n - 1 + 1 : b[k] = s[1 + k - 1]
  BY <1>1, SubSeqProperties
<1>3. n - 1 + 1 = n /\ (~(1 <= n) => n = 0) /\ \A k \in 1 .. n : 1 + k - 1 = k
  BY <1>1
<1> HIDE DEF b
<1>4. Len(b) = n /\ \A k \in 1 .. n : b[k] = s[k]
  BY <1>2, <1>3
<1> QED
  BY <1>2, <1>4 DEF b

LEMMA PictureIsDequeued ==
    ASSUME NEW S, NEW P, NEW time, NEW q \in QueueSet(S, P), q.mode \in Pictures,
           NEW slices, NEW separators
    PROVE  Dequeues(S, P, time, q, UntilNewPicture(q, slices, separators))
<1> DEFINE code(i) == q.buffer[i].code
           flushes == {i \in Nals(q.buffer) :
                           /\ \E j \in Nals(q.buffer) : j < i /\ code(j) \in slices
                           /\ IF code(i) \in slices THEN q.buffer[i].new ELSE code(i) \in separators}
           first == Min(flushes)
           used == {k \in 1 .. first - 1 : ~IsZero(q.buffer[k])}
           n == Max(used)
           r == TakeNals(q, n)
           block == SubSeq(q.buffer, 1, n)
           cells == NalCells(block)
           pts == fetchTimestamp(q, n)
           d == Drop(q, n)
<1>1. Len(q.buffer) \in Nat /\ DOMAIN q.buffer = 1 .. Len(q.buffer) /\ q.buffer \in Seq(S)
      /\ q.ranges \in Seq(RangeSet(P))
  BY QueueFields
<1>2. \A i \in flushes :
          i \in 1 .. Len(q.buffer) /\ q.buffer[i].start
          /\ \E j \in 1 .. Len(q.buffer) : j < i /\ q.buffer[j].start
  BY <1>1 DEF Nals
<1>3. UntilNewPicture(q, slices, separators) = IF flushes = {} THEN Nothing(q) ELSE r
  BY DEF UntilNewPicture
<1> HIDE DEF flushes
<1>4. CASE flushes = {}
  <2>1. Cuts(S, P, time, q, Nothing(q))
    BY TrimsItself, TrimsNothing
  <2>2. Nothing(q).q = q /\ Nothing(q).unit = NoUnit /\ Nothing(q).unit.cells = <<>>
    BY DEF Nothing, NoUnit
  <2>3. <<>> \in Seq(S) /\ Picks(<<>>, Len(<<>>), <<>>)
    <3>1. <<>> \in Seq(S)
      OBVIOUS
    <3> QED
      BY <3>1, PicksAll
  <2>4. UnitTimely(NoUnit, time)
    BY DEF UnitTimely, NoUnit
  <2>5. Dequeues(S, P, time, q, Nothing(q))
    BY <2>1, <2>2, <2>3, <2>4 DEF Cuts, Dequeues
  <2> QED
    BY <1>3, <1>4, <2>5
<1>5. CASE flushes # {}
  <2>1. flushes \in SUBSET Nat
    BY <1>1, <1>2
  <2>2. first \in flushes
    BY <1>5, <2>1, MinIs
  <2>3. PICK j \in 1 .. Len(q.buffer) : j < first /\ q.buffer[j].start
    BY <1>2, <2>2
  <2>4. first \in 1 .. Len(q.buffer) /\ q.buffer[first].start
    BY <1>2, <2>2
  <2> HIDE DEF first
  <2>5. j \in used
    BY <1>1, <2>3, <2>4 DEF IsZero
  <2>6. n \in used /\ \A k \in used : k <= n
    <3>1. used \in SUBSET (0 .. Len(q.buffer))
      BY <1>1, <2>4
    <3> HIDE DEF used
    <3> QED
      BY <1>1, <2>5, <3>1, MaxIs
  <2>7. /\ n \in 1 .. first - 1 /\ n \in 1 .. Len(q.buffer) /\ j <= n
        /\ \A k \in n + 1 .. first - 1 : IsZero(q.buffer[k])
    <3>1. n \in 1 .. first - 1 /\ n \in 1 .. Len(q.buffer) /\ j <= n
      BY <1>1, <2>4, <2>5, <2>6
    <3>2. ASSUME NEW k \in n + 1 .. first - 1 PROVE IsZero(q.buffer[k])
      <4>1. k \in 1 .. first - 1 /\ ~(k <= n)
        BY <2>4, <3>1
      <4> QED
        BY <2>6, <4>1
    <3> QED
      BY <3>1, <3>2
  <2> HIDE DEF used, n
  <2>8. n \in 0 .. Len(q.buffer) /\ first \in n + 1 .. Len(q.buffer) /\ n \in Nat
    BY <1>1, <2>4, <2>7
  <2>9. /\ d \in QueueSet(S, P) /\ d.mode = q.mode /\ EndOf(q.buffer, n, d.buffer)
        /\ InStep(q, time) => InStep(d, time)
    BY <2>8, DropIs
  <2>10. block \in Seq(S) /\ Len(block) = n /\ \A k \in 1 .. n : block[k] = q.buffer[k]
    BY <1>1, <2>8, SubSeqIs
  <2>11. r.q = d /\ r.unit = [cells |-> cells, pts |-> pts]
    BY DEF TakeNals
  <2> HIDE DEF r, d, block
  <2>12. /\ cells \in Seq(S) /\ Picks(block, Len(block), cells)
         /\ \A s \in 1 .. Len(block) :
               block[s].start /\ (\A k \in 1 .. s - 1 : ~block[k].start) =>
                  cells # <<>> /\ cells[1] = block[s]
    BY <2>10, NalCellsAre
  <2> HIDE DEF cells
  <2>13. cells # <<>>
    <3> DEFINE starts == {k \in 1 .. n : block[k].start}
    <3>1. starts \in SUBSET Nat /\ j \in starts
      BY <1>1, <2>3, <2>7, <2>8, <2>10
    <3>2. Min(starts) \in starts /\ \A k \in starts : Min(starts) <= k
      BY <3>1, MinIs
    <3>3. \A k \in 1 .. Min(starts) - 1 : ~block[k].start
      <4>1. ASSUME NEW k \in 1 .. Min(starts) - 1 PROVE k \in 1 .. n /\ ~(Min(starts) <= k)
        BY <2>8, <3>2
      <4> QED
        BY <3>2, <4>1
    <3> QED
      BY <2>10, <2>12, <3>2, <3>3
  <2>14. Parts(q.buffer, 0, block, d.buffer)
    <3>1. Len(d.buffer) \in Nat /\ Len(q.buffer) = n + Len(d.buffer)
          /\ \A k \in 1 .. Len(d.buffer) : d.buffer[k] = q.buffer[n + k]
      BY <2>9, QueueFields DEF EndOf
    <3>2. 0 + Len(block) = n /\ \A k \in 1 .. n : 0 + k = k
      BY <2>8, <2>10
    <3> QED
      BY <2>8, <2>10, <3>1, <3>2 DEF Parts
  <2>15. pts = IF q.ranges = <<>> THEN -1 ELSE q.ranges[1].pts
    BY DEF fetchTimestamp
  <2>16. pts \in P \cup {-1}
    <3>1. q.ranges # <<>> => 1 \in 1 .. Len(q.ranges)
      BY <1>1
    <3> QED
      BY <1>1, <2>15, <3>1, LengthsAre
  <2> HIDE DEF pts
  <2>17. r.unit \in UnitSet(S, P) /\ r.unit.cells = cells /\ r.unit.pts = pts
    BY <2>11, <2>12, <2>13, <2>16 DEF UnitSet
  <2>18. ASSUME Timed(q, time) PROVE Timed(d, time) /\ UnitTimely(r.unit, time)
    <3>1. Framed(d)
      BY <2>4, <2>7, <2>8, <2>18, DropFramed DEF d
    <3>2. PICK s \in 1 .. Len(q.buffer) :
              /\ q.buffer[s].start /\ \A k \in 1 .. s - 1 : IsZero(q.buffer[k])
              /\ q.buffer[s].id # 0 => q.ranges[1].pts = time[q.buffer[s].id]
      BY <1>1, <2>3, <2>18, FirstNalIsTimed
    <3>3. q.ranges # <<>>
      BY <1>1, <2>3, <2>18, FirstNalIsTimed
    <3>4. ~(j < s)
      <4>1. j < s => j \in 1 .. s - 1
        OBVIOUS
      <4> QED
        BY <2>3, <3>2, <4>1 DEF IsZero
    <3>5. s \in 1 .. n
      BY <1>1, <2>7, <2>8, <3>4
    <3>6. /\ block[s] = q.buffer[s] /\ block[s].start
          /\ \A k \in 1 .. s - 1 : ~block[k].start
      <4>1. \A k \in 1 .. s - 1 : k \in 1 .. n
        BY <2>8, <3>5
      <4> QED
        BY <2>10, <3>2, <3>5, <4>1 DEF IsZero
    <3>7. cells[1] = q.buffer[s]
      BY <2>10, <2>12, <3>5, <3>6
    <3>8. InStep(d, time)
      BY <2>9, <2>18 DEF Timed
    <3> QED
      BY <2>15, <2>17, <3>1, <3>2, <3>3, <3>7, <3>8 DEF Timed, UnitTimely
  <2>19. 0 \in Nat
    OBVIOUS
  <2>20. Dequeues(S, P, time, q, r)
    BY <2>9, <2>10, <2>11, <2>12, <2>14, <2>17, <2>18, <2>19 DEF Dequeues
  <2> QED
    BY <1>3, <1>5, <2>20
<1> QED
  BY <1>4, <1>5

(* Whatever the codec: a unit and what is left are of the end of what      *)
(* there was, and the unit has the timestamp of its first cell.            *)
LEMMA UnitIsDequeued ==
    ASSUME NEW S, CellsOK(S), NEW P, NEW time, NEW q \in QueueSet(S, P)
    PROVE  Dequeues(S, P, time, q, dequeueAccessUnit(q))
<1> DEFINE r == dequeueAccessUnit(q)
<1>1. q.mode \in Modes
  BY QueueFields
<1>2. CASE q.mode = "H264"
  BY <1>2, PictureIsDequeued DEF dequeueAccessUnit, dequeueAccessUnitH264, Pictures
<1>3. CASE q.mode = "H265"
  BY <1>3, PictureIsDequeued DEF dequeueAccessUnit, dequeueAccessUnitH265, Pictures
<1>4. CASE q.mode = "AAC"
  <2>1. Cuts(S, P, time, q, r)
    BY <1>4, AacIsDequeued DEF dequeueAccessUnit
  <2> QED
    BY <1>4, <2>1, OthersAreDequeued DEF Pictures
<1>5. CASE q.mode \in {"AC3", "EAC3"}
  <2>1. Cuts(S, P, time, q, r)
    BY <1>5, DolbyIsDequeued DEF dequeueAccessUnit
  <2> QED
    BY <1>5, <2>1, OthersAreDequeued DEF Pictures
<1>6. CASE q.mode = "MPEG_VIDEO"
  <2>1. Cuts(S, P, time, q, r)
    BY <1>6, MpegVideoIsDequeued DEF dequeueAccessUnit
  <2> QED
    BY <1>6, <2>1, OthersAreDequeued DEF Pictures
<1>7. CASE q.mode = "MPEG4_VIDEO"
  <2>1. Cuts(S, P, time, q, r)
    BY <1>7, Mpeg4VideoIsDequeued DEF dequeueAccessUnit
  <2> QED
    BY <1>7, <2>1, OthersAreDequeued DEF Pictures
<1>8. CASE q.mode = "MPEG_AUDIO"
  <2>1. Cuts(S, P, time, q, r)
    BY <1>8, MpegAudioIsDequeued DEF dequeueAccessUnit
  <2> QED
    BY <1>8, <2>1, OthersAreDequeued DEF Pictures
<1> QED
  BY <1>1, <1>2, <1>3, <1>4, <1>5, <1>6, <1>7, <1>8 DEF Modes

-----------------------------------------------------------------------------
(* EsQueue: the cells come out in the order they went in.                  *)

(* Cells without an id are those that were made up.                        *)
IdsOf(cells) == {cells[k].id : k \in DOMAIN cells} \ {0}
UnitIds(units) == UNION {IdsOf(units[i].cells) : i \in DOMAIN units}
Before(A, B) == \A a \in A, b \in B : a < b
Rising(cells) ==
    \A k, l \in DOMAIN cells :
        k < l /\ cells[k].id # 0 /\ cells[l].id # 0 => cells[k].id < cells[l].id
UnitsRise(units) ==
    \A i, j \in DOMAIN units :
        LET a == units[i].cells
            b == units[j].cells
        IN  \A k \in DOMAIN a, l \in DOMAIN b :
              (i < j \/ (i = j /\ k < l)) /\ a[k].id # 0 /\ b[l].id # 0 => a[k].id < b[l].id

LEMMA PartsRise ==
    ASSUME NEW S, NEW whole \in Seq(S), NEW unit \in Seq(S), NEW rest \in Seq(S), NEW t,
           Parts(whole, t, unit, rest)
    PROVE  /\ IdsOf(unit) \subseteq IdsOf(whole) /\ IdsOf(rest) \subseteq IdsOf(whole)
           /\ Rising(whole) =>
                 Rising(unit) /\ Rising(rest) /\ Before(IdsOf(unit), IdsOf(rest))
<1> DEFINE m == Len(unit)
           n == Len(rest)
           L == Len(whole)
<1>1. m \in Nat /\ n \in Nat /\ L \in Nat /\ t \in Nat /\ L = t + m + n
  BY LenProperties DEF Parts
<1>2. DOMAIN unit = 1 .. m /\ DOMAIN rest = 1 .. n /\ DOMAIN whole = 1 .. L
  OBVIOUS
<1>3. /\ \A k \in 1 .. m : unit[k] = whole[t + k]
      /\ \A k \in 1 .. n : rest[k] = whole[t + m + k]
  BY DEF Parts
<1> HIDE DEF m, n, L
<1>4. /\ \A k \in 1 .. m : t + k \in 1 .. L
      /\ \A k \in 1 .. n : t + m + k \in 1 .. L
      /\ \A k \in 1 .. m, l \in 1 .. n : t + k < t + m + l
      /\ \A k, l \in 1 .. m : k < l => t + k < t + l
      /\ \A k, l \in 1 .. n : k < l => t + m + k < t + m + l
  BY <1>1
<1>5. IdsOf(unit) \subseteq IdsOf(whole) /\ IdsOf(rest) \subseteq IdsOf(whole)
  BY <1>2, <1>3, <1>4 DEF IdsOf
<1>6. ASSUME Rising(whole) PROVE Rising(unit)
  BY <1>2, <1>3, <1>4, <1>6 DEF Rising
<1>7. ASSUME Rising(whole) PROVE Rising(rest)
  BY <1>2, <1>3, <1>4, <1>7 DEF Rising
<1>8. ASSUME Rising(whole), NEW a \in IdsOf(unit), NEW c \in IdsOf(rest) PROVE a < c
  <2>1. PICK k \in 1 .. m : a = unit[k].id /\ a # 0
    BY <1>2 DEF IdsOf
  <2>2. PICK l \in 1 .. n : c = rest[l].id /\ c # 0
    BY <1>2 DEF IdsOf
  <2>3. a = whole[t + k].id /\ c = whole[t + m + l].id
    BY <1>3, <2>1, <2>2
  <2>4. t + k \in DOMAIN whole /\ t + m + l \in DOMAIN whole /\ t + k < t + m + l
    BY <1>2, <1>4
  <2> QED
    BY <1>8, <2>1, <2>2, <2>3, <2>4 DEF Rising
<1> QED
  BY <1>5, <1>6, <1>7, <1>8 DEF Before

LEMMA JoinedIs ==
    ASSUME NEW S, NEW a \in Seq(S), NEW b \in Seq(S)
    PROVE  /\ a \o b \in Seq(S) /\ Len(a) \in Nat /\ Len(b) \in Nat /\ Len(a \o b) = Len(a) + Len(b)
           /\ DOMAIN (a \o b) = 1 .. Len(a) + Len(b)
           /\ DOMAIN a = 1 .. Len(a) /\ DOMAIN b = 1 .. Len(b)
           /\ \A k \in DOMAIN a : k \in DOMAIN (a \o b) /\ (a \o b)[k] = a[k]
           /\ \A k \in DOMAIN b : Len(a) + k \in DOMAIN (a \o b) /\ (a \o b)[Len(a) + k] = b[k]
           /\ \A k \in DOMAIN (a \o b) : k \in DOMAIN a \/ \E l \in DOMAIN b : k = Len(a) + l
<1>1. /\ a \o b \in Seq(S) /\ Len(a \o b) = Len(a) + Len(b)
      /\ \A i \in 1 .. Len(a) + Len(b) : (a \o b)[i] = IF i <= Len(a) THEN a[i] ELSE b[i - Len(a)]
  BY ConcatProperties
<1>2. /\ Len(a) \in Nat /\ Len(b) \in Nat /\ DOMAIN a = 1 .. Len(a) /\ DOMAIN b = 1 .. Len(b)
  OBVIOUS
<1>3. DOMAIN (a \o b) = 1 .. Len(a) + Len(b)
  BY <1>1
<1> DEFINE m == Len(a)
           n == Len(b)
           c == a \o b
<1>4. /\ m \in Nat /\ n \in Nat /\ DOMAIN a = 1 .. m /\ DOMAIN b = 1 .. n /\ DOMAIN c = 1 .. m + n
      /\ \A i \in 1 .. m + n : c[i] = IF i <= m THEN a[i] ELSE b[i - m]
  BY <1>1, <1>2, <1>3
<1> HIDE DEF m, n, c
<1>5. \A k \in 1 .. m : k \in 1 .. m + n /\ c[k] = a[k]
  BY <1>4
<1>6. ASSUME NEW k \in 1 .. n PROVE m + k \in 1 .. m + n /\ c[m + k] = b[k]
  <2>1. m + k \in 1 .. m + n /\ ~(m + k <= m) /\ (m + k) - m = k
    BY <1>4
  <2> QED
    BY <1>4, <2>1
<1>7. ASSUME NEW k \in 1 .. m + n, k \notin 1 .. m PROVE \E l \in 1 .. n : k = m + l
  <2>1. k - m \in 1 .. n /\ k = m + (k - m)
    BY <1>4, <1>7
  <2> QED
    BY <2>1
<1> QED
  BY <1>1, <1>4, <1>5, <1>6, <1>7 DEF m, n, c

LEMMA CellsJoin ==
    ASSUME NEW S, NEW a \in Seq(S), NEW b \in Seq(S)
    PROVE  /\ IdsOf(a \o b) = IdsOf(a) \cup IdsOf(b)
           /\ Rising(a) /\ Rising(b) /\ Before(IdsOf(a), IdsOf(b)) => Rising(a \o b)
<1> DEFINE c == a \o b
           m == Len(a)
<1>1. /\ m \in Nat /\ DOMAIN a = 1 .. m /\ \A l \in DOMAIN b : l \in Nat
      /\ \A k \in DOMAIN a : k \in DOMAIN c /\ c[k] = a[k]
      /\ \A k \in DOMAIN b : m + k \in DOMAIN c /\ c[m + k] = b[k]
      /\ \A k \in DOMAIN c : k \in DOMAIN a \/ \E l \in DOMAIN b : k = m + l
  BY JoinedIs
<1> HIDE DEF c, m
<1>2. IdsOf(c) = IdsOf(a) \cup IdsOf(b)
  <2>1. \A x : x \in IdsOf(c) => x \in IdsOf(a) \cup IdsOf(b)
    <3>1. SUFFICES ASSUME NEW x \in IdsOf(c) PROVE x \in IdsOf(a) \cup IdsOf(b)
      OBVIOUS
    <3>2. PICK k \in DOMAIN c : x = c[k].id /\ x # 0
      BY DEF IdsOf
    <3>3. CASE k \in DOMAIN a
      BY <1>1, <3>2, <3>3 DEF IdsOf
    <3>4. CASE \E l \in DOMAIN b : k = m + l
      BY <1>1, <3>2, <3>4 DEF IdsOf
    <3> QED
      BY <1>1, <3>3, <3>4
  <2>2. IdsOf(a) \subseteq IdsOf(c) /\ IdsOf(b) \subseteq IdsOf(c)
    BY <1>1 DEF IdsOf
  <2> QED
    BY <2>1, <2>2
<1>3. ASSUME Rising(a), Rising(b), Before(IdsOf(a), IdsOf(b)) PROVE Rising(c)
  <2>1. SUFFICES ASSUME NEW k \in DOMAIN c, NEW l \in DOMAIN c, k < l, c[k].id # 0, c[l].id # 0
                 PROVE  c[k].id < c[l].id
    BY DEF Rising
  <2>2. CASE k \in DOMAIN a /\ l \in DOMAIN a
    BY <1>1, <1>3, <2>1, <2>2 DEF Rising
  <2>3. ASSUME NEW j \in DOMAIN b, k \in DOMAIN a, l = m + j PROVE c[k].id < c[l].id
    <3>1. c[k].id \in IdsOf(a) /\ c[l].id \in IdsOf(b)
      BY <1>1, <2>1, <2>3 DEF IdsOf
    <3> QED
      BY <1>3, <3>1 DEF Before
  <2>4. ASSUME NEW i \in DOMAIN b, NEW j \in DOMAIN b, k = m + i, l = m + j PROVE c[k].id < c[l].id
    <3>1. i < j
      BY <1>1, <2>1, <2>4
    <3> QED
      BY <1>1, <1>3, <2>1, <2>4, <3>1 DEF Rising
  <2>5. ASSUME NEW i \in DOMAIN b, k = m + i, l \in DOMAIN a PROVE FALSE
    <3>1. i \in Nat /\ i >= 1 /\ l \in 1 .. m
      BY <1>1, <2>5, JoinedIs
    <3> QED
      BY <1>1, <2>1, <2>5, <3>1
  <2> QED
    BY <1>1, <2>2, <2>3, <2>4, <2>5
<1> QED
  BY <1>2, <1>3 DEF c

LEMMA UnitsJoin ==
    ASSUME NEW U, NEW a \in Seq(U), NEW b \in Seq(U)
    PROVE  /\ UnitIds(a \o b) = UnitIds(a) \cup UnitIds(b)
           /\ UnitsRise(a) /\ UnitsRise(b) /\ Before(UnitIds(a), UnitIds(b)) => UnitsRise(a \o b)
<1> DEFINE c == a \o b
           m == Len(a)
<1>1. /\ m \in Nat /\ DOMAIN a = 1 .. m /\ \A l \in DOMAIN b : l \in Nat /\ l >= 1
      /\ \A k \in DOMAIN a : k \in DOMAIN c /\ c[k] = a[k]
      /\ \A k \in DOMAIN b : m + k \in DOMAIN c /\ c[m + k] = b[k]
      /\ \A k \in DOMAIN c : k \in DOMAIN a \/ \E l \in DOMAIN b : k = m + l
  BY JoinedIs
<1> HIDE DEF c, m
<1>2. UnitIds(c) = UnitIds(a) \cup UnitIds(b)
  <2>1. \A x : x \in UnitIds(c) => x \in UnitIds(a) \cup UnitIds(b)
    <3>1. SUFFICES ASSUME NEW x \in UnitIds(c) PROVE x \in UnitIds(a) \cup UnitIds(b)
      OBVIOUS
    <3>2. PICK k \in DOMAIN c : x \in IdsOf(c[k].cells)
      BY DEF UnitIds
    <3>3. CASE k \in DOMAIN a
      BY <1>1, <3>2, <3>3 DEF UnitIds
    <3>4. CASE \E l \in DOMAIN b : k = m + l
      BY <1>1, <3>2, <3>4 DEF UnitIds
    <3> QED
      BY <1>1, <3>3, <3>4
  <2>2. \A x : x \in UnitIds(a) => x \in UnitIds(c)
    BY <1>1 DEF UnitIds
  <2>3. \A x : x \in UnitIds(b) => x \in UnitIds(c)
    BY <1>1 DEF UnitIds
  <2> QED
    BY <2>1, <2>2, <2>3
<1>3. ASSUME UnitsRise(a), UnitsRise(b), Before(UnitIds(a), UnitIds(b)) PROVE UnitsRise(c)
  <2>1. SUFFICES ASSUME NEW i \in DOMAIN c, NEW j \in DOMAIN c,
                        NEW k \in DOMAIN c[i].cells, NEW l \in DOMAIN c[j].cells,
                        i < j \/ (i = j /\ k < l), c[i].cells[k].id # 0, c[j].cells[l].id # 0
                 PROVE  c[i].cells[k].id < c[j].cells[l].id
    BY DEF UnitsRise
  <2>2. CASE i \in DOMAIN a /\ j \in DOMAIN a
    <3>1. c[i] = a[i] /\ c[j] = a[j]
      BY <1>1, <2>2
    <3> QED
      BY <1>3, <2>1, <2>2, <3>1 DEF UnitsRise
  <2>3. ASSUME NEW y \in DOMAIN b, i \in DOMAIN a, j = m + y
        PROVE  c[i].cells[k].id < c[j].cells[l].id
    <3>1. c[i] = a[i] /\ c[j] = b[y]
      BY <1>1, <2>3
    <3>2. c[i].cells[k].id \in UnitIds(a) /\ c[j].cells[l].id \in UnitIds(b)
      BY <2>1, <2>3, <3>1 DEF IdsOf, UnitIds
    <3> QED
      BY <1>3, <3>2 DEF Before
  <2>4. ASSUME NEW x \in DOMAIN b, NEW y \in DOMAIN b, i = m + x, j = m + y
        PROVE  c[i].cells[k].id < c[j].cells[l].id
    <3>1. c[i] = b[x] /\ c[j] = b[y]
      BY <1>1, <2>4
    <3>2. x < y \/ (x = y /\ k < l)
      BY <1>1, <2>1, <2>4
    <3> QED
      BY <1>3, <2>1, <3>1, <3>2 DEF UnitsRise
  <2>5. ASSUME NEW x \in DOMAIN b, i = m + x, j \in DOMAIN a PROVE FALSE
    BY <1>1, <2>1, <2>5
  <2> QED
    BY <1>1, <2>2, <2>3, <2>4, <2>5
<1> QED
  BY <1>2, <1>3 DEF c

LEMMA UnitsGrow ==
    ASSUME NEW U, NEW units \in Seq(U), NEW u \in U
    PROVE  /\ UnitIds(Append(units, u)) = UnitIds(units) \cup IdsOf(u.cells)
           /\ UnitsRise(units) /\ Rising(u.cells) /\ Before(UnitIds(units), IdsOf(u.cells)) =>
                UnitsRise(Append(units, u))
<1> DEFINE one == <<u>>
<1>1. one \in Seq(U) /\ DOMAIN one = {1} /\ one[1] = u
  OBVIOUS
<1>2. Append(units, u) = units \o one
  BY AppendIsConcat
<1> HIDE DEF one
<1>3. UnitIds(one) = IdsOf(u.cells)
  BY <1>1 DEF UnitIds
<1>4. Rising(u.cells) => UnitsRise(one)
  BY <1>1 DEF Rising, UnitsRise
<1> QED
  BY <1>1, <1>2, <1>3, <1>4, UnitsJoin

(* What the units taken out of q and what is left of it, p, are to it.     *)
Drawn(S, P, time, q, p, units) ==
    /\ p \in QueueSet(S, P) /\ p.mode = q.mode /\ units \in Seq(UnitSet(S, P))
    /\ UnitIds(units) \subseteq IdsOf(q.buffer) /\ IdsOf(p.buffer) \subseteq IdsOf(q.buffer)
    /\ Rising(q.buffer) =>
          UnitsRise(units) /\ Rising(p.buffer) /\ Before(UnitIds(units), IdsOf(p.buffer))
    /\ q.mode # "MPEG_AUDIO" /\ Timed(q, time) =>
          Timed(p, time) /\ \A i \in DOMAIN units : UnitTimely(units[i], time)

LEMMA NoneDrawn ==
    ASSUME NEW S, NEW P, NEW time, NEW q \in QueueSet(S, P)
    PROVE  Drawn(S, P, time, q, q, <<>>)
<1>1. <<>> \in Seq(UnitSet(S, P)) /\ DOMAIN <<>> = {}
  OBVIOUS
<1>2. UnitIds(<<>>) = {} /\ UnitsRise(<<>>)
  BY DEF UnitIds, UnitsRise
<1> QED
  BY <1>1, <1>2 DEF Drawn, Before

(* What is picked from cells that rise, rises.                             *)
LEMMA PicksRise ==
    ASSUME NEW S, NEW whole \in Seq(S), NEW part \in Seq(S), Picks(whole, Len(whole), part)
    PROVE  /\ IdsOf(part) \subseteq IdsOf(whole)
           /\ Rising(whole) => Rising(part)
<1>1. PICK f \in [1 .. Len(part) -> 1 .. Len(whole)] :
          /\ \A i, j \in 1 .. Len(part) : i < j => f[i] < f[j]
          /\ \A i \in 1 .. Len(part) : part[i] = whole[f[i]]
  BY DEF Picks
<1>2. DOMAIN part = 1 .. Len(part) /\ DOMAIN whole = 1 .. Len(whole)
  OBVIOUS
<1>3. \A i \in 1 .. Len(part) : f[i] \in 1 .. Len(whole)
  BY <1>1
<1>4. IdsOf(part) \subseteq IdsOf(whole)
  BY <1>1, <1>2, <1>3 DEF IdsOf
<1>5. ASSUME Rising(whole) PROVE Rising(part)
  BY <1>1, <1>2, <1>3, <1>5 DEF Rising
<1> QED
  BY <1>4, <1>5

LEMMA OneMoreDrawn ==
    ASSUME NEW S, NEW P, NEW time, NEW q \in QueueSet(S, P), NEW p, NEW units,
           Drawn(S, P, time, q, p, units), NEW r, Dequeues(S, P, time, p, r)
    PROVE  IF r.unit = NoUnit THEN Drawn(S, P, time, q, r.q, units)
           ELSE Drawn(S, P, time, q, r.q, Append(units, r.unit))
<1> DEFINE more == Append(units, r.unit)
           cells == r.unit.cells
           rest == r.q
<1>1. /\ p \in QueueSet(S, P) /\ p.mode = q.mode /\ units \in Seq(UnitSet(S, P))
      /\ UnitIds(units) \subseteq IdsOf(q.buffer) /\ IdsOf(p.buffer) \subseteq IdsOf(q.buffer)
  BY DEF Drawn
<1>2. /\ rest \in QueueSet(S, P) /\ rest.mode = q.mode /\ r.unit \in UnitSet(S, P) \cup {NoUnit}
      /\ \E t \in Nat, block \in Seq(S) :
            Parts(p.buffer, t, block, rest.buffer) /\ Picks(block, Len(block), cells)
  BY <1>1 DEF Dequeues
<1>3. p.buffer \in Seq(S) /\ rest.buffer \in Seq(S) /\ cells \in Seq(S)
  <2>1. r.unit \in UnitSet(S, P) => cells \in Seq(S)
    BY DEF UnitSet
  <2>2. r.unit = NoUnit => cells = <<>> /\ <<>> \in Seq(S)
    BY DEF NoUnit
  <2> QED
    BY <1>1, <1>2, <2>1, <2>2, QueueFields
<1>4. PICK t \in Nat, block \in Seq(S) :
          Parts(p.buffer, t, block, rest.buffer) /\ Picks(block, Len(block), cells)
  BY <1>2
<1>5. /\ IdsOf(cells) \subseteq IdsOf(p.buffer) /\ IdsOf(rest.buffer) \subseteq IdsOf(p.buffer)
      /\ Rising(p.buffer) =>
            Rising(cells) /\ Rising(rest.buffer) /\ Before(IdsOf(cells), IdsOf(rest.buffer))
  <2>1. /\ IdsOf(block) \subseteq IdsOf(p.buffer) /\ IdsOf(rest.buffer) \subseteq IdsOf(p.buffer)
        /\ Rising(p.buffer) =>
              Rising(block) /\ Rising(rest.buffer) /\ Before(IdsOf(block), IdsOf(rest.buffer))
    BY <1>3, <1>4, PartsRise
  <2>2. IdsOf(cells) \subseteq IdsOf(block) /\ (Rising(block) => Rising(cells))
    BY <1>3, <1>4, PicksRise
  <2> QED
    BY <2>1, <2>2 DEF Before
<1>6. /\ UnitIds(more) = UnitIds(units) \cup IdsOf(cells)
      /\ UnitsRise(units) /\ Rising(cells) /\ Before(UnitIds(units), IdsOf(cells)) => UnitsRise(more)
  <2>1. units \in Seq(UnitSet(S, P) \cup {NoUnit})
    BY <1>1
  <2> QED
    BY <1>2, <2>1, UnitsGrow
<1>7. r.unit # NoUnit => more \in Seq(UnitSet(S, P))
  BY <1>1, <1>2
<1>8. ASSUME Rising(q.buffer)
      PROVE  /\ UnitsRise(units) /\ UnitsRise(more) /\ Rising(rest.buffer)
             /\ Before(UnitIds(units), IdsOf(rest.buffer)) /\ Before(UnitIds(more), IdsOf(rest.buffer))
  <2>1. UnitsRise(units) /\ Rising(p.buffer) /\ Before(UnitIds(units), IdsOf(p.buffer))
    BY <1>8 DEF Drawn
  <2>2. Before(UnitIds(units), IdsOf(cells)) /\ Before(UnitIds(units), IdsOf(rest.buffer))
    BY <1>5, <2>1 DEF Before
  <2>3. Before(UnitIds(more), IdsOf(rest.buffer))
    BY <1>5, <1>6, <2>1, <2>2 DEF Before
  <2> QED
    BY <1>5, <1>6, <2>1, <2>2, <2>3
<1>9. ASSUME q.mode # "MPEG_AUDIO", Timed(q, time)
      PROVE  /\ Timed(rest, time) /\ \A i \in DOMAIN units : UnitTimely(units[i], time)
             /\ \A i \in DOMAIN more : UnitTimely(more[i], time)
  <2>1. Timed(p, time) /\ \A i \in DOMAIN units : UnitTimely(units[i], time)
    BY <1>9 DEF Drawn
  <2>2. Timed(rest, time) /\ UnitTimely(r.unit, time)
    BY <1>1, <1>9, <2>1 DEF Dequeues
  <2>3. ASSUME NEW i \in DOMAIN more PROVE UnitTimely(more[i], time)
    <3>1. (i \in DOMAIN units /\ more[i] = units[i]) \/ more[i] = r.unit
      BY <1>1, <1>2, <2>3
    <3> QED
      BY <2>1, <2>2, <3>1
  <2> QED
    BY <2>1, <2>2, <2>3
<1> HIDE DEF more, cells, rest
<1>10. r.unit # NoUnit => Drawn(S, P, time, q, rest, more)
  BY <1>1, <1>2, <1>5, <1>6, <1>7, <1>8, <1>9 DEF Drawn
<1>11. Drawn(S, P, time, q, rest, units)
  BY <1>1, <1>2, <1>5, <1>8, <1>9 DEF Drawn
<1> QED
  BY <1>10, <1>11 DEF more, rest

LEMMA AllIsDrawn ==
    ASSUME NEW S, CellsOK(S), NEW P, NEW time, NEW q \in QueueSet(S, P)
    PROVE  Drawn(S, P, time, q, DequeueAll(q).q, DequeueAll(q).units)
<1> DEFINE L == Len(q.buffer)
           X == {all \in [q : QueueSet(S, P), units : Seq(UnitSet(S, P)), over : BOOLEAN] :
                    Drawn(S, P, time, q, all.q, all.units)}
           b == [q |-> q, units |-> <<>>, over |-> FALSE]
           next(f, n) == IF n = 0 THEN b ELSE DequeueNext(f[n - 1])
           loop(f) == [n \in 0 .. L |-> next(f, n)]
           it == CHOOSE f : f = loop(f)
           step == [n \in 1 .. L |-> [x \in X |-> DequeueNext(x)]]
<1>1. L \in Nat
  BY QueueFields
<1>2. b \in X
  <2>1. b.q = q /\ b.units = <<>> /\ b \in [q : QueueSet(S, P), units : Seq(UnitSet(S, P)), over : BOOLEAN]
    OBVIOUS
  <2>2. Drawn(S, P, time, q, q, <<>>)
    BY NoneDrawn
  <2> HIDE DEF b
  <2> QED
    BY <2>1, <2>2
<1>3. DequeueAll(q) = [q |-> it[L].q, units |-> it[L].units]
  BY DEF DequeueAll
<1>4. ASSUME NEW x \in X PROVE DequeueNext(x) \in X
  <2>1. /\ x \in [q : QueueSet(S, P), units : Seq(UnitSet(S, P)), over : BOOLEAN]
        /\ Drawn(S, P, time, q, x.q, x.units) /\ x.q \in QueueSet(S, P)
    OBVIOUS
  <2> DEFINE r == dequeueAccessUnit(x.q)
  <2>2. Dequeues(S, P, time, x.q, r)
    BY <2>1, UnitIsDequeued
  <2> HIDE DEF r
  <2>3. IF r.unit = NoUnit THEN Drawn(S, P, time, q, r.q, x.units)
        ELSE Drawn(S, P, time, q, r.q, Append(x.units, r.unit))
    BY <2>1, <2>2, OneMoreDrawn
  <2>4. DequeueNext(x) = IF x.over THEN x
                         ELSE IF r.unit = NoUnit THEN [x EXCEPT !.q = r.q, !.over = TRUE]
                         ELSE [x EXCEPT !.q = r.q, !.units = Append(@, r.unit)]
    BY DEF DequeueNext, Dequeued, r
  <2>5. CASE x.over
    BY <2>4, <2>5
  <2>6. CASE ~x.over /\ r.unit = NoUnit
    <3> DEFINE y == [x EXCEPT !.q = r.q, !.over = TRUE]
    <3>1. r.q \in QueueSet(S, P)
      BY <2>2 DEF Dequeues
    <3>2. /\ y \in [q : QueueSet(S, P), units : Seq(UnitSet(S, P)), over : BOOLEAN]
          /\ y.q = r.q /\ y.units = x.units
      BY <2>1, <3>1
    <3> HIDE DEF y
    <3>3. y \in X
      BY <2>3, <2>6, <3>2
    <3> QED
      BY <2>4, <2>6, <3>3 DEF y
  <2>7. CASE ~x.over /\ r.unit # NoUnit
    <3> DEFINE more == Append(x.units, r.unit)
               y == [x EXCEPT !.q = r.q, !.units = more]
    <3>1. r.q \in QueueSet(S, P) /\ r.unit \in UnitSet(S, P)
      BY <2>2, <2>7 DEF Dequeues
    <3>2. more \in Seq(UnitSet(S, P))
      BY <2>1, <3>1
    <3>3. DequeueNext(x) = y
      BY <2>4, <2>7
    <3>4. Drawn(S, P, time, q, r.q, more)
      BY <2>3, <2>7
    <3> HIDE DEF more
    <3>5. /\ y \in [q : QueueSet(S, P), units : Seq(UnitSet(S, P)), over : BOOLEAN]
          /\ y.q = r.q /\ y.units = more
      BY <2>1, <3>1, <3>2
    <3> HIDE DEF y
    <3>6. y \in X
      BY <3>4, <3>5
    <3> QED
      BY <3>3, <3>6
  <2> QED
    BY <2>5, <2>6, <2>7
<1>5. \A x \in X : DequeueNext(x) \in X
  BY <1>4
<1>6. \A x \in X : Drawn(S, P, time, q, x.q, x.units)
  OBVIOUS
<1> HIDE DEF b, L, X
<1>7. step \in [1 .. L -> [X -> X]]
  BY <1>5
<1>8. PICK f : IsLoop(f, L, X, b, step)
  <2> HIDE DEF step
  <2> QED
    BY <1>1, <1>2, <1>7, LoopExists
<1>9. f = loop(f)
  <2>1. f \in [0 .. L -> X] /\ f[0] = b /\ \A n \in 1 .. L : f[n] = step[n][f[n - 1]]
    BY <1>8 DEF IsLoop
  <2>2. ASSUME NEW n \in 1 .. L PROVE f[n] = DequeueNext(f[n - 1])
    <3>1. f[n - 1] \in X
      BY <1>1, <2>1
    <3> QED
      BY <2>1, <3>1
  <2>3. \A n \in 0 .. L : f[n] = next(f, n)
    BY <1>1, <2>1, <2>2
  <2> QED
    BY <2>1, <2>3
<1>10. it = loop(it)
  <2> HIDE DEF loop
  <2> QED
    BY <1>9
<1> HIDE DEF it
<1>11. it[0] = b /\ \A n \in 1 .. L : it[n] = DequeueNext(it[n - 1])
  BY <1>1, <1>10
<1> DEFINE T == {n \in 0 .. L : it[n] \in X}
<1>12. 0 \in T /\ \A n \in 1 .. L : n - 1 \in T => n \in T
  BY <1>1, <1>2, <1>5, <1>11
<1>13. \A n \in 0 .. L : n \in T
  <2> HIDE DEF T
  <2> QED
    BY <1>1, <1>12, InductionToLength
<1>14. it[L] \in X
  BY <1>1, <1>13
<1> QED
  BY <1>3, <1>6, <1>14

LEMMA EndsAppended ==
    ASSUME NEW P, NEW ranges \in Seq(RangeSet(P)), NEW last \in RangeSet(P)
    PROVE  LET old == RangeEnds(ranges)
               new == RangeEnds(Append(ranges, last))
           IN  /\ \A k \in 0 .. Len(ranges) : new[k] = old[k]
               /\ new[Len(ranges) + 1] = old[Len(ranges)] + last.length
<1> DEFINE L == Len(ranges)
           more == Append(ranges, last)
           old == RangeEnds(ranges)
           new == RangeEnds(more)
           T == {k \in 0 .. L : new[k] = old[k]}
<1>1. /\ more \in Seq(RangeSet(P)) /\ Len(more) = L + 1 /\ L \in Nat
      /\ \A k \in 1 .. L : more[k] = ranges[k]
      /\ more[L + 1] = last
  BY AppendProperties
<1>2. old[0] = 0 /\ \A k \in 1 .. L : old[k] = old[k - 1] + ranges[k].length
  BY EndsAre
<1> HIDE DEF more
<1>3. new[0] = 0 /\ \A k \in 1 .. L + 1 : new[k] = new[k - 1] + more[k].length
  <2>1. new[0] = 0 /\ \A k \in 1 .. Len(more) : new[k] = new[k - 1] + more[k].length
    BY <1>1, EndsAre
  <2> HIDE DEF new
  <2> QED
    BY <1>1, <2>1
<1> HIDE DEF old, new
<1>4. 0 \in T /\ \A k \in 1 .. L : k - 1 \in T => k \in T
  BY <1>1, <1>2, <1>3
<1>5. \A k \in 0 .. L : k \in T
  <2> HIDE DEF T
  <2> QED
    BY <1>1, <1>4, InductionToLength
<1>6. new[L + 1] = old[L] + last.length
  <2>1. L + 1 \in 1 .. L + 1 /\ (L + 1) - 1 = L /\ L \in T
    BY <1>1, <1>5
  <2> QED
    BY <1>1, <1>3, <2>1
<1> QED
  BY <1>5, <1>6 DEF old, new, more

(* The cells of data are in the PES packet with the timestamp pts.         *)
DataTimed(data, pts, time) == \A k \in DOMAIN data : data[k].id # 0 => pts = time[data[k].id]

(* A payload of pictures does not end in zero bytes.                       *)
DataFits(mode, data) == mode \in Pictures => ~IsZero(data[Len(data)])

LEMMA AppendedIs ==
    ASSUME NEW S, NEW P, NEW time, NEW q \in QueueSet(S, P), NEW data, NEW pts \in P,
           NEW kept \in Seq(S), kept # <<>>
    PROVE  LET a == Appended(q, data, kept, pts) IN
           /\ a \in QueueSet(S, P) /\ a.mode = q.mode /\ a.buffer = q.buffer \o kept
           /\ /\ Timed(q, time) /\ DataTimed(kept, pts, time) /\ DataFits(q.mode, kept)
              /\ q.mode \in Pictures /\ q.buffer = <<>> => kept[1].start
              => Timed(a, time)
<1> DEFINE a == Appended(q, data, kept, pts)
           last == [pts |-> pts, length |-> Len(kept)]
           L == Len(q.ranges)
           old == RangeEnds(q.ranges)
           new == RangeEnds(a.ranges)
           m == Len(q.buffer)
           n == Len(kept)
<1>1. /\ q.buffer \in Seq(S) /\ q.ranges \in Seq(RangeSet(P)) /\ q.mode \in Modes
      /\ q.format \in BOOLEAN /\ m \in Nat
  BY QueueFields
<1>2. n \in Nat \ {0}
  OBVIOUS
<1>3. last \in RangeSet(P)
  BY <1>2 DEF RangeSet
<1>4. /\ Append(q.ranges, last) \in Seq(RangeSet(P)) /\ Len(Append(q.ranges, last)) = L + 1
      /\ L \in Nat /\ Append(q.ranges, last)[L + 1] = last
      /\ \A k \in 1 .. L : Append(q.ranges, last)[k] = q.ranges[k]
  <2> HIDE DEF last
  <2> QED
    BY <1>1, <1>3, AppendProperties
<1>5. a = [mode |-> q.mode, buffer |-> q.buffer \o kept, ranges |-> Append(q.ranges, last),
           format |-> q.format]
  <2> DEFINE x == q.buffer \o kept
             y == Append(q.ranges, last)
  <2>1. a = [q EXCEPT !.buffer = x, !.ranges = y]
    BY DEF Appended
  <2> HIDE DEF x, y, a
  <2>2. a = [mode |-> q.mode, buffer |-> x, ranges |-> y, format |-> q.format]
    BY <2>1 DEF QueueSet
  <2> QED
    BY <2>2 DEF x, y
<1> HIDE DEF a, last
<1>6. /\ q.buffer \o kept \in Seq(S) /\ Len(q.buffer \o kept) = m + n
      /\ \A k \in DOMAIN q.buffer : (q.buffer \o kept)[k] = q.buffer[k]
      /\ \A k \in DOMAIN kept : (q.buffer \o kept)[m + k] = kept[k]
      /\ DOMAIN q.buffer = 1 .. m /\ DOMAIN kept = 1 .. n
  BY <1>1, JoinedIs
<1>7. /\ a \in QueueSet(S, P) /\ a.mode = q.mode /\ a.buffer = q.buffer \o kept
      /\ a.ranges = Append(q.ranges, last)
  BY <1>1, <1>4, <1>5, <1>6 DEF QueueSet
<1>8. ASSUME Timed(q, time), DataTimed(kept, pts, time), DataFits(q.mode, kept),
             q.mode \in Pictures /\ q.buffer = <<>> => kept[1].start
      PROVE  Timed(a, time)
  <2>1. /\ old[L] = m
        /\ \A k \in 1 .. L : \A i \in old[k - 1] + 1 .. old[k] :
              q.buffer[i].id # 0 => q.ranges[k].pts = time[q.buffer[i].id]
    BY <1>8 DEF Timed, InStep
  <2>2. old \in [0 .. L -> Nat]
    BY <1>1, EndsAre
  <2>3. \A k \in 0 .. L : new[k] = old[k]
    BY <1>1, <1>3, <1>7, EndsAppended
  <2>4. new[L + 1] = old[L] + last.length
    BY <1>1, <1>3, <1>7, EndsAppended
  <2>5. \A k \in 1 .. L : old[k] \in 1 .. m
    <3>1. (\A k \in 0 .. L : k < L => old[k] < old[L]) /\ \A k \in 1 .. L : old[0] < old[k]
      <4>1. \A i \in 0 .. L : \A k \in 0 .. L : i < k => old[i] < old[k]
        BY <1>1, EndsGrow
      <4>2. L \in 0 .. L /\ 0 \in 0 .. L /\ \A k \in 1 .. L : k \in 0 .. L /\ 0 < k
        BY <1>4
      <4> HIDE DEF old, L
      <4> QED
        BY <4>1, <4>2
    <3>2. old[0] = 0
      BY <1>1, EndsAre
    <3> HIDE DEF old, L, m
    <3>3. ASSUME NEW k \in 1 .. L PROVE old[k] \in 1 .. m
      <4>1. k \in 0 .. L /\ L \in 0 .. L /\ (k < L \/ k = L)
        BY <1>4
      <4>2. old[k] \in Nat /\ old[L] \in Nat
        BY <2>2, <4>1
      <4> QED
        BY <1>1, <2>1, <3>1, <3>2, <4>1, <4>2
    <3> QED
      BY <3>3
  <2> HIDE DEF old, new, m, n, L
  <2>6. new[Len(a.ranges)] = Len(a.buffer)
    <3>1. last.length = n
      BY DEF last, n
    <3> QED
      BY <1>4, <1>6, <1>7, <2>1, <2>4, <3>1
  <2>7. ASSUME NEW k \in 1 .. L + 1, NEW i \in new[k - 1] + 1 .. new[k], a.buffer[i].id # 0
        PROVE  a.ranges[k].pts = time[a.buffer[i].id]
    <3>1. CASE k \in 1 .. L
      <4>1. k - 1 \in 0 .. L /\ k \in 0 .. L
        BY <1>4, <3>1
      <4>2. i \in old[k - 1] + 1 .. old[k] /\ old[k - 1] \in Nat /\ old[k] \in Nat /\ old[k] <= m
        BY <1>1, <2>2, <2>3, <2>5, <2>7, <3>1, <4>1
      <4>3. i \in 1 .. m
        BY <1>1, <4>2
      <4>4. a.buffer[i] = q.buffer[i] /\ a.ranges[k] = q.ranges[k]
        BY <1>4, <1>6, <1>7, <3>1, <4>3
      <4> QED
        BY <2>1, <2>7, <3>1, <4>2, <4>4
    <3>2. CASE k = L + 1
      <4>1. (L + 1) - 1 = L /\ L \in 0 .. L
        BY <1>4
      <4>2. new[k - 1] = m /\ new[k] = m + n
        <5>1. last.length = n
          BY DEF last, n
        <5> QED
          BY <2>1, <2>3, <2>4, <3>2, <4>1, <5>1
      <4>3. i - m \in 1 .. n /\ m + (i - m) = i
        BY <1>1, <1>2, <2>7, <4>2
      <4>4. a.buffer[i] = kept[i - m] /\ a.ranges[k] = last
        BY <1>4, <1>6, <1>7, <3>2, <4>3
      <4>5. last.pts = pts
        BY DEF last
      <4> QED
        BY <1>6, <1>8, <2>7, <4>3, <4>4, <4>5 DEF DataTimed
    <3> QED
      BY <1>4, <3>1, <3>2
  <2>8. Len(a.ranges) = L + 1
    BY <1>4, <1>7
  <2>9. ASSUME q.mode \in Pictures
        PROVE  \E s \in 1 .. Len(a.buffer) :
                  a.buffer[s].start /\ \A k \in 1 .. s - 1 : IsZero(a.buffer[k])
    <3>1. CASE q.buffer = <<>>
      <4>1. m = 0 /\ 1 \in 1 .. n /\ 1 \in 1 .. m + n /\ m + 1 = 1
        BY <1>2, <3>1 DEF m, n
      <4>2. a.buffer[1] = kept[1]
        BY <1>6, <1>7, <4>1
      <4>3. \A k \in 1 .. 1 - 1 : IsZero(a.buffer[k])
        OBVIOUS
      <4> QED
        BY <1>6, <1>7, <1>8, <2>9, <3>1, <4>1, <4>2, <4>3
    <3>2. CASE q.buffer # <<>>
      <4>1. PICK s \in 1 .. m : q.buffer[s].start /\ \A k \in 1 .. s - 1 : IsZero(q.buffer[k])
        BY <1>8, <2>9, <3>2 DEF Timed, Framed, m
      <4>2. s \in 1 .. m + n /\ \A k \in 1 .. s - 1 : k \in 1 .. m
        BY <1>1, <1>2
      <4> QED
        BY <1>6, <1>7, <4>1, <4>2
    <3> QED
      BY <3>1, <3>2
  <2>10. ASSUME q.mode \in Pictures, NEW k \in 1 .. L + 1 PROVE ~IsZero(a.buffer[new[k]])
    <3>1. CASE k \in 1 .. L
      <4>1. k \in 0 .. L
        BY <1>4, <3>1
      <4>2. new[k] \in 1 .. m /\ new[k] = old[k]
        BY <2>3, <2>5, <3>1, <4>1
      <4>3. ~IsZero(q.buffer[old[k]])
        BY <1>8, <2>10, <3>1 DEF Timed, Framed, old, L
      <4>4. \A j \in 1 .. m : a.buffer[j] = q.buffer[j]
        BY <1>6, <1>7
      <4>5. a.buffer[new[k]] = q.buffer[old[k]]
        BY <4>2, <4>4
      <4> QED
        BY <4>3, <4>5
    <3>2. CASE k = L + 1
      <4>1. new[k] = m + n /\ n \in 1 .. n
        <5>1. last.length = n
          BY DEF last, n
        <5> QED
          BY <1>2, <2>1, <2>4, <3>2, <5>1
      <4>2. ~IsZero(kept[n])
        BY <1>8, <2>10 DEF DataFits, n
      <4> QED
        BY <1>6, <1>7, <4>1, <4>2
    <3> QED
      BY <1>4, <3>1, <3>2
  <2>11. InStep(a, time)
    BY <2>6, <2>7, <2>8 DEF InStep, new
  <2>12. Framed(a)
    BY <1>7, <2>8, <2>9, <2>10 DEF Framed, new
  <2> QED
    BY <2>11, <2>12 DEF Timed
<1> QED
  BY <1>7, <1>8 DEF a

(* Data after what is in the queue: it is kept from where a unit may       *)
(* begin.                                                                  *)
DataKept(S, P, time, q, data, pts, a) ==
    /\ a \in QueueSet(S, P) /\ a.mode = q.mode
    /\ IdsOf(a.buffer) \subseteq IdsOf(q.buffer) \cup IdsOf(data)
    /\ Rising(q.buffer) /\ Rising(data) /\ Before(IdsOf(q.buffer), IdsOf(data)) => Rising(a.buffer)
    /\ Timed(q, time) /\ DataTimed(data, pts, time) /\ DataFits(q.mode, data) => Timed(a, time)

LEMMA EndIsAppended ==
    ASSUME NEW S, NEW P, NEW time, NEW q \in QueueSet(S, P), NEW pts \in P, NEW data,
           NEW kept \in Seq(S), kept # <<>>, IdsOf(kept) \subseteq IdsOf(data),
           Rising(data) => Rising(kept), DataTimed(data, pts, time) => DataTimed(kept, pts, time),
           DataFits(q.mode, data) => DataFits(q.mode, kept),
           q.mode \in Pictures /\ q.buffer = <<>> => kept[1].start
    PROVE  DataKept(S, P, time, q, data, pts, Appended(q, data, kept, pts))
<1> DEFINE a == Appended(q, data, kept, pts)
<1>1. q.buffer \in Seq(S)
  BY QueueFields
<1>2. /\ a \in QueueSet(S, P) /\ a.mode = q.mode /\ a.buffer = q.buffer \o kept
      /\ /\ Timed(q, time) /\ DataTimed(kept, pts, time) /\ DataFits(q.mode, kept)
         /\ q.mode \in Pictures /\ q.buffer = <<>> => kept[1].start
         => Timed(a, time)
  BY AppendedIs
<1> HIDE DEF a
<1>3. /\ IdsOf(a.buffer) = IdsOf(q.buffer) \cup IdsOf(kept)
      /\ Rising(q.buffer) /\ Rising(kept) /\ Before(IdsOf(q.buffer), IdsOf(kept)) => Rising(a.buffer)
  BY <1>1, <1>2, CellsJoin
<1>4. Before(IdsOf(q.buffer), IdsOf(data)) => Before(IdsOf(q.buffer), IdsOf(kept))
  BY DEF Before
<1>5. DataKept(S, P, time, q, data, pts, a)
  BY <1>2, <1>3, <1>4 DEF DataKept
<1> QED
  BY <1>5 DEF a

LEMMA DataIsAppended ==
    ASSUME NEW S, NEW P, NEW time, NEW q \in QueueSet(S, P), NEW pts \in P,
           NEW data \in Seq(S), data # <<>>
    PROVE  DataKept(S, P, time, q, data, pts, appendData(q, data, pts))
<1> DEFINE begins == {i \in DOMAIN data : MayBegin(q.mode, data, i)}
           m == Min(begins)
           kept == From(data, m)
           t == m - 1
           L == Len(data)
           n == L - m + 1
<1>1. appendData(q, data, pts) =
          IF q.buffer # <<>> THEN Appended(q, data, data, pts)
          ELSE IF begins = {} THEN q ELSE Appended(q, data, kept, pts)
  BY DEF appendData
<1>2. CASE q.buffer # <<>>
  <2>1. appendData(q, data, pts) = Appended(q, data, data, pts)
    BY <1>1, <1>2
  <2>2. DataKept(S, P, time, q, data, pts, Appended(q, data, data, pts))
    BY <1>2, EndIsAppended
  <2> QED
    BY <2>1, <2>2
<1>3. CASE q.buffer = <<>> /\ begins = {}
  <2>1. appendData(q, data, pts) = q
    BY <1>1, <1>3
  <2>2. Rising(q.buffer)
    BY <1>3 DEF Rising
  <2>3. DataKept(S, P, time, q, data, pts, q)
    BY <2>2 DEF DataKept
  <2> QED
    BY <2>1, <2>3
<1>4. CASE q.buffer = <<>> /\ begins # {}
  <2>1. appendData(q, data, pts) = Appended(q, data, kept, pts)
    BY <1>1, <1>4
  <2>2. begins \in SUBSET Nat /\ (\A i \in begins : i \in 1 .. L) /\ L \in Nat
    OBVIOUS
  <2> HIDE DEF begins, L
  <2>3. m \in begins
    BY <1>4, <2>2, MinIs
  <2> HIDE DEF m
  <2>4. m \in 1 .. L /\ m \in 1 .. L + 1
    BY <2>2, <2>3
  <2>5. kept \in Seq(S) /\ Len(kept) = n /\ \A k \in 1 .. n : kept[k] = data[m + k - 1]
    BY <2>4, FromElements DEF L
  <2> HIDE DEF kept
  <2>6. Parts(data, t, <<>>, kept)
    <3>1. t \in Nat /\ L = t + 0 + Len(kept) /\ \A k \in 1 .. n : m + k - 1 = t + 0 + k
      BY <2>2, <2>4, <2>5
    <3>2. Len(<<>>) = 0
      OBVIOUS
    <3>3. \A k \in 1 .. Len(kept) : kept[k] = data[t + 0 + k]
      <4> HIDE DEF n, t
      <4> QED
        BY <2>5, <3>1
    <3>4. \A k \in 1 .. Len(<<>>) : <<>>[k] = data[t + k]
      OBVIOUS
    <3> HIDE DEF t
    <3> QED
      BY <3>1, <3>2, <3>3, <3>4 DEF Parts, L
  <2>7. IdsOf(kept) \subseteq IdsOf(data) /\ (Rising(data) => Rising(kept))
    <3>1. <<>> \in Seq(S)
      OBVIOUS
    <3> QED
      BY <2>5, <2>6, <3>1, PartsRise
  <2>8. ASSUME DataTimed(data, pts, time) PROVE DataTimed(kept, pts, time)
    <3>1. SUFFICES ASSUME NEW k \in DOMAIN kept, kept[k].id # 0 PROVE pts = time[kept[k].id]
      BY DEF DataTimed
    <3>2. kept[k].id \in IdsOf(data)
      BY <2>7, <3>1 DEF IdsOf
    <3>3. PICK j \in DOMAIN data : data[j].id = kept[k].id
      BY <3>2 DEF IdsOf
    <3> QED
      BY <2>8, <3>1, <3>3 DEF DataTimed
  <2>9. kept # <<>>
    <3>1. Len(kept) > 0
      BY <2>2, <2>4, <2>5
    <3> QED
      BY <3>1
  <2>10. DataFits(q.mode, data) => DataFits(q.mode, kept)
    <3>1. n \in 1 .. n /\ m + n - 1 = L
      BY <2>2, <2>4
    <3>2. kept[Len(kept)] = data[Len(data)]
      BY <2>5, <3>1 DEF L
    <3> QED
      BY <3>2 DEF DataFits
  <2>11. q.mode \in Pictures => kept[1].start
    <3>1. 1 \in 1 .. n /\ m + 1 - 1 = m
      BY <2>2, <2>4
    <3>2. kept[1] = data[m] /\ MayBegin(q.mode, data, m)
      BY <2>3, <2>5, <3>1 DEF begins
    <3> QED
      BY <3>2 DEF MayBegin, Pictures
  <2>12. DataKept(S, P, time, q, data, pts, Appended(q, data, kept, pts))
    BY <2>5, <2>7, <2>8, <2>9, <2>10, <2>11, EndIsAppended
  <2> QED
    BY <2>1, <2>12
<1> QED
  BY <1>2, <1>3, <1>4

(* What comes of a payload: the units, and the queue p that is left.       *)
PayloadCut(S, P, time, q, data, pts, p, units) ==
    /\ p \in QueueSet(S, P) /\ p.mode = q.mode /\ units \in Seq(UnitSet(S, P))
    /\ UnitIds(units) \subseteq IdsOf(q.buffer) \cup IdsOf(data)
    /\ IdsOf(p.buffer) \subseteq IdsOf(q.buffer) \cup IdsOf(data)
    /\ Rising(q.buffer) /\ Rising(data) /\ Before(IdsOf(q.buffer), IdsOf(data)) =>
          UnitsRise(units) /\ Rising(p.buffer) /\ Before(UnitIds(units), IdsOf(p.buffer))
    /\ /\ q.mode # "MPEG_AUDIO" /\ Timed(q, time)
       /\ DataTimed(data, pts, time) /\ DataFits(q.mode, data)
       => Timed(p, time) /\ \A i \in DOMAIN units : UnitTimely(units[i], time)

(* The access units of an elementary stream, for every codec and whatever  *)
(* the payloads are: none is empty, no cell of them is made up, and each   *)
(* is out before those behind it; what is kept back comes behind. But for  *)
(* MPEG audio, which throws bytes away and keeps their ranges, and for     *)
(* payloads of H.264 and H.265 that end in zero bytes, whose range stays   *)
(* behind with them, the ranges stay in step with the buffer, and a unit   *)
(* has the timestamp of the payload its first cell came in                 *)
(* (AmlESQueue::appendData, dequeueAccessUnit and fetchTimestamp).         *)
THEOREM UnitsAreCut ==
    ASSUME NEW S, CellsOK(S), NEW P, NEW time, NEW q \in QueueSet(S, P), NEW pts \in P,
           NEW data \in Seq(S), data # <<>>
    PROVE  LET r == onPayloadData(q, data, pts) IN
           PayloadCut(S, P, time, q, data, pts, r.q, r.units)
<1> DEFINE a == appendData(q, data, pts)
           r == onPayloadData(q, data, pts)
           all == DequeueAll(a)
<1>1. /\ a \in QueueSet(S, P) /\ a.mode = q.mode
      /\ IdsOf(a.buffer) \subseteq IdsOf(q.buffer) \cup IdsOf(data)
      /\ Rising(q.buffer) /\ Rising(data) /\ Before(IdsOf(q.buffer), IdsOf(data)) => Rising(a.buffer)
      /\ Timed(q, time) /\ DataTimed(data, pts, time) /\ DataFits(q.mode, data) => Timed(a, time)
  BY DataIsAppended DEF DataKept
<1>2. /\ r.q = IF a = q THEN q ELSE all.q
      /\ r.units = IF a = q THEN <<>> ELSE all.units
  BY DEF onPayloadData, DequeueIfNew
<1> HIDE DEF a, r
<1>3. Drawn(S, P, time, a, a, <<>>)
  BY <1>1, NoneDrawn
<1>4. Drawn(S, P, time, a, all.q, all.units)
  BY <1>1, AllIsDrawn
<1> HIDE DEF all
<1>5. Drawn(S, P, time, a, r.q, r.units)
  BY <1>2, <1>3, <1>4
<1>6. /\ r.q \in QueueSet(S, P) /\ r.q.mode = a.mode /\ r.units \in Seq(UnitSet(S, P))
      /\ UnitIds(r.units) \subseteq IdsOf(a.buffer) /\ IdsOf(r.q.buffer) \subseteq IdsOf(a.buffer)
      /\ Rising(a.buffer) =>
            UnitsRise(r.units) /\ Rising(r.q.buffer) /\ Before(UnitIds(r.units), IdsOf(r.q.buffer))
      /\ a.mode # "MPEG_AUDIO" /\ Timed(a, time) =>
            Timed(r.q, time) /\ \A i \in DOMAIN r.units : UnitTimely(r.units[i], time)
  BY <1>5 DEF Drawn
<1>7. PayloadCut(S, P, time, q, data, pts, r.q, r.units)
  BY <1>1, <1>6 DEF PayloadCut
<1> QED
  BY <1>7 DEF r

-----------------------------------------------------------------------------
(* SwDemux: the cells of a stream come in the order they were sent in.     *)

(* The cells of the first m units.                                         *)
UnitCell(u) == Packets[(u + 1) \div 2].cells[2 - (u % 2)]
IdsUpto(m) == {UnitCell(u).id : u \in 1 .. m}
Stamps == {c.pes.pts : c \in {d \in Cells : IsPes(d)}}

StreamOK(stream, mode) ==
    /\ DOMAIN stream = {"expected", "buffer", "started", "queue"}
    /\ stream.queue \in QueueSet(Cells, Stamps) /\ stream.queue.mode = mode
    /\ stream.buffer \in Seq(Cells) /\ (stream.buffer # <<>> => Len(stream.buffer) >= 2)

(* What a stream keeps is behind what came out of it, and all of it was in *)
(* the first m units.                                                      *)
StreamBehind(stream, out, m) ==
    /\ Rising(stream.queue.buffer) /\ Rising(stream.buffer)
    /\ Before(UnitIds(out), IdsOf(stream.queue.buffer))
    /\ Before(UnitIds(out), IdsOf(stream.buffer))
    /\ Before(IdsOf(stream.queue.buffer), IdsOf(stream.buffer))
    /\ IdsOf(stream.queue.buffer) \subseteq IdsUpto(m) /\ IdsOf(stream.buffer) \subseteq IdsUpto(m)

OutOK(out, m) ==
    /\ out \in Seq(UnitSet(Cells, Stamps)) /\ UnitsRise(out) /\ UnitIds(out) \subseteq IdsUpto(m)

(* A stream that waits for a packet, and what came out of it.              *)
Goes(stream, mode, out, m) == StreamOK(stream, mode) /\ StreamBehind(stream, out, m)

PidInOrder(p, out, pid, m) ==
    /\ pid \notin DOMAIN p.psi /\ OutOK(out, m)
    /\ pid \in DOMAIN p.streams => Goes(p.streams[pid], transport.codec[pid], out, m)

InOrder(p, got, m) == \A pid \in Pids : ~IsSection(pid) => PidInOrder(p, got[pid], pid, m)

(* Units that come after m and after those that wait.                      *)
Ascending(units) == \A k, l \in DOMAIN units : k < l => units[k] < units[l]
Within(units, m) == \A k \in DOMAIN units : m < units[k] /\ units[k] <= sent
Follows(units, m) ==
    /\ Ascending(units) /\ Within(units, m)
    /\ \A k \in DOMAIN units, l \in DOMAIN mRemainingBytesBuffer : mRemainingBytesBuffer[l] < units[k]

(* There is one feed at a time.                                            *)
FeedUnits(q) == {q[i].units : i \in {j \in DOMAIN q : q[j].what = "feed"}}
OnlyFeed(q) == \A i, j \in DOMAIN q : q[i].what = "feed" /\ q[j].what = "feed" => i = j
OneFeed ==
    /\ chunk # <<>> => feeder.at = "posting"
    /\ OnlyFeed(queue) /\ (FeedUnits(queue) # {} => feeder.at = "waiting")

(* All that was parsed was in the first m units, what is yet to be parsed  *)
(* is behind them.                                                         *)
ParsedUpto(m) ==
    /\ InOrder(parser, delivered, m)
    /\ Within(mRemainingBytesBuffer, m) /\ Follows(chunk, m)
    /\ \A units \in FeedUnits(queue) : Follows(units, m)

OrderInv == SectionsInv /\ OneFeed /\ \E m \in 0 .. sent : ParsedUpto(m)

LEMMA UnitCells ==
    ASSUME transport \in Transports, NEW u \in Units
    PROVE  /\ UnitCell(u) \in Cells /\ UnitCell(u).id \in Nat \ {0}
           /\ \A v \in Units : u < v => UnitCell(u).id < UnitCell(v).id
<1> DEFINE p(x) == (x + 1) \div 2
           j(x) == 2 - (x % 2)
<1>1. Len(Packets) \in Nat /\ DOMAIN Packets = 1 .. Len(Packets)
  BY UnitsOfPackets
<1>2. \A x \in Units : p(x) \in DOMAIN Packets /\ j(x) \in {1, 2}
  BY UnitsOfPackets
<1>3. \A i \in DOMAIN Packets :
          /\ \A k \in {1, 2} : Packets[i].cells[k].id \in Nat \ {0}
          /\ Packets[i].cells[1].id < Packets[i].cells[2].id
          /\ \A k \in 1 .. i - 1 : Packets[k].cells[2].id < Packets[i].cells[1].id
  BY TransportsAssumption DEF Packets
<1>4. UnitCell(u) = Packets[p(u)].cells[j(u)]
  BY DEF UnitCell
<1>5. ASSUME NEW v \in Units, u < v PROVE UnitCell(u).id < UnitCell(v).id
  <2>1. p(u) < p(v) \/ (p(u) = p(v) /\ j(u) = 1 /\ j(v) = 2)
    <3>1. u \in Nat /\ v \in Nat
      BY <1>1 DEF Units
    <3> QED
      BY <1>5, <3>1
  <2>2. UnitCell(v) = Packets[p(v)].cells[j(v)]
    BY DEF UnitCell
  <2>3. p(u) \in DOMAIN Packets /\ p(v) \in DOMAIN Packets /\ j(u) \in {1, 2} /\ j(v) \in {1, 2}
    BY <1>2
  <2> HIDE DEF p, j
  <2> DEFINE a1 == Packets[p(u)].cells[1].id
             a2 == Packets[p(u)].cells[2].id
             b1 == Packets[p(v)].cells[1].id
             b2 == Packets[p(v)].cells[2].id
  <2>4. a1 \in Nat /\ a2 \in Nat /\ b1 \in Nat /\ b2 \in Nat /\ a1 < a2 /\ b1 < b2
    BY <1>3, <2>3
  <2>5. p(u) < p(v) => a2 < b1
    <3>1. p(u) < p(v) => p(u) \in 1 .. p(v) - 1
      BY <1>1, <2>3
    <3> QED
      BY <1>3, <2>3, <3>1
  <2>6. UnitCell(u).id \in {a1, a2} /\ UnitCell(v).id \in {b1, b2}
    BY <1>4, <2>2, <2>3
  <2>7. p(u) = p(v) /\ j(u) = 1 /\ j(v) = 2 => UnitCell(u).id = a1 /\ UnitCell(v).id = b2 /\ a2 = b2
    BY <1>4, <2>2
  <2> HIDE DEF a1, a2, b1, b2
  <2> QED
    BY <2>1, <2>4, <2>5, <2>6, <2>7
<1>6. UnitCell(u) \in Cells /\ UnitCell(u).id \in Nat \ {0}
  <2>1. p(u) \in DOMAIN Packets /\ j(u) \in {1, 2}
    BY <1>2
  <2> HIDE DEF p, j
  <2> QED
    BY <1>3, <1>4, <2>1 DEF Cells
<1> QED
  BY <1>5, <1>6

LEMMA UptoGrows ==
    ASSUME NEW m \in Nat, NEW n \in Nat, m <= n PROVE IdsUpto(m) \subseteq IdsUpto(n)
<1>1. \A u \in 1 .. m : u \in 1 .. n
  OBVIOUS
<1> QED
  BY <1>1 DEF IdsUpto

LEMMA CellsAreOK ==
    ASSUME transport \in Transports
    PROVE  CellsOK(Cells) /\ \A c \in Cells : IsPes(c) => c.pes.length \in Nat
<1>1. \A i \in DOMAIN Packets : \A j \in {1, 2} :
          LET c == Packets[i].cells[j] IN
          (c.start => c.len \in Nat) /\ ("pes" \in DOMAIN c => c.pes.length \in Nat)
  BY TransportsAssumption DEF Packets
<1>2. ~Junk.start /\ "pes" \notin DOMAIN Junk
  BY DEF Junk
<1>3. ASSUME NEW c \in Cells
      PROVE  (c.start => c.len \in Nat) /\ (IsPes(c) => c.pes.length \in Nat)
  <2>1. CASE c = Junk
    BY <1>2, <2>1 DEF IsPes
  <2>2. CASE c # Junk
    <3>1. PICK i \in DOMAIN Packets, j \in {1, 2} : c = Packets[i].cells[j]
      BY <2>2 DEF Cells
    <3> QED
      BY <1>1, <3>1 DEF IsPes
  <2> QED
    BY <2>1, <2>2
<1> QED
  BY <1>3 DEF CellsOK

(* The payload of a packet is behind what was parsed before.               *)
LEMMA PayloadRises ==
    ASSUME transport \in Transports, NEW packet \in WholePackets, packet[1] < packet[2],
           NEW m \in Nat, m < packet[1]
    PROVE  /\ Rising(PayloadOf(packet)) /\ IdsOf(PayloadOf(packet)) \subseteq IdsUpto(packet[2])
           /\ Before(IdsUpto(m), IdsOf(PayloadOf(packet)))
<1>1. packet[1] \in Units /\ packet[2] \in Units /\ IsHead(packet[1])
  <2>1. packet \in Seq(Units) /\ Len(packet) = 2 /\ IsHead(packet[1])
    BY DEF WholePackets
  <2>2. 1 \in 1 .. Len(packet) /\ 2 \in 1 .. Len(packet)
    BY <2>1
  <2> QED
    BY <2>1, <2>2, ElementOfSeq, Zenon
<1> DEFINE u1 == packet[1]
           u2 == packet[2]
           c1 == CellOf(packet, 1)
           c2 == CellOf(packet, 2)
           data == PayloadOf(packet)
<1>2. Len(Packets) \in Nat /\ u1 \in Nat \ {0} /\ u2 \in Nat /\ u1 < u2 /\ u1 <= 2 * Len(Packets)
      /\ u2 <= 2 * Len(Packets)
  BY <1>1, UnitsOfPackets DEF Units
<1>3. c1 = UnitCell(u1) /\ c2 \in {Junk, UnitCell(u2)}
  BY DEF CellOf, UnitCell
<1>4. Junk.id = 0
  BY DEF Junk
<1>5. data = <<c1, c2>>
  BY DEF PayloadOf
<1> HIDE DEF c1, c2, data
<1>6. DOMAIN data = {1, 2} /\ data[1] = c1 /\ data[2] = c2
  BY <1>5
<1>7. UnitCell(u1).id < UnitCell(u2).id
  BY <1>1, <1>2, UnitCells
<1>8. Rising(data)
  <2>1. SUFFICES ASSUME NEW k \in {1, 2}, NEW l \in {1, 2}, k < l, data[k].id # 0, data[l].id # 0
                 PROVE  data[k].id < data[l].id
    BY <1>6 DEF Rising
  <2>2. k = 1 /\ l = 2
    BY <2>1
  <2> QED
    BY <1>3, <1>4, <1>6, <1>7, <2>1, <2>2
<1>9. IdsOf(data) \subseteq {UnitCell(u1).id, UnitCell(u2).id}
  BY <1>3, <1>4, <1>6 DEF IdsOf
<1>10. IdsOf(data) \subseteq IdsUpto(u2)
  <2>1. u1 \in 1 .. u2 /\ u2 \in 1 .. u2
    BY <1>2
  <2> HIDE DEF u1, u2
  <2> QED
    BY <1>9, <2>1 DEF IdsUpto
<1>11. ASSUME NEW a \in IdsUpto(m), NEW b \in IdsOf(data) PROVE a < b
  <2>1. PICK u \in 1 .. m : a = UnitCell(u).id
    BY DEF IdsUpto
  <2>2. u \in Units /\ u < u1 /\ u < u2
    BY <1>2 DEF Units
  <2>3. a < UnitCell(u1).id /\ a < UnitCell(u2).id
    BY <1>1, <2>1, <2>2, UnitCells
  <2> QED
    BY <1>9, <2>3
<1> QED
  BY <1>8, <1>10, <1>11 DEF Before, data

(* What is behind the header of a PES packet has its timestamp.            *)
PesTimed(cells, time) ==
    cells # <<>> /\ IsPes(cells[1]) =>
        \A k \in 2 .. Len(cells) : cells[k].id # 0 => cells[1].pes.pts = time[cells[k].id]

(* What comes of a stream whose PES packet is over.                        *)
Flushed(stream, time, r) ==
    LET ids == IdsOf(stream.queue.buffer) \cup IdsOf(stream.buffer) IN
    /\ r.q \in QueueSet(Cells, Stamps) /\ r.q.mode = stream.queue.mode
    /\ r.units \in Seq(UnitSet(Cells, Stamps))
    /\ UnitIds(r.units) \subseteq ids /\ IdsOf(r.q.buffer) \subseteq ids
    /\ /\ Rising(stream.queue.buffer) /\ Rising(stream.buffer)
       /\ Before(IdsOf(stream.queue.buffer), IdsOf(stream.buffer))
       => UnitsRise(r.units) /\ Rising(r.q.buffer) /\ Before(UnitIds(r.units), IdsOf(r.q.buffer))
    /\ /\ stream.queue.mode # "MPEG_AUDIO" /\ Timed(stream.queue, time) /\ PesTimed(stream.buffer, time)
       /\ stream.queue.mode \in Pictures => ~EndsInZeros(stream.buffer)
       => Timed(r.q, time) /\ \A i \in DOMAIN r.units : UnitTimely(r.units[i], time)

LEMMA NothingFlushed ==
    ASSUME NEW stream, NEW mode, StreamOK(stream, mode), NEW time
    PROVE  Flushed(stream, time, [q |-> stream.queue, units |-> <<>>])
<1> DEFINE r == [q |-> stream.queue, units |-> <<>>]
<1>1. r.q = stream.queue /\ r.units = <<>>
  OBVIOUS
<1>2. stream.queue \in QueueSet(Cells, Stamps)
  BY DEF StreamOK
<1>3. <<>> \in Seq(UnitSet(Cells, Stamps)) /\ DOMAIN <<>> = {} /\ UnitIds(<<>>) = {} /\ UnitsRise(<<>>)
  BY DEF UnitIds, UnitsRise
<1> HIDE DEF r
<1>4. Flushed(stream, time, r)
  BY <1>1, <1>2, <1>3 DEF Flushed, Before
<1> QED
  BY <1>4 DEF r

LEMMA PesIsParsed ==
    ASSUME transport \in Transports, NEW stream, NEW mode, StreamOK(stream, mode),
           stream.buffer # <<>>, NEW time
    PROVE  Flushed(stream, time, parsePES(stream))
<1> DEFINE b == stream.buffer
           q == stream.queue
           header == Head(b).pes
           data == Tail(b)
           payload == IF header.length = 0 THEN data ELSE SubSeq(data, 1, header.length)
           none == ~IsWhole(b) \/ header.padding
           r == parsePES(stream)
<1>1. /\ q \in QueueSet(Cells, Stamps) /\ b \in Seq(Cells) /\ b # <<>> /\ Len(b) >= 2
  BY DEF StreamOK
<1>2. r = IF none THEN [q |-> q, units |-> <<>>] ELSE onPayloadData(q, payload, header.pts)
  BY DEF parsePES, PesPayload
<1>3. CASE none
  BY <1>2, <1>3, NothingFlushed
<1>4. CASE ~none
  <2> DEFINE n == Len(data)
             k == IF header.length = 0 THEN n ELSE header.length
  <2>1. Head(b) = b[1] /\ b[1] \in Cells /\ IsPes(b[1]) /\ header = b[1].pes
    <3>1. 1 \in 1 .. Len(b) /\ Head(b) = b[1]
      BY <1>1
    <3>2. b[1] \in Cells
      BY <1>1, <3>1, ElementOfSeq
    <3> QED
      BY <1>4, <3>1, <3>2 DEF IsWhole
  <2>2. header.length \in Nat /\ header.pts \in Stamps
    BY <2>1, CellsAreOK DEF Stamps
  <2>3. /\ data \in Seq(Cells) /\ n = Len(b) - 1 /\ Len(b) \in Nat /\ n \in Nat
        /\ \A i \in 1 .. n : data[i] = b[i + 1]
    <3>1. data \in Seq(Cells) /\ Len(data) = Len(b) - 1 /\ \A i \in 1 .. Len(data) : data[i] = b[i + 1]
      BY <1>1, HeadTailProperties
    <3>2. Len(b) \in Nat /\ Len(data) \in Nat
      BY <1>1, <3>1
    <3> QED
      BY <3>1, <3>2
  <2>4. k \in 1 .. n
    <3>1. n >= header.length
      BY <1>4 DEF IsWhole
    <3> HIDE DEF header, n
    <3> QED
      BY <1>1, <2>2, <2>3, <3>1
  <2> HIDE DEF b, n
  <2>5. /\ payload \in Seq(Cells) /\ Len(payload) = k /\ \A i \in 1 .. k : payload[i] = b[i + 1]
    <3> HIDE DEF data
    <3>1. \A i \in 1 .. k : i \in 1 .. n
      BY <2>3, <2>4
    <3>2. CASE header.length = 0
      BY <2>3, <3>2 DEF n
    <3>3. CASE header.length # 0
      <4>1. payload = SubSeq(data, 1, k)
        BY <3>3
      <4> HIDE DEF k, payload
      <4>2. \A i \in 1 .. k : data[i] \in Cells
        BY <2>3, <3>1, ElementOfSeq DEF n
      <4>3. /\ payload \in Seq(Cells) /\ Len(payload) = IF 1 <= k THEN k - 1 + 1 ELSE 0
            /\ \A i \in 1 .. k - 1 + 1 : payload[i] = data[1 + i - 1]
        BY <2>3, <2>4, <4>1, <4>2, SubSeqProperties
      <4>4. 1 <= k /\ k - 1 + 1 = k /\ \A i \in 1 .. k : 1 + i - 1 = i
        BY <2>3, <2>4
      <4> QED
        BY <2>3, <3>1, <4>3, <4>4
    <3> QED
      BY <3>2, <3>3
  <2> HIDE DEF k, payload, data
  <2>6. DOMAIN payload = 1 .. k /\ payload # <<>> /\ DOMAIN b = 1 .. Len(b)
        /\ \A i \in 1 .. k : i + 1 \in DOMAIN b /\ i + 1 \in 2 .. Len(b)
    BY <1>1, <2>3, <2>4, <2>5
  <2>7. IdsOf(payload) \subseteq IdsOf(b)
    BY <2>5, <2>6 DEF IdsOf
  <2>8. ASSUME Rising(b) PROVE Rising(payload)
    <3>1. \A i, l \in 1 .. k : i < l => i + 1 < l + 1
      BY <2>3, <2>4
    <3> QED
      BY <2>5, <2>6, <2>8, <3>1 DEF Rising
  <2>9. PesTimed(b, time) => DataTimed(payload, header.pts, time)
    <3>1. b # <<>> /\ IsPes(b[1]) /\ header.pts = b[1].pes.pts
      BY <1>1, <2>1
    <3> QED
      BY <2>5, <2>6, <3>1 DEF PesTimed, DataTimed
  <2>10. CellsOK(Cells)
    BY CellsAreOK
  <2> HIDE DEF header
  <2>11. PayloadCut(Cells, Stamps, time, q, payload, header.pts, r.q, r.units)
    <3>1. LET x == onPayloadData(q, payload, header.pts) IN
          PayloadCut(Cells, Stamps, time, q, payload, header.pts, x.q, x.units)
      BY <1>1, <2>2, <2>5, <2>6, <2>10, UnitsAreCut
    <3> QED
      BY <1>2, <1>4, <3>1
  <2> HIDE DEF r, q, none
  <2>12. Before(IdsOf(q.buffer), IdsOf(b)) => Before(IdsOf(q.buffer), IdsOf(payload))
    BY <2>7 DEF Before
  <2>13. /\ r.q \in QueueSet(Cells, Stamps) /\ r.q.mode = q.mode
         /\ r.units \in Seq(UnitSet(Cells, Stamps))
         /\ UnitIds(r.units) \subseteq IdsOf(q.buffer) \cup IdsOf(b)
         /\ IdsOf(r.q.buffer) \subseteq IdsOf(q.buffer) \cup IdsOf(b)
    BY <2>7, <2>11 DEF PayloadCut
  <2>14. Rising(q.buffer) /\ Rising(b) /\ Before(IdsOf(q.buffer), IdsOf(b)) =>
            UnitsRise(r.units) /\ Rising(r.q.buffer) /\ Before(UnitIds(r.units), IdsOf(r.q.buffer))
    BY <2>8, <2>11, <2>12 DEF PayloadCut
  <2>15. ASSUME q.mode # "MPEG_AUDIO", Timed(q, time), PesTimed(b, time),
                q.mode \in Pictures => ~EndsInZeros(b)
         PROVE  Timed(r.q, time) /\ \A i \in DOMAIN r.units : UnitTimely(r.units[i], time)
    <3>1. EndsInZeros(b) \/ ~IsZero(Last(payload))
      BY <1>1, <1>4 DEF EndsInZeros, PesPayload, b, payload, header, data, none
    <3>2. DataFits(q.mode, payload)
      BY <2>15, <3>1 DEF DataFits, Last
    <3> QED
      BY <2>9, <2>11, <2>15, <3>2 DEF PayloadCut
  <2>16. Flushed(stream, time, r)
    BY <2>13, <2>14, <2>15 DEF Flushed, q, b
  <2> QED
    BY <2>16 DEF r
<1> QED
  BY <1>3, <1>4

(* What a packet makes of it, whether what came out is delivered or not.   *)
GoesOn(r, mode, out, m) ==
    /\ OutOK(out \o r.units, m)
    /\ Goes(r.stream, mode, out, m) /\ Goes(r.stream, mode, out \o r.units, m)

LEMMA UptoKept ==
    ASSUME NEW m \in Nat, NEW n \in Nat, m <= n, NEW out, OutOK(out, m)
    PROVE  /\ OutOK(out, n)
           /\ \A stream, mode : Goes(stream, mode, out, m) => Goes(stream, mode, out, n)
  BY UptoGrows DEF OutOK, Goes, StreamBehind

LEMMA NothingOut ==
    ASSUME NEW m, NEW out, OutOK(out, m)
    PROVE  out \o <<>> = out
  BY DEF OutOK

(* Nothing comes out, nothing but the data of a packet comes in.           *)
LEMMA Waits ==
    ASSUME NEW r, NEW mode, NEW out, NEW m \in Nat, NEW n \in Nat, m <= n, OutOK(out, m),
           r.units = <<>>, Goes(r.stream, mode, out, m)
    PROVE  GoesOn(r, mode, out, n)
  BY UptoKept, NothingOut DEF GoesOn

LEMMA GapLeaves ==
    ASSUME NEW old, NEW mode, NEW out, NEW m, Goes(old, mode, out, m), NEW header
    PROVE  Goes(Gap(old, header), mode, out, m)
<1> DEFINE r == [old EXCEPT !.started = FALSE, !.buffer = <<>>, !.expected = -1]
<1>1. DOMAIN old = {"expected", "buffer", "started", "queue"}
  BY DEF Goes, StreamOK
<1>2. DOMAIN r = DOMAIN old /\ r.buffer = <<>> /\ r.queue = old.queue
  BY <1>1
<1>3. Gap(old, header) \in {old, r}
  BY DEF Gap
<1> HIDE DEF r
<1>4. Rising(<<>>) /\ IdsOf(<<>>) = {} /\ <<>> \in Seq(Cells)
  BY DEF Rising, IdsOf
<1>5. Goes(r, mode, out, m)
  BY <1>1, <1>2, <1>4 DEF Goes, StreamOK, StreamBehind, Before
<1> QED
  BY <1>3, <1>5

(* A stream and the data of a packet that is behind all it has.            *)
LEMMA DataIsBehind ==
    ASSUME transport \in Transports, NEW packet \in WholePackets, packet[1] < packet[2],
           NEW m \in Nat, m < packet[1], NEW out, OutOK(out, m), NEW stream, NEW mode,
           Goes(stream, mode, out, m)
    PROVE  LET data == PayloadOf(packet) IN
           /\ data \in Seq(Cells) /\ Len(data) = 2 /\ data # <<>> /\ Rising(data)
           /\ packet[2] \in Nat /\ m <= packet[2]
           /\ IdsOf(data) \subseteq IdsUpto(packet[2])
           /\ Before(UnitIds(out), IdsOf(data))
           /\ Before(IdsOf(stream.queue.buffer), IdsOf(data))
           /\ Before(IdsOf(stream.buffer), IdsOf(data))
<1> DEFINE data == PayloadOf(packet)
<1>1. data \in Seq(Cells) /\ Len(data) = 2
  BY CellFacts
<1>2. Rising(data) /\ IdsOf(data) \subseteq IdsUpto(packet[2]) /\ Before(IdsUpto(m), IdsOf(data))
  BY PayloadRises
<1> HIDE DEF data
<1>3. data # <<>>
  <2>1. Len(data) = 2 /\ Len(<<>>) # 2
    BY <1>1
  <2> QED
    BY <2>1, Zenon
<1>4. packet[2] \in Nat /\ m <= packet[2]
  <2>1. packet \in Seq(Units) /\ Len(packet) = 2
    BY DEF WholePackets
  <2>2. packet[1] \in Units /\ packet[2] \in Units
    <3>1. 1 \in 1 .. Len(packet) /\ 2 \in 1 .. Len(packet)
      BY <2>1
    <3> QED
      BY <2>1, <3>1, ElementOfSeq, Zenon
  <2>3. packet[1] \in Nat /\ packet[2] \in Nat
    BY <2>2, UnitsOfPackets DEF Units
  <2> QED
    BY <2>3
<1>5. /\ UnitIds(out) \subseteq IdsUpto(m) /\ IdsOf(stream.queue.buffer) \subseteq IdsUpto(m)
      /\ IdsOf(stream.buffer) \subseteq IdsUpto(m)
  BY DEF OutOK, Goes, StreamBehind
<1>6. \A A : A \subseteq IdsUpto(m) => Before(A, IdsOf(data))
  BY <1>2 DEF Before
<1> QED
  BY <1>1, <1>2, <1>3, <1>4, <1>5, <1>6 DEF data

(* The data is put behind what the stream has.                             *)
LEMMA PayloadIsKept ==
    ASSUME transport \in Transports, NEW packet \in WholePackets, packet[1] < packet[2],
           NEW m \in Nat, m < packet[1], NEW out, OutOK(out, m), NEW stream, NEW mode,
           Goes(stream, mode, out, m), NEW next, DOMAIN next = DOMAIN stream,
           next.queue = stream.queue,
           next.buffer \in {PayloadOf(packet), stream.buffer \o PayloadOf(packet)}
    PROVE  Goes(next, mode, out, packet[2])
<1> DEFINE data == PayloadOf(packet)
           b == stream.buffer
<1>1. /\ data \in Seq(Cells) /\ Len(data) = 2 /\ data # <<>> /\ Rising(data)
      /\ packet[2] \in Nat /\ m <= packet[2]
      /\ IdsOf(data) \subseteq IdsUpto(packet[2])
      /\ Before(UnitIds(out), IdsOf(data))
      /\ Before(IdsOf(stream.queue.buffer), IdsOf(data))
      /\ Before(IdsOf(b), IdsOf(data))
  BY DataIsBehind
<1> HIDE DEF data
<1>2. b \in Seq(Cells) /\ Rising(b) /\ IdsOf(b) \subseteq IdsUpto(packet[2])
      /\ Before(UnitIds(out), IdsOf(b)) /\ Before(IdsOf(stream.queue.buffer), IdsOf(b))
  <2>1. Goes(stream, mode, out, packet[2])
    BY <1>1, UptoKept
  <2> QED
    BY <2>1 DEF Goes, StreamOK, StreamBehind
<1>3. IdsOf(stream.queue.buffer) \subseteq IdsUpto(packet[2])
  <2>1. Goes(stream, mode, out, packet[2])
    BY <1>1, UptoKept
  <2> QED
    BY <2>1 DEF Goes, StreamBehind
<1> HIDE DEF b
<1>4. /\ b \o data \in Seq(Cells) /\ Len(b \o data) >= 2
      /\ IdsOf(b \o data) = IdsOf(b) \cup IdsOf(data) /\ Rising(b \o data)
  <2>1. b \o data \in Seq(Cells) /\ Len(b) \in Nat /\ Len(b \o data) = Len(b) + Len(data)
    BY <1>1, <1>2, JoinedIs
  <2> QED
    BY <1>1, <1>2, <2>1, CellsJoin
<1>5. /\ next.buffer \in Seq(Cells) /\ Len(next.buffer) >= 2 /\ Rising(next.buffer)
      /\ IdsOf(next.buffer) \subseteq IdsOf(b) \cup IdsOf(data)
  <2> DEFINE nb == next.buffer
             joined == b \o data
  <2>1. nb = data \/ nb = joined
    BY DEF b, data
  <2>2. joined \in Seq(Cells) /\ Len(joined) >= 2
        /\ IdsOf(joined) = IdsOf(b) \cup IdsOf(data) /\ Rising(joined)
    BY <1>4
  <2> HIDE DEF nb, joined
  <2>3. Len(data) >= 2
    BY <1>1
  <2>4. nb \in Seq(Cells) /\ Len(nb) >= 2 /\ Rising(nb) /\ IdsOf(nb) \subseteq IdsOf(b) \cup IdsOf(data)
    <3>1. CASE nb = data
      BY <1>1, <2>3, <3>1
    <3>2. CASE nb = joined
      BY <2>2, <3>2
    <3> QED
      BY <2>1, <3>1, <3>2
  <2> QED
    BY <2>4 DEF nb
<1>6. /\ Before(UnitIds(out), IdsOf(next.buffer))
      /\ Before(IdsOf(stream.queue.buffer), IdsOf(next.buffer))
      /\ IdsOf(next.buffer) \subseteq IdsUpto(packet[2])
  BY <1>1, <1>2, <1>5 DEF Before
<1> QED
  BY <1>3, <1>5, <1>6 DEF Goes, StreamOK, StreamBehind

(* A PES packet is over, and the next one starts.                          *)
LEMMA PesFollows ==
    ASSUME transport \in Transports, NEW packet \in WholePackets, packet[1] < packet[2],
           NEW m \in Nat, m < packet[1], NEW out, OutOK(out, m), NEW stream, NEW mode,
           Goes(stream, mode, out, m), NEW flushed, NEW time, Flushed(stream, time, flushed),
           NEW r, DOMAIN r.stream = DOMAIN stream, r.stream.buffer = PayloadOf(packet),
           r.stream.queue = flushed.q, r.units = flushed.units
    PROVE  GoesOn(r, mode, out, packet[2])
<1> DEFINE data == PayloadOf(packet)
           qb == stream.queue.buffer
           b == stream.buffer
           u == r.units
           n == packet[2]
           nb == r.stream.queue.buffer
<1>1. /\ data \in Seq(Cells) /\ Len(data) = 2 /\ data # <<>> /\ Rising(data)
      /\ n \in Nat /\ m <= n
      /\ IdsOf(data) \subseteq IdsUpto(n)
      /\ Before(UnitIds(out), IdsOf(data)) /\ Before(IdsOf(qb), IdsOf(data))
      /\ Before(IdsOf(b), IdsOf(data))
  BY DataIsBehind
<1>2. /\ Rising(qb) /\ Rising(b) /\ Before(UnitIds(out), IdsOf(qb)) /\ Before(UnitIds(out), IdsOf(b))
      /\ Before(IdsOf(qb), IdsOf(b)) /\ IdsOf(qb) \subseteq IdsUpto(m) /\ IdsOf(b) \subseteq IdsUpto(m)
      /\ stream.queue.mode = mode /\ DOMAIN stream = {"expected", "buffer", "started", "queue"}
  BY DEF Goes, StreamOK, StreamBehind
<1>3. /\ r.stream.queue \in QueueSet(Cells, Stamps) /\ r.stream.queue.mode = mode
      /\ u \in Seq(UnitSet(Cells, Stamps))
      /\ UnitIds(u) \subseteq IdsOf(qb) \cup IdsOf(b) /\ IdsOf(nb) \subseteq IdsOf(qb) \cup IdsOf(b)
      /\ UnitsRise(u) /\ Rising(nb) /\ Before(UnitIds(u), IdsOf(nb))
  BY <1>2 DEF Flushed
<1>4. out \in Seq(UnitSet(Cells, Stamps)) /\ UnitsRise(out) /\ UnitIds(out) \subseteq IdsUpto(m)
  BY DEF OutOK
<1>5. IdsUpto(m) \subseteq IdsUpto(n)
  BY <1>1, UptoGrows
<1> HIDE DEF data, qb, b, u, n, nb
<1>6. Before(UnitIds(out), UnitIds(u)) /\ Before(UnitIds(out), IdsOf(nb))
      /\ Before(UnitIds(u), IdsOf(data)) /\ Before(IdsOf(nb), IdsOf(data))
  BY <1>1, <1>2, <1>3 DEF Before
<1>7. /\ out \o u \in Seq(UnitSet(Cells, Stamps)) /\ UnitsRise(out \o u)
      /\ UnitIds(out \o u) = UnitIds(out) \cup UnitIds(u)
  <2>1. out \o u \in Seq(UnitSet(Cells, Stamps))
    BY <1>3, <1>4
  <2> QED
    BY <1>3, <1>4, <1>6, <2>1, UnitsJoin
<1>8. OutOK(out \o u, n)
  BY <1>2, <1>3, <1>4, <1>5, <1>7 DEF OutOK
<1>9. StreamOK(r.stream, mode)
  BY <1>1, <1>2, <1>3 DEF StreamOK, data
<1>10. Before(UnitIds(out \o u), IdsOf(nb)) /\ Before(UnitIds(out \o u), IdsOf(data))
  BY <1>1, <1>3, <1>6, <1>7 DEF Before
<1>11. IdsOf(nb) \subseteq IdsUpto(n)
  BY <1>2, <1>3, <1>5
<1>12. r.stream.buffer = data
  BY DEF data
<1>13. StreamBehind(r.stream, out, n) /\ StreamBehind(r.stream, out \o u, n)
  BY <1>1, <1>3, <1>6, <1>10, <1>11, <1>12 DEF StreamBehind, nb
<1> QED
  BY <1>8, <1>9, <1>13 DEF GoesOn, Goes, u, n

(* A packet of a stream.                                                   *)
LEMMA StreamGoesOn ==
    ASSUME transport \in Transports, NEW packet \in WholePackets, packet[1] < packet[2],
           NEW m \in Nat, m < packet[1], NEW out, OutOK(out, m), NEW old, NEW mode,
           Goes(old, mode, out, m), NEW header
    PROVE  GoesOn(StreamParse(old, header, PayloadOf(packet)), mode, out, packet[2])
<1> DEFINE data == PayloadOf(packet)
           gapless == Gap(old, header)
           cc == (header.cc + 1) % 16
           stream == [gapless EXCEPT !.expected = cc]
           flushed == StreamFlush(stream)
           begun == [stream |-> [stream EXCEPT !.buffer = data, !.queue = flushed.q],
                     units |-> flushed.units]
           starts == [stream |-> [stream EXCEPT !.started = TRUE, !.buffer = data], units |-> <<>>]
           longer == [stream |-> [stream EXCEPT !.buffer = @ \o data], units |-> <<>>]
           waits == [stream |-> stream, units |-> <<>>]
           lost == [stream |-> gapless, units |-> <<>>]
           r == StreamParse(old, header, data)
<1>1. r \in {begun, starts, longer, waits, lost}
  BY DEF StreamParse, NextPes
<1>2. Goes(gapless, mode, out, m)
  BY GapLeaves
<1> HIDE DEF gapless, cc
<1>3. DOMAIN gapless = {"expected", "buffer", "started", "queue"}
  BY <1>2 DEF Goes, StreamOK
<1>4. DOMAIN stream = DOMAIN gapless /\ stream.buffer = gapless.buffer /\ stream.queue = gapless.queue
  BY <1>3
<1> HIDE DEF stream
<1>5. Goes(stream, mode, out, m)
  BY <1>2, <1>4 DEF Goes, StreamOK, StreamBehind
<1>6. packet[2] \in Nat /\ m <= packet[2]
  BY <1>5, DataIsBehind
<1>7. GoesOn(lost, mode, out, packet[2]) /\ GoesOn(waits, mode, out, packet[2])
  <2>1. lost.units = <<>> /\ lost.stream = gapless /\ waits.units = <<>> /\ waits.stream = stream
    OBVIOUS
  <2> HIDE DEF lost, waits
  <2> QED
    BY <1>2, <1>5, <1>6, <2>1, Waits
<1> DEFINE s1 == [stream EXCEPT !.started = TRUE, !.buffer = data]
           s2 == [stream EXCEPT !.buffer = @ \o data]
           s3 == [stream EXCEPT !.buffer = data, !.queue = flushed.q]
<1>8. /\ DOMAIN s1 = DOMAIN stream /\ s1.buffer = data /\ s1.queue = stream.queue
      /\ DOMAIN s2 = DOMAIN stream /\ s2.buffer = stream.buffer \o data /\ s2.queue = stream.queue
      /\ DOMAIN s3 = DOMAIN stream /\ s3.buffer = data /\ s3.queue = flushed.q
  <2> HIDE DEF data, flushed
  <2> QED
    BY <1>3, <1>4
<1>9. starts.stream = s1 /\ starts.units = <<>> /\ longer.stream = s2 /\ longer.units = <<>>
      /\ begun.stream = s3 /\ begun.units = flushed.units
  OBVIOUS
<1> HIDE DEF s1, s2, s3, starts, longer, begun, flushed, waits, lost, r
<1>10. Goes(s1, mode, out, packet[2]) /\ Goes(s2, mode, out, packet[2])
  BY <1>5, <1>8, PayloadIsKept
<1>11. OutOK(out, packet[2])
  BY <1>6, UptoKept
<1>12. GoesOn(starts, mode, out, packet[2]) /\ GoesOn(longer, mode, out, packet[2])
  <2>1. packet[2] <= packet[2]
    BY <1>6
  <2> QED
    BY <1>6, <1>9, <1>10, <1>11, <2>1, Waits
<1>13. Flushed(stream, <<>>, flushed)
  <2>1. StreamOK(stream, mode)
    BY <1>5 DEF Goes
  <2>2. CASE stream.buffer = <<>>
    BY <2>1, <2>2, NothingFlushed DEF flushed, StreamFlush
  <2>3. CASE stream.buffer # <<>>
    BY <2>1, <2>3, PesIsParsed DEF flushed, StreamFlush
  <2> QED
    BY <2>2, <2>3
<1>14. GoesOn(begun, mode, out, packet[2])
  BY <1>5, <1>8, <1>9, <1>13, PesFollows
<1>15. GoesOn(r, mode, out, packet[2])
  BY <1>1, <1>7, <1>12, <1>14
<1> QED
  BY <1>15 DEF r

(* What can be read as a PAT names no pid of an elementary stream.         *)
LEMMA PatNames ==
    ASSUME transport \in Transports, 0 \in Pids, NEW cells \in Seq(Cells),
           NEW p, DOMAIN p = {"psi", "streams", "programMapPID"}
    PROVE  LET r == parseProgramAssociationTable(p, cells) IN
           /\ r.streams = p.streams
           /\ \A s \in Pids : ~IsSection(s) /\ s \in DOMAIN r.psi => s \in DOMAIN p.psi
<1> DEFINE naming == {i \in DOMAIN cells : cells[i].start /\ cells[i].programs # <<>>}
           named == UNION {Range(cells[i].programs) : i \in naming}
           last == Last(cells[Max(naming)].programs)
           r == [p EXCEPT !.programMapPID = last, !.psi = Entered(@, named, NewSection)]
           carried == {pid \in DOMAIN transport.codec : transport.codec[pid] = "PSI"}
<1>1. parseProgramAssociationTable(p, cells) = IF naming = {} THEN p ELSE r
  BY DEF parseProgramAssociationTable
<1>2. 0 \in carried
  BY TablesAssumption DEF Pids
<1>3. \A i \in DOMAIN Packets, j \in {1, 2} : Packets[i].cells[j].start =>
          Range(Packets[i].cells[j].programs) \cap Pids \subseteq carried
  BY <1>2, TablesAssumption DEF Packets, Pids
<1>4. \A s \in Pids : ~IsSection(s) => s \notin carried
  BY DEF IsSection
<1> HIDE DEF carried
<1>5. ASSUME NEW s \in Pids, ~IsSection(s) PROVE s \notin named
  <2>1. SUFFICES ASSUME NEW i \in naming, s \in Range(cells[i].programs) PROVE FALSE
    OBVIOUS
  <2>2. cells[i] \in Cells /\ cells[i].start
    <3>1. DOMAIN cells = 1 .. Len(cells)
      OBVIOUS
    <3> QED
      BY <3>1, ElementOfSeq
  <2>3. cells[i] # Junk
    BY <2>2 DEF Junk
  <2>4. PICK k \in DOMAIN Packets, j \in {1, 2} : cells[i] = Packets[k].cells[j]
    BY <2>2, <2>3 DEF Cells
  <2> QED
    BY <1>3, <1>4, <1>5, <2>1, <2>2, <2>4
<1> HIDE DEF naming, named, last
<1>6. r.streams = p.streams /\ r.psi = Entered(p.psi, named, NewSection)
  OBVIOUS
<1> HIDE DEF r
<1>7. DOMAIN r.psi = DOMAIN p.psi \cup named
  BY <1>6 DEF Entered
<1> QED
  BY <1>1, <1>5, <1>6, <1>7

(* A packet of a table leaves the streams alone.                           *)
LEMMA TableLeavesStreams ==
    ASSUME transport \in Transports, NEW p, ParserOK(p), NEW pid \in DOMAIN p.psi, pid \in Pids,
           NEW start, NEW data \in Seq(Cells), Len(data) = 2, IsSection(pid) => data[1].length \in Nat
    PROVE  LET r == ParseSectionPid(p, pid, start, data) IN
           /\ r.p.streams = p.streams
           /\ \A s \in Pids : ~IsSection(s) /\ s \in DOMAIN r.p.psi => s \in DOMAIN p.psi
<1> DEFINE section == SectionAppended(SectionStarts(p.psi[pid], start), data)
           versions == VersionsAfter(p, pid, section)
           cells == setRange(section)
           done == [section EXCEPT !.buffer = <<>>, !.versions = versions]
           after == [p EXCEPT !.psi[pid] = done]
           some == [p EXCEPT !.psi[pid] = section]
           r == ParseSectionPid(p, pid, start, data)
<1>1. r.p = IF ~sectionComplete(section) THEN some
            ELSE IF pid = 0 THEN parseProgramAssociationTable(after, cells) ELSE after
  BY DEF ParseSectionPid, SectionTaken
<1>2. pid = 0 => IsSection(pid)
  BY TablesAssumption DEF Pids, IsSection
<1>3. pid = 0 => SectionOK(section)
  <2>1. IsSection(pid) => SectionOK(p.psi[pid])
    BY DEF ParserOK
  <2> QED
    BY <1>2, <2>1, SectionGrows
<1>4. pid = 0 /\ sectionComplete(section) => cells \in Seq(Cells)
  <2> HIDE DEF section
  <2> QED
    BY <1>3, SectionGiven
<1>5. DOMAIN p = {"psi", "streams", "programMapPID"}
  BY DEF ParserOK
<1> HIDE DEF section, versions, cells, r, done
<1>6. /\ after.streams = p.streams /\ DOMAIN after.psi = DOMAIN p.psi
      /\ some.streams = p.streams /\ DOMAIN some.psi = DOMAIN p.psi
      /\ DOMAIN after = {"psi", "streams", "programMapPID"}
  BY <1>5
<1> HIDE DEF after, some
<1>7. r.p.streams = p.streams
      /\ \A s \in Pids : ~IsSection(s) /\ s \in DOMAIN r.p.psi => s \in DOMAIN p.psi
  <2>1. CASE r.p = some
    BY <1>6, <2>1
  <2>2. CASE r.p = after
    BY <1>6, <2>2
  <2>3. CASE pid = 0 /\ sectionComplete(section) /\ r.p = parseProgramAssociationTable(after, cells)
    <3>1. LET x == parseProgramAssociationTable(after, cells) IN
          /\ x.streams = after.streams
          /\ \A s \in Pids : ~IsSection(s) /\ s \in DOMAIN x.psi => s \in DOMAIN after.psi
      BY <1>4, <1>6, <2>3, PatNames
    <3> QED
      BY <1>6, <2>3, <3>1
  <2> QED
    BY <1>1, <2>1, <2>2, <2>3
<1> QED
  BY <1>7 DEF r

(* A packet, and what comes of it for each stream.                         *)
LEMMA PidGoesOn ==
    ASSUME transport \in Transports, NEW packet \in WholePackets, packet[1] < packet[2],
           NEW m \in Nat, m < packet[1], NEW p, ParserOK(p), NEW got, InOrder(p, got, m),
           NEW s \in Pids, ~IsSection(s)
    PROVE  LET r == parsePID(p, HeaderOf(packet), PayloadOf(packet)) IN
           /\ PidInOrder(r.p, got[s], s, packet[2])
           /\ s = HeaderOf(packet).pid => PidInOrder(r.p, got[s] \o r.out, s, packet[2])
<1> DEFINE header == HeaderOf(packet)
           pid == header.pid
           data == PayloadOf(packet)
           r == parsePID(p, header, data)
           mode == transport.codec[s]
           n == packet[2]
           out == got[s]
<1>1. /\ data \in Seq(Cells) /\ Len(data) = 2 /\ pid \in Pids
      /\ IsSection(pid) => data[1].length \in Nat
  BY CellFacts
<1>2. n \in Nat /\ m <= n
  <2>1. packet \in Seq(Units) /\ Len(packet) = 2
    BY DEF WholePackets
  <2>2. packet[1] \in Units /\ packet[2] \in Units
    <3>1. 1 \in 1 .. Len(packet) /\ 2 \in 1 .. Len(packet)
      BY <2>1
    <3> QED
      BY <2>1, <3>1, ElementOfSeq, Zenon
  <2>3. packet[1] \in Nat /\ packet[2] \in Nat
    BY <2>2, UnitsOfPackets DEF Units
  <2> QED
    BY <2>3
<1>3. PidInOrder(p, out, s, m)
  BY DEF InOrder
<1>4. /\ s \notin DOMAIN p.psi /\ OutOK(out, m)
      /\ s \in DOMAIN p.streams => Goes(p.streams[s], mode, out, m)
  BY <1>3 DEF PidInOrder
<1> HIDE DEF out, mode, n
<1>5. OutOK(out, n) /\ (s \in DOMAIN p.streams => Goes(p.streams[s], mode, out, n))
  BY <1>2, <1>4, UptoKept
<1>6. out \o <<>> = out
  BY <1>4, NothingOut
<1> HIDE DEF header, data
<1>7. CASE pid \in DOMAIN p.psi
  <2>1. r = ParseSectionPid(p, pid, header.start, data)
    BY <1>7 DEF parsePID
  <2>2. LET x == ParseSectionPid(p, pid, header.start, data) IN
        x.p.streams = p.streams /\ (s \in DOMAIN x.p.psi => s \in DOMAIN p.psi)
    BY <1>1, <1>7, TableLeavesStreams
  <2> HIDE DEF r
  <2>3. r.p.streams = p.streams /\ s \notin DOMAIN r.p.psi
    BY <1>4, <2>1, <2>2
  <2>4. PidInOrder(r.p, out, s, n)
    BY <1>5, <2>3 DEF PidInOrder, mode
  <2>5. s # pid
    BY <1>4, <1>7
  <2> QED
    BY <2>4, <2>5 DEF out, n, header, data, r
<1>8. CASE pid \notin DOMAIN p.psi /\ pid \in DOMAIN p.streams
  <2> DEFINE parsed == StreamParse(p.streams[pid], header, data)
             stream == parsed.stream
             streams == [p.streams EXCEPT ![pid] = stream]
             next == [p EXCEPT !.streams = streams]
  <2>1. r = [p |-> next, version |-> -1, out |-> parsed.units]
    BY <1>8 DEF parsePID, ParseStreamPid, StreamParsed
  <2>2. s = pid => GoesOn(parsed, mode, out, n)
    BY <1>4, <1>8, StreamGoesOn DEF data, n
  <2>3. DOMAIN p = {"psi", "streams", "programMapPID"}
    BY DEF ParserOK
  <2> HIDE DEF parsed
  <2>4. DOMAIN streams = DOMAIN p.streams /\ streams[pid] = stream
        /\ (s # pid => (s \in DOMAIN p.streams => streams[s] = p.streams[s]))
    BY <1>8
  <2> HIDE DEF stream, streams
  <2>5. next.psi = p.psi /\ next.streams = streams
    BY <2>3
  <2> HIDE DEF next, r
  <2>6. r.p = next /\ r.out = parsed.units
    BY <2>1
  <2>7. CASE s = pid
    <3>1. /\ OutOK(out \o r.out, n) /\ Goes(stream, mode, out, n)
          /\ Goes(stream, mode, out \o r.out, n)
      BY <2>2, <2>6, <2>7 DEF GoesOn, stream
    <3>2. PidInOrder(r.p, out, s, n) /\ PidInOrder(r.p, out \o r.out, s, n)
      BY <1>4, <1>5, <2>4, <2>5, <2>6, <2>7, <3>1 DEF PidInOrder, mode
    <3> QED
      BY <3>2 DEF out, n, header, data, r
  <2>8. CASE s # pid
    <3>1. PidInOrder(r.p, out, s, n)
      BY <1>4, <1>5, <2>4, <2>5, <2>6, <2>8 DEF PidInOrder, mode
    <3> QED
      BY <2>8, <3>1 DEF out, n, header, data, r
  <2> QED
    BY <2>7, <2>8
<1>9. CASE pid \notin DOMAIN p.psi /\ pid \notin DOMAIN p.streams
  <2>1. r.p = p /\ r.out = <<>>
    BY <1>9 DEF parsePID
  <2> HIDE DEF r
  <2>2. PidInOrder(r.p, out, s, n) /\ PidInOrder(r.p, out \o r.out, s, n)
    BY <1>4, <1>5, <1>6, <2>1 DEF PidInOrder, mode
  <2> QED
    BY <2>2 DEF out, n, header, data, r
<1> QED
  BY <1>7, <1>8, <1>9

(* After a packet, whether it is delivered or not.                         *)
LEMMA PacketInOrder ==
    ASSUME transport \in Transports, NEW packet \in WholePackets, packet[1] < packet[2],
           NEW m \in Nat, m < packet[1], NEW f, FeedOK(f), InOrder(f.p, f.delivered, m)
    PROVE  LET g == parseTS(f, packet) IN InOrder(g.p, g.delivered, packet[2])
<1> DEFINE header == HeaderOf(packet)
           pid == header.pid
           r == parsePID(f.p, header, PayloadOf(packet))
           given == [f.delivered EXCEPT ![pid] = @ \o r.out]
           told == [f.version EXCEPT ![pid] = r.version]
           quiet == [f EXCEPT !.p = r.p]
           loud == [p |-> r.p, version |-> told, delivered |-> given]
           next == notifyListener(f, pid, r)
           n == packet[2]
           g == parseTS(f, packet)
<1>1. g \in {f, next}
  BY DEF parseTS
<1>2. \A s \in Pids : ~IsSection(s) =>
          /\ PidInOrder(r.p, f.delivered[s], s, n)
          /\ s = pid => PidInOrder(r.p, f.delivered[s] \o r.out, s, n)
  BY PidGoesOn DEF FeedOK
<1>3. pid \in Pids
  BY CellFacts
<1>4. n \in Nat /\ m <= n
  <2>1. packet \in Seq(Units) /\ Len(packet) = 2
    BY DEF WholePackets
  <2>2. packet[1] \in Units /\ packet[2] \in Units
    <3>1. 1 \in 1 .. Len(packet) /\ 2 \in 1 .. Len(packet)
      BY <2>1
    <3> QED
      BY <2>1, <3>1, ElementOfSeq, Zenon
  <2>3. packet[1] \in Nat /\ packet[2] \in Nat
    BY <2>2, UnitsOfPackets DEF Units
  <2> QED
    BY <2>3
<1> HIDE DEF header, r, pid, n, g
<1>5. next \in {quiet, loud}
  BY DEF notifyListener
<1> HIDE DEF next
<1>6. DOMAIN f = {"p", "version", "delivered"} /\ DOMAIN f.delivered = Pids
  BY DEF FeedOK, DeliveredOK
<1>7. InOrder(quiet.p, quiet.delivered, n)
  <2>1. quiet.p = r.p /\ quiet.delivered = f.delivered
    BY <1>6
  <2> HIDE DEF quiet
  <2> QED
    BY <1>2, <2>1 DEF InOrder
<1>8. InOrder(loud.p, loud.delivered, n)
  <2>1. \A s \in Pids : given[s] = IF s = pid THEN f.delivered[s] \o r.out ELSE f.delivered[s]
    BY <1>3, <1>6
  <2>2. loud.p = r.p /\ loud.delivered = given
    OBVIOUS
  <2> HIDE DEF loud, given
  <2> QED
    BY <1>2, <2>1, <2>2 DEF InOrder
<1>9. InOrder(f.p, f.delivered, n)
  <2>1. ASSUME NEW s \in Pids, ~IsSection(s) PROVE PidInOrder(f.p, f.delivered[s], s, n)
    <3>1. PidInOrder(f.p, f.delivered[s], s, m)
      BY <2>1 DEF InOrder
    <3> QED
      BY <1>4, <3>1, UptoKept DEF PidInOrder
  <2> QED
    BY <2>1 DEF InOrder
<1> HIDE DEF quiet, loud
<1>10. InOrder(g.p, g.delivered, n)
  BY <1>1, <1>5, <1>7, <1>8, <1>9
<1> QED
  BY <1>10 DEF g, n

(* Packets that come after m, in order, before the units that are left.    *)
Between(packets, units, m) ==
    /\ \A k \in DOMAIN packets :
          m < packets[k][1] /\ packets[k][1] < packets[k][2] /\ packets[k][2] <= sent
    /\ \A k, l \in DOMAIN packets : k < l => packets[k][2] < packets[l][1]
    /\ Ascending(units) /\ Within(units, m)
    /\ \A k \in DOMAIN packets, l \in DOMAIN units : packets[k][2] < units[l]

LEMMA FewerUnits ==
    ASSUME NEW packets, NEW units \in Seq(Units), NEW i \in 1 .. Len(units) + 1,
           NEW m, Between(packets, units, m)
    PROVE  Between(packets, From(units, i), m) /\ Between(packets, <<>>, m)
<1> DEFINE rest == From(units, i)
<1>1. /\ rest \in Seq(Units) /\ Len(rest) = Len(units) - i + 1
      /\ \A l \in 1 .. Len(units) - i + 1 : rest[l] = units[i + l - 1]
  <2>1. rest \in Seq(Units) /\ Len(rest) = Len(units) - i + 1
    BY FromIs
  <2>2. \A l \in 1 .. Len(units) - i + 1 : rest[l] = units[i + l - 1]
    BY FromElements
  <2> QED
    BY <2>1, <2>2
<1>2. Len(units) \in Nat /\ DOMAIN units = 1 .. Len(units) /\ DOMAIN rest = 1 .. Len(units) - i + 1
  BY <1>1
<1> HIDE DEF rest
<1>3. \A l \in DOMAIN rest : i + l - 1 \in DOMAIN units /\ rest[l] = units[i + l - 1]
  BY <1>1, <1>2
<1>4. \A k, l \in DOMAIN rest : k < l => i + k - 1 < i + l - 1
  BY <1>2
<1>5. Ascending(rest) /\ Within(rest, m) /\ \A k \in DOMAIN packets, l \in DOMAIN rest : packets[k][2] < rest[l]
  BY <1>3, <1>4 DEF Between, Ascending, Within
<1>6. DOMAIN <<>> = {}
  OBVIOUS
<1>7. Between(packets, <<>>, m)
  BY <1>6 DEF Between, Ascending, Within
<1> QED
  BY <1>5, <1>7 DEF Between, rest

LEMMA OneMorePacket ==
    ASSUME transport \in Transports, NEW packets \in Seq(WholePackets), NEW units \in Seq(Units),
           Len(units) >= 2, NEW m \in Nat, sent \in Nat, Between(packets, units, m)
    PROVE  Between(Append(packets, SubSeq(units, 1, 2)), From(units, 3), m)
<1> DEFINE packet == SubSeq(units, 1, 2)
           rest == From(units, 3)
           more == Append(packets, packet)
           L == Len(packets)
<1>1. Len(units) \in Nat /\ DOMAIN units = 1 .. Len(units) /\ 3 \in 1 .. Len(units) + 1
      /\ 1 \in DOMAIN units /\ 2 \in DOMAIN units
  OBVIOUS
<1>2. packet[1] = units[1] /\ packet[2] = units[2] /\ packet \in Seq(Units)
  <2>1. \A k \in 1 .. 2 : units[k] \in Units
    BY <1>1, ElementOfSeq
  <2> QED
    BY <1>1, <2>1, SubSeqProperties
<1>3. rest \in Seq(Units) /\ Len(rest) = Len(units) - 2
      /\ \A l \in 1 .. Len(units) - 2 : rest[l] = units[l + 2]
  <2>1. rest \in Seq(Units) /\ Len(rest) = Len(units) - 3 + 1
    BY <1>1, FromIs
  <2>2. \A l \in 1 .. Len(units) - 3 + 1 : rest[l] = units[3 + l - 1]
    BY <1>1, FromElements
  <2>3. Len(units) - 3 + 1 = Len(units) - 2 /\ \A l \in 1 .. Len(units) - 2 : 3 + l - 1 = l + 2
    BY <1>1
  <2> QED
    BY <2>1, <2>2, <2>3
<1>4. Between(packets, rest, m)
  BY <1>1, FewerUnits
<1>5. DOMAIN rest = 1 .. Len(units) - 2
  BY <1>1, <1>3
<1>6. \A u \in DOMAIN units : units[u] \in Nat
  BY <1>1, ElementOfSeq, UnitsOfPackets DEF Units
<1>7. /\ units[1] < units[2] /\ m < units[1] /\ units[2] <= sent
      /\ \A k \in DOMAIN packets : packets[k][2] < units[1]
      /\ \A l \in DOMAIN rest : units[2] < rest[l]
  <2>1. \A l \in DOMAIN rest : l + 2 \in DOMAIN units /\ 2 < l + 2
    BY <1>1, <1>5
  <2>2. 1 < 2
    OBVIOUS
  <2> HIDE DEF rest
  <2> QED
    BY <1>1, <1>3, <1>5, <2>1, <2>2 DEF Between, Ascending, Within
<1>8. /\ L \in Nat /\ DOMAIN packets = 1 .. L /\ DOMAIN more = 1 .. L + 1 /\ more[L + 1] = packet
      /\ \A k \in 1 .. L : more[k] = packets[k]
  BY AppendProperties
<1> HIDE DEF packet, rest, more, L
<1>9. \A k \in DOMAIN more : (k \in DOMAIN packets /\ k < L + 1) \/ k = L + 1
  BY <1>8
<1>10. \A k \in DOMAIN more : m < more[k][1] /\ more[k][1] < more[k][2] /\ more[k][2] <= sent
  BY <1>2, <1>4, <1>7, <1>8, <1>9 DEF Between
<1>11. ASSUME NEW k \in DOMAIN more, NEW l \in DOMAIN more, k < l PROVE more[k][2] < more[l][1]
  <2>1. k \in 1 .. L
    BY <1>8, <1>11
  <2>2. CASE l = L + 1
    BY <1>2, <1>7, <1>8, <2>1, <2>2
  <2>3. CASE l # L + 1
    <3>1. l \in 1 .. L
      BY <1>8, <2>3
    <3> QED
      BY <1>4, <1>8, <1>11, <2>1, <3>1 DEF Between
  <2> QED
    BY <2>2, <2>3
<1>12. \A k \in DOMAIN more, l \in DOMAIN rest : more[k][2] < rest[l]
  BY <1>2, <1>4, <1>7, <1>8, <1>9 DEF Between
<1> QED
  BY <1>4, <1>10, <1>11, <1>12 DEF Between, more, packet, rest

LEMMA CutStaysInOrder ==
    ASSUME transport \in Transports, NEW c \in CutStates, NEW m \in Nat, sent \in Nat,
           Between(c.packets, c.units, m)
    PROVE  Between(CutNext(c).packets, CutNext(c).units, m)
<1> DEFINE u == c.units
           ps == c.packets
           L == Len(u)
<1>1. u \in Seq(Units) /\ ps \in Seq(WholePackets) /\ L \in Nat
  BY DEF CutStates
<1>2. CASE L < 2
  BY <1>1, <1>2 DEF CutNext, PacketSize
<1>3. CASE L >= 2 /\ IsHead(u[1])
  <2> DEFINE rest == From(u, 3)
             more == Append(ps, SubSeq(u, 1, 2))
  <2>1. CutNext(c) = [units |-> rest, packets |-> more]
    BY <1>1, <1>3 DEF CutNext, PacketSize
  <2>2. Between(more, rest, m)
    BY <1>1, <1>3, OneMorePacket
  <2> HIDE DEF rest, more
  <2> QED
    BY <2>1, <2>2
<1>4. CASE L >= 2 /\ ~IsHead(u[1])
  <2> DEFINE heads == {i \in DOMAIN u : /\ IsHead(u[i])
                                        /\ i + PacketSize <= L => IsHead(u[i + PacketSize])}
  <2>1. resync(u) = IF heads = {} THEN <<>> ELSE From(u, Min(heads))
    BY DEF resync
  <2>2. heads \in SUBSET Nat /\ \A i \in heads : i \in 1 .. L
    <3>1. DOMAIN u = 1 .. L
      BY <1>1
    <3>2. heads \subseteq 1 .. L
      BY <3>1
    <3> HIDE DEF heads
    <3> QED
      BY <1>1, <3>2
  <2> HIDE DEF heads
  <2>3. Between(ps, resync(u), m)
    <3>1. CASE heads = {}
      <4>1. 1 \in 1 .. L + 1
        BY <1>1
      <4> QED
        BY <1>1, <2>1, <3>1, <4>1, FewerUnits
    <3>2. CASE heads # {}
      <4>1. Min(heads) \in 1 .. L
        BY <2>2, <3>2, MinIn
      <4> DEFINE i == Min(heads)
      <4>2. i \in 1 .. L + 1
        BY <1>1, <4>1
      <4> HIDE DEF i
      <4>3. Between(ps, From(u, i), m)
        BY <1>1, <4>2, FewerUnits
      <4> QED
        BY <2>1, <3>2, <4>3 DEF i
    <3> QED
      BY <3>1, <3>2
  <2>4. CutNext(c) = [c EXCEPT !.units = resync(@)]
    BY <1>1, <1>4 DEF CutNext, PacketSize
  <2>5. CutNext(c) = [units |-> resync(u), packets |-> ps]
    BY <2>4 DEF CutStates
  <2> HIDE DEF u, ps
  <2> QED
    BY <2>3, <2>5
<1> QED
  BY <1>1, <1>2, <1>3, <1>4

LEMMA CutInOrder ==
    ASSUME transport \in Transports, NEW units \in Seq(Units), NEW packets \in Seq(WholePackets),
           NEW m \in Nat, sent \in Nat, Between(packets, units, m)
    PROVE  LET cut == Cut(units, packets) IN Between(cut.packets, cut.remaining, m)
<1> DEFINE L == Len(units)
<1>1. L \in Nat
  OBVIOUS
<1>2. PICK cut \in [0 .. L -> CutStates] :
          /\ cut[0] = [units |-> units, packets |-> packets]
          /\ \A n \in 1 .. L : cut[n] = CutNext(cut[n - 1])
          /\ LET last == cut[L] IN
             Cut(units, packets) =
                [packets |-> last.packets,
                 remaining |-> IF last.units # <<>> /\ IsHead(last.units[1]) THEN last.units ELSE <<>>]
  BY CutRuns
<1> DEFINE T == {n \in 0 .. L : Between(cut[n].packets, cut[n].units, m)}
<1>3. 0 \in T
  BY <1>1, <1>2
<1>4. ASSUME NEW n \in 1 .. L, n - 1 \in T PROVE n \in T
  <2>1. cut[n] = CutNext(cut[n - 1]) /\ cut[n - 1] \in CutStates /\ n \in 0 .. L
    BY <1>1, <1>2
  <2> QED
    BY <1>4, <2>1, CutStaysInOrder
<1>5. L \in T
  <2> HIDE DEF T
  <2>1. \A n \in 0 .. L : n \in T
    BY <1>1, <1>3, <1>4, InductionToLength
  <2> QED
    BY <1>1, <2>1
<1> DEFINE last == cut[L]
           rest == IF last.units # <<>> /\ IsHead(last.units[1]) THEN last.units ELSE <<>>
<1>6. Between(last.packets, last.units, m) /\ last.units \in Seq(Units)
  <2>1. last \in CutStates
    BY <1>1
  <2> QED
    BY <1>5, <2>1 DEF CutStates
<1>7. Cut(units, packets) = [packets |-> last.packets, remaining |-> rest]
  BY <1>2
<1> HIDE DEF last
<1>8. Between(last.packets, rest, m)
  <2> DEFINE left == last.units
  <2> HIDE DEF left
  <2>1. left \in Seq(Units) /\ Between(last.packets, left, m)
    BY <1>6 DEF left
  <2>2. 1 \in 1 .. Len(left) + 1
    BY <2>1
  <2>3. Between(last.packets, <<>>, m)
    BY <2>1, <2>2, FewerUnits
  <2>4. rest \in {left, <<>>}
    BY DEF left
  <2> HIDE DEF rest
  <2> QED
    BY <2>1, <2>3, <2>4
<1> HIDE DEF rest
<1> QED
  BY <1>7, <1>8

LEMMA FeedCutInOrder ==
    ASSUME transport \in Transports, RestOK(mRemainingBytesBuffer), NEW units \in Seq(Units),
           NEW m \in Nat, sent \in Nat, Within(mRemainingBytesBuffer, m), Follows(units, m)
    PROVE  LET cut == onFeedData(mRemainingBytesBuffer, units) IN
           Between(cut.packets, cut.remaining, m)
<1> DEFINE r == onFeedData(mRemainingBytesBuffer, units)
           wait == mRemainingBytesBuffer
<1>1. wait \in Seq(Units) /\ (wait # <<>> => Len(wait) = 1 /\ IsHead(wait[1]))
  BY DEF RestOK
<1>2. Len(units) \in Nat /\ DOMAIN units = 1 .. Len(units)
  OBVIOUS
<1>3. Ascending(units) /\ Within(units, m)
      /\ \A k \in DOMAIN units, l \in DOMAIN wait : wait[l] < units[k]
  BY DEF Follows
<1>4. DOMAIN <<>> = {} /\ <<>> \in Seq(WholePackets)
  OBVIOUS
<1>5. CASE wait = <<>>
  <2>1. r = Cut(units, <<>>)
    BY <1>5 DEF onFeedData
  <2>2. Between(<<>>, units, m)
    BY <1>3, <1>4 DEF Between
  <2>3. LET cut == Cut(units, <<>>) IN Between(cut.packets, cut.remaining, m)
    BY <1>4, <2>2, CutInOrder
  <2> QED
    BY <2>1, <2>3
<1>6. wait # <<>> => DOMAIN wait = {1} /\ PacketSize - Len(wait) = 1
  <2> SUFFICES ASSUME wait # <<>> PROVE DOMAIN wait = {1} /\ PacketSize - Len(wait) = 1
    OBVIOUS
  <2>1. Len(wait) = 1
    BY <1>1, Zenon
  <2>2. DOMAIN wait = 1 .. Len(wait)
    <3>1. wait \in Seq(Units)
      BY <1>1
    <3> HIDE DEF wait
    <3> QED
      BY <3>1
  <2> QED
    BY <2>1, <2>2 DEF PacketSize
<1>7. CASE wait # <<>> /\ Len(units) < 1
  <2>1. r = [packets |-> <<>>, remaining |-> wait \o units]
    BY <1>6, <1>7 DEF onFeedData
  <2>2. units = <<>>
    BY <1>2, <1>7
  <2>3. wait \o units = wait
    BY <1>1, <2>2
  <2>4. Ascending(wait)
    <3> HIDE DEF wait
    <3>1. \A k, l \in DOMAIN wait : ~(k < l)
      BY <1>6, <1>7
    <3> QED
      BY <3>1 DEF Ascending
  <2>5. Between(<<>>, wait, m)
    BY <1>4, <2>4 DEF Between
  <2> HIDE DEF wait
  <2> QED
    BY <2>1, <2>3, <2>5
<1>8. CASE wait # <<>> /\ Len(units) >= 1
  <2> DEFINE one == SubSeq(units, 1, 1)
             packet == wait \o one
             rest == From(units, 2)
  <2>1. r = Cut(rest, <<packet>>)
    <3> DEFINE n == PacketSize - Len(wait)
    <3>1. r = IF Len(units) < n THEN [packets |-> <<>>, remaining |-> wait \o units]
              ELSE Cut(From(units, n + 1), <<wait \o SubSeq(units, 1, n)>>)
      BY <1>8, Zenon DEF onFeedData
    <3>2. n = 1
      BY <1>6, <1>8, Zenon DEF n
    <3> HIDE DEF n
    <3>3. ~(Len(units) < n) /\ n + 1 = 2
      BY <1>2, <1>8, <3>2
    <3> QED
      BY <3>1, <3>2, <3>3, Zenon
  <2>2. 1 \in DOMAIN units /\ 2 \in 1 .. Len(units) + 1
    BY <1>2, <1>8
  <2>3. one \in Seq(Units) /\ Len(one) = 1 /\ one[1] = units[1]
    <3>1. \A k \in 1 .. 1 : units[k] \in Units
      BY <1>2, <2>2, ElementOfSeq
    <3> QED
      BY <3>1, SubSeqProperties
  <2>4. Len(wait) = 1
    BY <1>1, <1>8, Zenon
  <2> HIDE DEF one, wait
  <2>5. packet \in Seq(Units) /\ Len(packet) = 2 /\ packet[1] = wait[1] /\ packet[2] = units[1]
    <3>1. /\ packet \in Seq(Units) /\ Len(packet) = 2 /\ packet[1] = wait[1]
      BY <1>1, <2>3, <2>4, TwoOnes
    <3>2. \A i \in 1 .. Len(wait) + Len(one) :
              packet[i] = IF i <= Len(wait) THEN wait[i] ELSE one[i - Len(wait)]
      BY <1>1, <2>3, ConcatProperties
    <3>3. packet[2] = one[1]
      <4>1. 2 \in 1 .. Len(wait) + Len(one) /\ ~(2 <= Len(wait)) /\ 2 - Len(wait) = 1
        BY <2>3, <2>4
      <4> QED
        BY <3>2, <4>1
    <3> QED
      BY <2>3, <3>1, <3>3
  <2>6. packet \in WholePackets
    BY <1>1, <1>8, <2>5 DEF WholePackets
  <2> HIDE DEF packet
  <2>7. <<packet>> \in Seq(WholePackets) /\ DOMAIN <<packet>> = {1} /\ <<packet>>[1] = packet
    BY <2>6
  <2>8. /\ rest \in Seq(Units)
        /\ \A k \in DOMAIN rest : k + 1 \in DOMAIN units /\ rest[k] = units[k + 1]
    <3>1. rest \in Seq(Units) /\ Len(rest) = Len(units) - 2 + 1
      BY <2>2, FromIs
    <3>2. \A l \in 1 .. Len(units) - 2 + 1 : rest[l] = units[2 + l - 1]
      BY <2>2, FromElements
    <3>3. DOMAIN rest = 1 .. Len(units) - 2 + 1
      BY <3>1
    <3>4. \A k \in 1 .. Len(units) - 2 + 1 : 2 + k - 1 = k + 1 /\ k + 1 \in 1 .. Len(units)
      BY <1>2
    <3> HIDE DEF rest
    <3> QED
      BY <1>2, <3>1, <3>2, <3>3, <3>4
  <2>9. \A k \in DOMAIN rest : k \in Nat /\ 1 < k + 1 /\ \A l \in DOMAIN rest : k < l => k + 1 < l + 1
    <3>1. DOMAIN rest = 1 .. Len(rest)
      BY <2>8
    <3> HIDE DEF rest
    <3> QED
      BY <3>1
  <2> HIDE DEF rest
  <2>10. Ascending(rest) /\ Within(rest, m) /\ \A l \in DOMAIN rest : units[1] < rest[l]
    <3>1. Ascending(rest)
      BY <1>3, <2>8, <2>9 DEF Ascending
    <3>2. Within(rest, m)
      BY <1>3, <2>8 DEF Within
    <3>3. \A l \in DOMAIN rest : units[1] < rest[l]
      BY <1>3, <2>2, <2>8, <2>9 DEF Ascending
    <3> QED
      BY <3>1, <3>2, <3>3
  <2>11. m < wait[1] /\ wait[1] < units[1] /\ units[1] <= sent
    <3>1. 1 \in DOMAIN wait
      BY <1>6, <1>8
    <3>2. Within(wait, m)
      BY DEF wait
    <3> QED
      BY <1>3, <2>2, <3>1, <3>2 DEF Within
  <2>12. Between(<<packet>>, rest, m)
    <3> DEFINE ps == <<packet>>
    <3> HIDE DEF ps
    <3>1. DOMAIN ps = {1} /\ ps[1] = packet
      BY <2>7 DEF ps
    <3>2. \A k, l \in DOMAIN ps : ~(k < l)
      BY <3>1
    <3>3. \A k \in DOMAIN ps : ps[k][1] = wait[1] /\ ps[k][2] = units[1]
      BY <2>5, <3>1
    <3> QED
      BY <2>10, <2>11, <3>2, <3>3 DEF Between, ps
  <2>13. LET cut == Cut(rest, <<packet>>) IN Between(cut.packets, cut.remaining, m)
    BY <2>7, <2>8, <2>12, CutInOrder
  <2> HIDE DEF r
  <2>14. Between(r.packets, r.remaining, m)
    BY <2>1, <2>13
  <2> QED
    BY <2>14 DEF r, wait
<1> QED
  BY <1>2, <1>5, <1>7, <1>8

(* After all the packets of a feed.                                        *)
LEMMA FeedInOrder ==
    ASSUME transport \in Transports, ParserOK(parser), DeliveredOK(delivered),
           NEW m \in 0 .. sent, sent \in Nat, InOrder(parser, delivered, m),
           NEW packets \in Seq(WholePackets), NEW rest \in Seq(Units), Between(packets, rest, m)
    PROVE  LET f == feedTs(packets) IN
           \E n \in 0 .. sent : InOrder(f.p, f.delivered, n) /\ Within(rest, n)
<1> DEFINE L == Len(packets)
           place(n) == IF n = 0 THEN m ELSE packets[n][2]
<1>1. L \in Nat /\ DOMAIN packets = 1 .. L /\ m \in Nat
  OBVIOUS
<1>2. PICK f : /\ f[0] = [p |-> parser, version |-> mVersion, delivered |-> delivered]
               /\ \A n \in 1 .. L : f[n] = parseTS(f[n - 1], packets[n])
               /\ feedTs(packets) = f[L]
  BY <1>1, FeedRuns
<1>3. \A n \in 1 .. L : packets[n] \in WholePackets /\ packets[n][1] \in Nat /\ packets[n][2] \in Nat
  <2> SUFFICES ASSUME NEW n \in 1 .. L
               PROVE  packets[n] \in WholePackets /\ packets[n][1] \in Nat /\ packets[n][2] \in Nat
    OBVIOUS
  <2> DEFINE packet == packets[n]
  <2>1. packet \in WholePackets
    BY <1>1, ElementOfSeq
  <2> HIDE DEF packet
  <2>2. packet \in Seq(Units) /\ Len(packet) = 2
    BY <2>1 DEF WholePackets
  <2>3. 1 \in 1 .. Len(packet) /\ 2 \in 1 .. Len(packet)
    BY <2>2
  <2>4. packet[1] \in Units /\ packet[2] \in Units
    BY <2>2, <2>3, ElementOfSeq, Zenon
  <2> QED
    BY <2>1, <2>4, UnitsOfPackets DEF Units, packet
<1>4. \A n \in 1 .. L : place(n - 1) < packets[n][1] /\ packets[n][1] < packets[n][2]
                        /\ packets[n][2] <= sent /\ place(n - 1) \in Nat
  <2> SUFFICES ASSUME NEW n \in 1 .. L
               PROVE  /\ place(n - 1) < packets[n][1] /\ packets[n][1] < packets[n][2]
                      /\ packets[n][2] <= sent /\ place(n - 1) \in Nat
    OBVIOUS
  <2>1. n = 1 \/ (n - 1 \in 1 .. L /\ n - 1 < n)
    BY <1>1
  <2>2. m < packets[n][1] /\ packets[n][1] < packets[n][2] /\ packets[n][2] <= sent
    BY <1>1 DEF Between
  <2>3. n - 1 \in 1 .. L /\ n - 1 < n => packets[n - 1][2] < packets[n][1]
    BY <1>1 DEF Between
  <2>4. CASE n = 1
    BY <1>1, <2>2, <2>4
  <2>5. CASE n - 1 \in 1 .. L /\ n - 1 < n
    BY <1>1, <1>3, <2>2, <2>3, <2>5
  <2> QED
    BY <2>1, <2>4, <2>5
<1> DEFINE T == {n \in 0 .. L : FeedOK(f[n]) /\ InOrder(f[n].p, f[n].delivered, place(n))}
<1>5. 0 \in T
  <2> DEFINE start == [p |-> parser, version |-> mVersion, delivered |-> delivered]
  <2>1. FeedOK(start)
    BY DEF FeedOK
  <2>2. start.p = parser /\ start.delivered = delivered /\ f[0] = start
    BY <1>2
  <2> HIDE DEF start
  <2> QED
    BY <1>1, <2>1, <2>2
<1>6. ASSUME NEW n \in 1 .. L, n - 1 \in T PROVE n \in T
  <2> DEFINE g == f[n - 1]
             packet == packets[n]
             k == place(n - 1)
  <2>1. f[n] = parseTS(g, packet) /\ FeedOK(g) /\ InOrder(g.p, g.delivered, k)
    BY <1>2, <1>6
  <2>2. packet \in WholePackets /\ k \in Nat /\ k < packet[1] /\ packet[1] < packet[2]
    BY <1>3, <1>4
  <2>3. place(n) = packet[2] /\ n \in 0 .. L
    BY <1>1
  <2> HIDE DEF g, packet, k, place
  <2>4. FeedOK(parseTS(g, packet))
    BY <2>1, <2>2, PacketKeeps
  <2>5. LET h == parseTS(g, packet) IN InOrder(h.p, h.delivered, packet[2])
    BY <2>1, <2>2, PacketInOrder
  <2> QED
    BY <2>1, <2>3, <2>4, <2>5
<1>7. L \in T
  <2> HIDE DEF T
  <2>1. \A n \in 0 .. L : n \in T
    BY <1>1, <1>5, <1>6, InductionToLength
  <2> QED
    BY <1>1, <2>1
<1>8. place(L) \in 0 .. sent /\ Within(rest, place(L))
  <2>1. CASE L = 0
    BY <2>1 DEF Between
  <2>2. CASE L # 0
    <3>1. L \in 1 .. L
      BY <1>1, <2>2
    <3>2. packets[L][2] \in Nat /\ packets[L][2] <= sent
      BY <1>3, <1>4, <3>1
    <3>3. place(L) = packets[L][2] /\ L \in DOMAIN packets
      BY <1>1, <2>2, <3>1
    <3> HIDE DEF place
    <3>4. Within(rest, place(L))
      BY <3>3 DEF Between, Within
    <3> QED
      BY <3>2, <3>3, <3>4
  <2> QED
    BY <2>1, <2>2
<1> HIDE DEF place
<1>9. InOrder(f[L].p, f[L].delivered, place(L))
  BY <1>7
<1> QED
  BY <1>2, <1>8, <1>9

(* The messages after one was posted or handled.                           *)
LEMMA FeedsAfter ==
    ASSUME NEW S, NEW q \in Seq(S), OnlyFeed(q)
    PROVE  /\ \A msg \in S : FeedUnits(Append(q, msg)) \subseteq
                  FeedUnits(q) \cup IF msg.what = "feed" THEN {msg.units} ELSE {}
           /\ \A msg \in S : msg.what # "feed" \/ FeedUnits(q) = {} => OnlyFeed(Append(q, msg))
           /\ q # <<>> => /\ OnlyFeed(Tail(q)) /\ FeedUnits(Tail(q)) \subseteq FeedUnits(q)
                          /\ Head(q).what = "feed" =>
                                FeedUnits(Tail(q)) = {} /\ Head(q).units \in FeedUnits(q)
<1> DEFINE L == Len(q)
<1>1. L \in Nat /\ DOMAIN q = 1 .. L
  OBVIOUS
<1>2. ASSUME NEW msg \in S
      PROVE  /\ FeedUnits(Append(q, msg)) \subseteq
                  FeedUnits(q) \cup IF msg.what = "feed" THEN {msg.units} ELSE {}
             /\ msg.what # "feed" \/ FeedUnits(q) = {} => OnlyFeed(Append(q, msg))
  <2> DEFINE r == Append(q, msg)
  <2>1. DOMAIN r = 1 .. L + 1 /\ r[L + 1] = msg /\ \A i \in 1 .. L : r[i] = q[i]
    BY AppendProperties
  <2> HIDE DEF r
  <2>2. \A i \in DOMAIN r : (i \in DOMAIN q /\ r[i] = q[i]) \/ (i = L + 1 /\ r[i] = msg)
    BY <1>1, <2>1
  <2>3. FeedUnits(r) \subseteq FeedUnits(q) \cup IF msg.what = "feed" THEN {msg.units} ELSE {}
    BY <2>2 DEF FeedUnits
  <2>4. FeedUnits(q) = {} => \A i \in DOMAIN q : q[i].what # "feed"
    BY DEF FeedUnits
  <2>5. msg.what # "feed" \/ FeedUnits(q) = {} => OnlyFeed(r)
    BY <2>2, <2>4 DEF OnlyFeed
  <2> QED
    BY <2>3, <2>5 DEF r
<1>3. ASSUME q # <<>>
      PROVE  /\ OnlyFeed(Tail(q)) /\ FeedUnits(Tail(q)) \subseteq FeedUnits(q)
             /\ Head(q).what = "feed" => FeedUnits(Tail(q)) = {} /\ Head(q).units \in FeedUnits(q)
  <2> DEFINE t == Tail(q)
  <2>1. Head(q) = q[1] /\ DOMAIN t = 1 .. L - 1 /\ (\A i \in 1 .. L - 1 : t[i] = q[i + 1]) /\ L >= 1
    <3>1. Head(q) = q[1] /\ t \in Seq(S) /\ Len(t) = L - 1 /\ \A i \in 1 .. Len(t) : t[i] = q[i + 1]
      BY <1>3, HeadTailProperties
    <3> HIDE DEF t
    <3>2. L # 0
      BY <1>3, EmptySeq
    <3> QED
      BY <1>1, <3>1, <3>2
  <2> HIDE DEF t
  <2>2. 1 \in DOMAIN q /\ \A i \in DOMAIN t : i + 1 \in DOMAIN q /\ i + 1 # 1 /\ t[i] = q[i + 1]
    BY <1>1, <2>1
  <2>3. \A i, j \in DOMAIN t : i + 1 = j + 1 => i = j
    BY <1>1, <2>1
  <2>4. OnlyFeed(t)
    BY <2>2, <2>3 DEF OnlyFeed
  <2>5. FeedUnits(t) \subseteq FeedUnits(q)
    BY <2>2 DEF FeedUnits
  <2>6. Head(q).what = "feed" => Head(q).units \in FeedUnits(q) /\ \A i \in DOMAIN t : t[i].what # "feed"
    BY <2>1, <2>2 DEF FeedUnits, OnlyFeed
  <2>7. (\A i \in DOMAIN t : t[i].what # "feed") => FeedUnits(t) = {}
    BY DEF FeedUnits
  <2> QED
    BY <2>4, <2>5, <2>6, <2>7 DEF t
<1> HIDE DEF L
<1> QED
  BY <1>2, <1>3

(* Nothing but the transport tells which cells there are.                  *)
LEMMA OrderMeans ==
    ASSUME transport' = transport, NEW m, InOrder(parser', delivered', m)
    PROVE  InOrder(parser, delivered, m)'
<1>1. Pids' = Pids /\ Packets' = Packets
  BY DEF Pids, Packets
<1>2. Cells' = Cells
  BY <1>1 DEF Cells, Junk
<1>3. \A u : UnitCell(u)' = UnitCell(u)
  BY <1>1 DEF UnitCell
<1>4. IdsUpto(m)' = IdsUpto(m)
  BY <1>3 DEF IdsUpto
<1>5. Stamps' = Stamps
  BY <1>2 DEF Stamps, IsPes
<1>6. QueueSet(Cells, Stamps)' = QueueSet(Cells, Stamps)
      /\ UnitSet(Cells, Stamps)' = UnitSet(Cells, Stamps)
  BY <1>2, <1>5 DEF QueueSet, UnitSet, RangeSet
<1>7. \A stream, mode : StreamOK(stream, mode)' <=> StreamOK(stream, mode)
  BY <1>2, <1>6 DEF StreamOK
<1>8. \A stream, out : StreamBehind(stream, out, m)' <=> StreamBehind(stream, out, m)
  BY <1>4 DEF StreamBehind, Rising, Before, IdsOf, UnitIds
<1>9. \A out : OutOK(out, m)' <=> OutOK(out, m)
  BY <1>4, <1>6 DEF OutOK, UnitsRise, UnitIds, IdsOf
<1>10. \A p, out, pid : PidInOrder(p, out, pid, m)' <=> PidInOrder(p, out, pid, m)
  BY <1>7, <1>8, <1>9 DEF PidInOrder, Goes
<1>11. \A pid : IsSection(pid)' <=> IsSection(pid)
  BY DEF IsSection
<1> QED
  BY <1>1, <1>10, <1>11 DEF InOrder

(* What the threads have is still behind what was parsed.                  *)
LEMMA OrderKept ==
    ASSUME OrderInv, SectionsInv', transport' = transport, sent' \in Nat, sent <= sent', OneFeed',
           \A n \in Nat : InOrder(parser, delivered, n) => InOrder(parser', delivered', n),
           mRemainingBytesBuffer' \in {mRemainingBytesBuffer, <<>>}, chunk' \in {chunk, <<>>},
           FeedUnits(queue') \subseteq FeedUnits(queue) \cup {chunk}
    PROVE  OrderInv'
<1>1. sent \in Nat
  BY UnitsOfPackets DEF OrderInv, SectionsInv, ThreadsOK
<1>2. PICK m \in 0 .. sent : ParsedUpto(m)
  BY DEF OrderInv
<1>3. m \in Nat /\ m \in 0 .. sent'
  BY <1>1, <1>2
<1>4. InOrder(parser, delivered, m)'
  BY <1>2, <1>3, OrderMeans DEF ParsedUpto
<1>5. DOMAIN <<>> = {}
  OBVIOUS
<1>6. \A units \in Seq(Units) : Within(units, m) => Within(units, m)'
  <2> SUFFICES ASSUME NEW units \in Seq(Units), Within(units, m)
               PROVE  \A k \in DOMAIN units : m < units[k] /\ units[k] <= sent'
    BY DEF Within
  <2>1. \A k \in DOMAIN units : units[k] \in Nat
    BY ElementOfSeq, UnitsOfPackets DEF Units, OrderInv, SectionsInv
  <2> QED
    BY <1>1, <2>1 DEF Within
<1>7. /\ mRemainingBytesBuffer \in Seq(Units) /\ chunk \in Seq(Units)
      /\ \A units \in FeedUnits(queue) : units \in Seq(Units)
  <2>1. queue \in Seq(Messages)
    BY DEF OrderInv, SectionsInv, ThreadsOK
  <2>2. \A i \in DOMAIN queue : queue[i].what = "feed" => queue[i].units \in Seq(Units)
    BY <2>1 DEF Messages
  <2> QED
    BY <2>2 DEF OrderInv, SectionsInv, ThreadsOK, RestOK, FeedUnits
<1>8. Within(mRemainingBytesBuffer, m)'
  <2>1. Within(mRemainingBytesBuffer, m) /\ Within(<<>>, m)
    BY <1>2, <1>5 DEF ParsedUpto, Within
  <2>2. \A k \in DOMAIN mRemainingBytesBuffer' :
            m < mRemainingBytesBuffer'[k] /\ mRemainingBytesBuffer'[k] <= sent'
    <3>1. CASE mRemainingBytesBuffer' = mRemainingBytesBuffer
      BY <1>6, <1>7, <2>1, <3>1 DEF Within
    <3>2. CASE mRemainingBytesBuffer' = <<>>
      BY <1>5, <3>2
    <3> QED
      BY <3>1, <3>2
  <2> QED
    BY <2>2 DEF Within
<1>9. \A units \in Seq(Units) : Follows(units, m) => Follows(units, m)'
  <2> SUFFICES ASSUME NEW units \in Seq(Units), Follows(units, m)
               PROVE  Follows(units, m)'
    OBVIOUS
  <2>1. Within(units, m)' /\ Ascending(units)'
    BY <1>6 DEF Follows, Ascending
  <2>2. \A l \in DOMAIN mRemainingBytesBuffer' :
            l \in DOMAIN mRemainingBytesBuffer /\ mRemainingBytesBuffer'[l] = mRemainingBytesBuffer[l]
    BY <1>5
  <2> QED
    BY <2>1, <2>2 DEF Follows
<1>10. Follows(<<>>, m)'
  BY <1>5 DEF Follows, Ascending, Within
<1>11. Follows(chunk, m) /\ \A units \in FeedUnits(queue) : Follows(units, m)
  BY <1>2 DEF ParsedUpto
<1>12. Follows(chunk, m)'
  <2>1. CASE chunk' = chunk
    <3>1. \A units \in {chunk} : Follows(units, m)'
      BY <1>7, <1>9, <1>11
    <3> QED
      BY <2>1, <3>1 DEF Follows, Ascending, Within
  <2>2. CASE chunk' = <<>>
    BY <1>10, <2>2 DEF Follows, Ascending, Within
  <2> QED
    BY <2>1, <2>2
<1>13. \A units \in FeedUnits(queue') : Follows(units, m)'
  <2>1. \A units \in FeedUnits(queue) \cup {chunk} : Follows(units, m)'
    BY <1>7, <1>9, <1>11
  <2> QED
    BY <2>1
<1>14. (\A units \in FeedUnits(queue) : Follows(units, m))'
  <2>1. FeedUnits(queue)' = FeedUnits(queue')
    BY DEF FeedUnits
  <2> QED
    BY <1>13, <2>1
<1>15. ParsedUpto(m)'
  BY <1>4, <1>8, <1>12, <1>14 DEF ParsedUpto
<1> QED
  BY <1>3, <1>15 DEF OrderInv

LEMMA OrderInitial == SwInit => OrderInv
<1> SUFFICES ASSUME SwInit PROVE OrderInv
  OBVIOUS
<1> USE DEF SwInit
<1>1. SectionsInv
  BY SectionsInitial
<1>2. DOMAIN <<>> = {}
  OBVIOUS
<1>3. FeedUnits(queue) = {} /\ OneFeed
  BY <1>2 DEF FeedUnits, OneFeed, OnlyFeed
<1>4. Within(mRemainingBytesBuffer, 0) /\ Follows(chunk, 0)
  BY <1>2 DEF Within, Follows, Ascending
<1>5. InOrder(parser, delivered, 0)
  <2>1. NewParser.psi = [pid \in {0, 1} |-> NewSection] /\ NewParser.streams = <<>>
    BY DEF NewParser
  <2>2. DOMAIN parser.psi = {0, 1} /\ DOMAIN parser.streams = {}
    BY <2>1
  <2>3. \A s \in Pids : ~IsSection(s) => s \notin {0, 1}
    BY TablesAssumption DEF Pids, IsSection
  <2>4. UnitIds(<<>>) = {} /\ UnitsRise(<<>>) /\ <<>> \in Seq(UnitSet(Cells, Stamps))
    BY <1>2 DEF UnitIds, UnitsRise
  <2>5. OutOK(<<>>, 0)
    BY <2>4 DEF OutOK
  <2> QED
    BY <2>2, <2>3, <2>5 DEF InOrder, PidInOrder
<1>6. ParsedUpto(0)
  BY <1>3, <1>4, <1>5 DEF ParsedUpto
<1>7. 0 \in 0 .. sent
  OBVIOUS
<1> QED
  BY <1>1, <1>3, <1>6, <1>7 DEF OrderInv

(* A step that leaves parser and filters, and what waits, alone.           *)
LEMMA OrderQuiet ==
    ASSUME OrderInv, SectionsInv', transport' = transport, sent' \in Nat, sent <= sent', OneFeed',
           parser' = parser, delivered' = delivered,
           mRemainingBytesBuffer' \in {mRemainingBytesBuffer, <<>>}, chunk' \in {chunk, <<>>},
           FeedUnits(queue') \subseteq FeedUnits(queue) \cup {chunk}
    PROVE  OrderInv'
  BY OrderKept

LEMMA OrderOfQueue ==
    ASSUME OrderInv
    PROVE  /\ queue \in Seq(Messages) /\ OnlyFeed(queue) /\ sent \in Nat
           /\ chunk # <<>> => feeder.at = "posting"
           /\ FeedUnits(queue) # {} => feeder.at = "waiting"
  BY UnitsOfPackets DEF OrderInv, SectionsInv, ThreadsOK, OneFeed

(* A message that is no feed is posted.                                    *)
LEMMA OrderPosted ==
    ASSUME OrderInv, NEW msg \in Messages, msg.what # "feed", Post(msg)
    PROVE  OnlyFeed(queue') /\ FeedUnits(queue') \subseteq FeedUnits(queue)
<1>1. queue \in Seq(Messages) /\ OnlyFeed(queue)
  BY OrderOfQueue
<1>2. OnlyFeed(Append(queue, msg)) /\ FeedUnits(Append(queue, msg)) \subseteq FeedUnits(queue)
  <2>1. FeedUnits(Append(queue, msg)) \subseteq
            FeedUnits(queue) \cup IF msg.what = "feed" THEN {msg.units} ELSE {}
    BY <1>1, FeedsAfter
  <2>2. OnlyFeed(Append(queue, msg))
    BY <1>1, FeedsAfter
  <2> QED
    BY <2>1, <2>2
<1>3. queue' = queue \/ queue' = Append(queue, msg)
  BY DEF Post
<1> QED
  BY <1>1, <1>2, <1>3

LEMMA FeedersKeepOrder == OrderInv /\ Feeds => OrderInv'
<1> SUFFICES ASSUME OrderInv, Feeds PROVE OrderInv'
  OBVIOUS
<1> USE DEF threads, demux, base
<1>1. SectionsInv' /\ SectionsInv
  BY FeedersKeep DEF OrderInv
<1>2. /\ queue \in Seq(Messages) /\ OnlyFeed(queue) /\ sent \in Nat
      /\ chunk # <<>> => feeder.at = "posting"
      /\ FeedUnits(queue) # {} => feeder.at = "waiting"
  BY OrderOfQueue
<1>3. Idle.at = "idle" /\ Blocked.at = "waiting"
  BY DEF Idle, Blocked
<1>4. ASSUME NEW n \in 1 .. MaxChunk, FeedTs(n) PROVE OrderInv'
  <2>1. /\ feeder = Idle /\ chunk' = [i \in 1 .. n |-> sent + i] /\ sent' = sent + n
        /\ feeder'.at = "posting" /\ transport' = transport /\ queue' = queue
        /\ mRemainingBytesBuffer' = mRemainingBytesBuffer /\ parser' = parser
        /\ delivered' = delivered
    BY <1>4 DEF FeedTs
  <2>2. n \in Nat
    BY TransportsAssumption
  <2>3. FeedUnits(queue') = {}
    BY <1>2, <1>3, <2>1
  <2>4. OneFeed'
    <3>1. FeedUnits(queue)' = FeedUnits(queue') /\ (OnlyFeed(queue)' <=> OnlyFeed(queue'))
      BY DEF FeedUnits, OnlyFeed
    <3> QED
      BY <1>2, <2>1, <2>3, <3>1 DEF OneFeed
  <2>5. PICK m \in 0 .. sent : ParsedUpto(m)
    BY DEF OrderInv
  <2>6. m \in Nat /\ m <= sent /\ m \in 0 .. sent'
    BY <1>2, <2>1, <2>2
  <2>7. InOrder(parser, delivered, m)'
    BY <2>1, <2>5, OrderMeans DEF ParsedUpto
  <2> DEFINE wait == mRemainingBytesBuffer
  <2>8. wait \in Seq(Units) /\ \A k \in DOMAIN wait : wait[k] \in Nat /\ m < wait[k] /\ wait[k] <= sent
    <3>1. wait \in Seq(Units) /\ Within(wait, m)
      BY <1>1, <2>5 DEF SectionsInv, RestOK, ParsedUpto
    <3>2. \A k \in DOMAIN wait : wait[k] \in Nat
      BY <1>1, <3>1, ElementOfSeq, UnitsOfPackets DEF Units, SectionsInv
    <3> QED
      BY <3>1, <3>2 DEF Within
  <2>9. Within(wait, m)'
    <3> HIDE DEF wait
    <3>1. \A k \in DOMAIN wait : m < wait[k] /\ wait[k] <= sent + n
      BY <1>2, <2>2, <2>6, <2>8
    <3>2. wait' = wait
      BY <2>1 DEF wait
    <3> QED
      BY <2>1, <3>1, <3>2 DEF Within
  <2>10. \A k, l \in 1 .. n : k < l => sent + k < sent + l
    BY <1>2, <2>2
  <2>11. \A k \in 1 .. n : sent < sent + k /\ m < sent + k /\ sent + k <= sent + n
    BY <1>2, <2>2, <2>6
  <2>12. \A k \in 1 .. n, l \in DOMAIN wait : wait[l] < sent + k
    <3> HIDE DEF wait
    <3> QED
      BY <1>2, <2>2, <2>8
  <2>13. DOMAIN chunk' = 1 .. n /\ \A k \in 1 .. n : chunk'[k] = sent + k
    BY <2>1
  <2>14. Follows(chunk, m)'
    <3>1. Ascending(chunk)'
      BY <2>10, <2>13 DEF Ascending
    <3>2. Within(chunk, m)'
      BY <2>1, <2>11, <2>13 DEF Within
    <3>3. \A k \in DOMAIN chunk', l \in DOMAIN mRemainingBytesBuffer' :
              mRemainingBytesBuffer'[l] < chunk'[k]
      BY <2>1, <2>12, <2>13
    <3> QED
      BY <3>1, <3>2, <3>3 DEF Follows
  <2>15. FeedUnits(queue)' = {}
    BY <2>3 DEF FeedUnits
  <2>16. ParsedUpto(m)'
    BY <2>7, <2>9, <2>14, <2>15 DEF ParsedUpto
  <2> QED
    BY <1>1, <2>4, <2>6, <2>16 DEF OrderInv
<1>5. CASE Lose
  <2>1. /\ sent' = sent + 1 /\ transport' = transport /\ queue' = queue /\ chunk' = chunk
        /\ feeder' = feeder /\ parser' = parser /\ delivered' = delivered
        /\ mRemainingBytesBuffer' = mRemainingBytesBuffer
    BY <1>5 DEF Lose
  <2>2. OneFeed'
    BY <2>1 DEF OrderInv, OneFeed, FeedUnits, OnlyFeed
  <2>3. sent' \in Nat /\ sent <= sent'
    BY <1>2, <2>1
  <2> QED
    BY <1>1, <2>1, <2>2, <2>3, OrderQuiet
<1>6. CASE PostFeed
  <2> DEFINE msg == [what |-> "feed", units |-> chunk, generation |-> feeder.generation]
  <2>1. /\ feeder.at = "posting" /\ feeder' = IF looping THEN Blocked ELSE Idle
        /\ chunk' = <<>> /\ sent' = sent /\ transport' = transport
        /\ parser' = parser /\ delivered' = delivered
        /\ mRemainingBytesBuffer' = mRemainingBytesBuffer
        /\ queue' = IF looping THEN Append(queue, msg) ELSE queue
    BY <1>6 DEF PostFeed, Post
  <2>2. msg \in Messages /\ msg.what = "feed" /\ msg.units = chunk
    BY <1>1, <2>1 DEF SectionsInv, ThreadsOK, Messages
  <2> HIDE DEF msg
  <2>3. FeedUnits(queue) = {}
    BY <1>2, <2>1
  <2>4. OnlyFeed(Append(queue, msg)) /\ FeedUnits(Append(queue, msg)) \subseteq {chunk}
    <3>1. FeedUnits(Append(queue, msg)) \subseteq
              FeedUnits(queue) \cup IF msg.what = "feed" THEN {msg.units} ELSE {}
      BY <1>2, <2>2, FeedsAfter
    <3>2. OnlyFeed(Append(queue, msg))
      BY <1>2, <2>2, <2>3, FeedsAfter
    <3> QED
      BY <2>2, <2>3, <3>1, <3>2
  <2>5. OnlyFeed(queue') /\ FeedUnits(queue') \subseteq {chunk}
        /\ (FeedUnits(queue') # {} => feeder'.at = "waiting")
    <3>1. CASE looping
      BY <1>3, <2>1, <2>4, <3>1
    <3>2. CASE ~looping
      BY <1>2, <2>1, <2>3, <3>2
    <3> QED
      BY <3>1, <3>2
  <2>6. OneFeed'
    BY <2>1, <2>5 DEF OneFeed, FeedUnits, OnlyFeed
  <2> QED
    BY <1>1, <1>2, <2>1, <2>5, <2>6, OrderQuiet
<1> QED
  BY <1>4, <1>5, <1>6 DEF Feeds

LEMMA ControlsKeepOrder == OrderInv /\ Controls => OrderInv'
<1> SUFFICES ASSUME OrderInv, Controls PROVE OrderInv'
  OBVIOUS
<1> USE DEF threads, demux, base
<1>1. SectionsInv' /\ SectionsInv
  BY ControlsKeep DEF OrderInv
<1>2. /\ queue \in Seq(Messages) /\ OnlyFeed(queue) /\ sent \in Nat
      /\ chunk # <<>> => feeder.at = "posting"
      /\ FeedUnits(queue) # {} => feeder.at = "waiting"
  BY OrderOfQueue
<1>3. /\ transport' = transport /\ sent' = sent /\ chunk' = chunk /\ parser' = parser
      /\ delivered' = delivered /\ mRemainingBytesBuffer' = mRemainingBytesBuffer
  BY DEF Controls, Flush, PostFlush, AddDemuxFilter, RemoveDemuxFilter, Stop, Close
<1>4. \/ queue' = queue /\ feeder' = feeder
      \/ feeder' = feeder /\ \E msg \in Messages : msg.what # "feed" /\ Post(msg)
      \/ queue' = <<>> /\ feeder' = IF feeder = Blocked THEN Idle ELSE feeder
  <2>1. ASSUME NEW after \in {"idle", "close"}, Flush(after) PROVE queue' = queue /\ feeder' = feeder
    BY <2>1 DEF Flush
  <2>2. CASE PostFlush
    <3> DEFINE msg == [what |-> "flush", after |-> controller.after]
    <3>1. msg \in Messages /\ msg.what # "feed"
      BY <1>1, <2>2 DEF PostFlush, Messages, SectionsInv, ThreadsOK
    <3>2. Post(msg) /\ feeder' = feeder
      BY <2>2 DEF PostFlush
    <3> HIDE DEF msg
    <3> QED
      BY <3>1, <3>2
  <2>3. ASSUME NEW pid \in Pids, AddDemuxFilter(pid)
        PROVE  feeder' = feeder /\ \E msg \in Messages : msg.what # "feed" /\ Post(msg)
    <3> DEFINE msg == [what |-> "add", pid |-> pid]
    <3>1. msg \in Messages /\ msg.what # "feed"
      BY DEF Messages
    <3>2. Post(msg) /\ feeder' = feeder
      BY <2>3 DEF AddDemuxFilter
    <3> HIDE DEF msg
    <3> QED
      BY <3>1, <3>2
  <2>4. ASSUME NEW pid \in Pids, RemoveDemuxFilter(pid)
        PROVE  feeder' = feeder /\ \E msg \in Messages : msg.what # "feed" /\ Post(msg)
    <3> DEFINE msg == [what |-> "remove", pid |-> pid]
    <3>1. msg \in Messages /\ msg.what # "feed"
      BY DEF Messages
    <3>2. Post(msg) /\ feeder' = feeder
      BY <2>4 DEF RemoveDemuxFilter
    <3> HIDE DEF msg
    <3> QED
      BY <3>1, <3>2
  <2>5. CASE Stop
    BY <2>5 DEF Stop
  <2>6. CASE Close
    BY <2>6 DEF Close
  <2> QED
    BY <2>1, <2>2, <2>3, <2>4, <2>5, <2>6 DEF Controls
<1>5. /\ OnlyFeed(queue') /\ FeedUnits(queue') \subseteq FeedUnits(queue)
      /\ FeedUnits(queue') # {} => feeder'.at = "waiting"
      /\ chunk' # <<>> => feeder'.at = "posting"
  <2>1. CASE queue' = queue /\ feeder' = feeder
    BY <1>2, <1>3, <2>1
  <2>2. CASE feeder' = feeder /\ \E msg \in Messages : msg.what # "feed" /\ Post(msg)
    <3>1. OnlyFeed(queue') /\ FeedUnits(queue') \subseteq FeedUnits(queue)
      BY <2>2, OrderPosted
    <3> QED
      BY <1>2, <1>3, <2>2, <3>1
  <2>3. CASE queue' = <<>> /\ feeder' = IF feeder = Blocked THEN Idle ELSE feeder
    <3>1. OnlyFeed(<<>>) /\ FeedUnits(<<>>) = {}
      BY DEF OnlyFeed, FeedUnits
    <3>2. chunk' # <<>> => feeder # Blocked
      BY <1>2, <1>3 DEF Blocked
    <3> QED
      BY <1>2, <1>3, <2>3, <3>1, <3>2
  <2> QED
    BY <1>4, <2>1, <2>2, <2>3
<1>6. OneFeed'
  BY <1>5 DEF OneFeed, FeedUnits, OnlyFeed
<1> QED
  BY <1>1, <1>2, <1>3, <1>5, <1>6, OrderQuiet

(* A new stream has nothing.                                               *)
LEMMA NewStreamGoes ==
    ASSUME NEW mode \in Modes, NEW out, NEW m
    PROVE  Goes(NewStream(mode), mode, out, m)
<1> DEFINE stream == NewStream(mode)
           q == NewQueue(mode)
<1>1. /\ DOMAIN stream = {"expected", "buffer", "started", "queue"} /\ stream.buffer = <<>>
      /\ stream.queue = q
  BY DEF NewStream
<1>2. q = [mode |-> mode, buffer |-> <<>>, ranges |-> <<>>, format |-> FALSE]
  BY DEF NewQueue
<1>3. q \in QueueSet(Cells, Stamps) /\ q.mode = mode /\ q.buffer = <<>>
  BY <1>2 DEF QueueSet
<1>4. Rising(<<>>) /\ IdsOf(<<>>) = {} /\ <<>> \in Seq(Cells)
  BY DEF Rising, IdsOf
<1> HIDE DEF stream, q
<1>5. StreamOK(stream, mode) /\ StreamBehind(stream, out, m)
  BY <1>1, <1>3, <1>4 DEF StreamOK, StreamBehind, Before
<1> QED
  BY <1>5 DEF Goes, stream

(* Streams that are kept, come or go.                                      *)
LEMMA StreamsKept ==
    ASSUME NEW p, NEW r, NEW got, NEW m, InOrder(p, got, m),
           \A s \in Pids : ~IsSection(s) =>
              /\ s \in DOMAIN r.psi => s \in DOMAIN p.psi
              /\ s \in DOMAIN r.streams =>
                    \/ s \in DOMAIN p.streams /\ r.streams[s] = p.streams[s]
                    \/ Goes(r.streams[s], transport.codec[s], got[s], m)
    PROVE  InOrder(r, got, m)
  BY DEF InOrder, PidInOrder

LEMMA HandlersKeepOrder == OrderInv /\ Handles => OrderInv'
<1> SUFFICES ASSUME OrderInv, Handles PROVE OrderInv'
  OBVIOUS
<1> USE DEF threads, demux, base
<1>1. SectionsInv' /\ SectionsInv
  BY HandlersKeep DEF OrderInv
<1>2. /\ queue \in Seq(Messages) /\ OnlyFeed(queue) /\ sent \in Nat
      /\ chunk # <<>> => feeder.at = "posting"
      /\ FeedUnits(queue) # {} => feeder.at = "waiting"
  BY OrderOfQueue
<1>3. queue # <<>> /\ queue' = Tail(queue) /\ Head(queue) \in Messages /\ transport' = transport
      /\ sent' = sent /\ chunk' = chunk
  <2>1. queue # <<>> /\ queue' = Tail(queue) /\ transport' = transport /\ sent' = sent
        /\ chunk' = chunk
    BY DEF Handles, HandleFeed, HandleFlush, HandleAdd, HandleRemove
  <2> QED
    BY <1>1, <2>1, Queued
<1>4. /\ OnlyFeed(queue') /\ FeedUnits(queue') \subseteq FeedUnits(queue)
      /\ Head(queue).what = "feed" => FeedUnits(queue') = {} /\ Head(queue).units \in FeedUnits(queue)
  BY <1>2, <1>3, FeedsAfter
<1>5. /\ ParserOK(parser) /\ DeliveredOK(delivered) /\ RestOK(mRemainingBytesBuffer)
      /\ transport \in Transports /\ DOMAIN parser = {"psi", "streams", "programMapPID"}
  BY <1>1 DEF SectionsInv, ParserOK
<1>6. sent' \in Nat /\ sent <= sent'
  BY <1>2, <1>3
<1>7. CASE HandleFeed
  <2>1. Head(queue).what = "feed" /\ feeder' = Idle
    BY <1>7 DEF HandleFeed
  <2>2. FeedUnits(queue') = {} /\ chunk = <<>>
    BY <1>2, <1>4, <2>1
  <2>3. OneFeed'
    BY <1>3, <1>4, <2>2 DEF OneFeed, FeedUnits, OnlyFeed
  <2>4. CASE Head(queue).generation # mBufferGeneration
    <3>1. /\ mRemainingBytesBuffer' = mRemainingBytesBuffer /\ parser' = parser
          /\ delivered' = delivered
      BY <1>7, <2>4 DEF HandleFeed
    <3> QED
      BY <1>1, <1>3, <1>4, <1>6, <2>3, <3>1, OrderQuiet
  <2>5. CASE Head(queue).generation = mBufferGeneration
    <3> DEFINE units == Head(queue).units
               cut == onFeedData(mRemainingBytesBuffer, units)
               f == feedTs(cut.packets)
    <3>1. mRemainingBytesBuffer' = cut.remaining /\ parser' = f.p /\ delivered' = f.delivered
      BY <1>7, <2>5 DEF HandleFeed
    <3>2. units \in Seq(Units)
      BY <1>3, <2>1 DEF Messages
    <3>3. PICK m \in 0 .. sent : ParsedUpto(m)
      BY DEF OrderInv
    <3>4. Within(mRemainingBytesBuffer, m) /\ Follows(units, m) /\ InOrder(parser, delivered, m) /\ m \in Nat
      BY <1>2, <1>4, <2>1, <3>3 DEF ParsedUpto
    <3> HIDE DEF units
    <3>5. cut.packets \in Seq(WholePackets) /\ RestOK(cut.remaining)
      BY <1>5, <3>2, FeedIsCut
    <3>6. Between(cut.packets, cut.remaining, m)
      BY <1>2, <1>5, <3>2, <3>4, FeedCutInOrder
    <3> HIDE DEF cut
    <3>7. cut.remaining \in Seq(Units)
      BY <3>5 DEF RestOK
    <3>8. PICK n \in 0 .. sent : InOrder(f.p, f.delivered, n) /\ Within(cut.remaining, n)
      BY <1>2, <1>5, <3>4, <3>5, <3>6, <3>7, FeedInOrder
    <3> HIDE DEF f
    <3>9. InOrder(parser, delivered, n)'
      BY <1>3, <3>1, <3>8, OrderMeans
    <3>10. Within(mRemainingBytesBuffer, n)'
      BY <1>3, <3>1, <3>8 DEF Within
    <3>11. Follows(chunk, n)'
      BY <1>3, <2>2 DEF Follows, Ascending, Within
    <3>12. FeedUnits(queue)' = {}
      BY <2>2 DEF FeedUnits
    <3>13. ParsedUpto(n)' /\ n \in 0 .. sent'
      BY <1>3, <3>9, <3>10, <3>11, <3>12 DEF ParsedUpto
    <3> QED
      BY <1>1, <2>3, <3>13 DEF OrderInv
  <2> QED
    BY <2>4, <2>5
<1>8. ASSUME Head(queue).what # "feed", feeder' = feeder, delivered' = delivered,
             mRemainingBytesBuffer' \in {mRemainingBytesBuffer, <<>>},
             \A n \in Nat : InOrder(parser, delivered, n) => InOrder(parser', delivered', n)
      PROVE  OrderInv'
  <2>1. OneFeed'
    BY <1>2, <1>3, <1>4, <1>8 DEF OneFeed, FeedUnits, OnlyFeed
  <2> QED
    BY <1>1, <1>3, <1>4, <1>6, <1>8, <2>1, OrderKept
<1>9. CASE HandleFlush
  <2> DEFINE psi == [pid \in DOMAIN parser.psi |-> [parser.psi[pid] EXCEPT !.buffer = <<>>]]
             r == [parser EXCEPT !.psi = psi]
  <2>1. /\ parser' = r /\ Head(queue).what # "feed" /\ feeder' = feeder /\ delivered' = delivered
        /\ mRemainingBytesBuffer' = <<>>
    BY <1>9 DEF HandleFlush, Reset
  <2>2. DOMAIN psi = DOMAIN parser.psi
    OBVIOUS
  <2> HIDE DEF psi
  <2>3. DOMAIN r.psi = DOMAIN parser.psi /\ r.streams = parser.streams
    BY <1>5, <2>2
  <2> HIDE DEF r
  <2>4. \A n \in Nat : InOrder(parser, delivered, n) => InOrder(parser', delivered', n)
    BY <2>1, <2>3, StreamsKept
  <2> QED
    BY <1>8, <2>1, <2>4
<1>10. CASE HandleAdd
  <2> DEFINE pid == Head(queue).pid
             new == NewStream(transport.codec[pid])
             withPsi == [parser EXCEPT !.psi = Entered(@, {pid}, NewSection)]
             withStream == [parser EXCEPT !.streams = Entered(@, {pid}, new)]
  <2>1. /\ parser' = IF IsSection(pid) THEN withPsi ELSE withStream
        /\ Head(queue).what # "feed" /\ feeder' = feeder /\ delivered' = delivered
        /\ mRemainingBytesBuffer' = mRemainingBytesBuffer
    BY <1>10 DEF HandleAdd
  <2>2. pid \in Pids
    BY <1>3, <1>10 DEF Messages, HandleAdd
  <2>3. ~IsSection(pid) => \A out, n : Goes(new, transport.codec[pid], out, n)
    <3>1. ~IsSection(pid) => transport.codec[pid] \in Modes
      BY <1>5, <2>2, TransportsAssumption DEF Pids, IsSection
    <3> HIDE DEF pid
    <3> QED
      BY <3>1, NewStreamGoes
  <2> HIDE DEF pid, new
  <2>4. /\ withPsi.streams = parser.streams /\ withPsi.psi = Entered(parser.psi, {pid}, NewSection)
        /\ withStream.psi = parser.psi /\ withStream.streams = Entered(parser.streams, {pid}, new)
    BY <1>5
  <2> HIDE DEF withPsi, withStream
  <2>5. /\ DOMAIN withPsi.psi = DOMAIN parser.psi \cup {pid}
        /\ DOMAIN withStream.streams = DOMAIN parser.streams \cup {pid}
        /\ \A s \in DOMAIN withStream.streams :
              withStream.streams[s] = IF s \in DOMAIN parser.streams THEN parser.streams[s] ELSE new
    BY <2>4 DEF Entered
  <2>6. ASSUME NEW n \in Nat, InOrder(parser, delivered, n) PROVE InOrder(parser', delivered', n)
    <3>1. CASE IsSection(pid)
      <4>1. InOrder(withPsi, delivered, n)
        BY <2>4, <2>5, <2>6, <3>1, StreamsKept
      <4> QED
        BY <2>1, <3>1, <4>1
    <3>2. CASE ~IsSection(pid)
      <4>1. \A s \in DOMAIN withStream.streams :
                \/ s \in DOMAIN parser.streams /\ withStream.streams[s] = parser.streams[s]
                \/ Goes(withStream.streams[s], transport.codec[s], delivered[s], n)
        BY <2>3, <2>5, <3>2
      <4>2. InOrder(withStream, delivered, n)
        BY <2>4, <2>6, <4>1, StreamsKept
      <4> QED
        BY <2>1, <3>2, <4>2
    <3> QED
      BY <3>1, <3>2
  <2> QED
    BY <1>8, <2>1, <2>6
<1>11. CASE HandleRemove
  <2> DEFINE pid == Head(queue).pid
             psi == [s \in DOMAIN parser.psi \ {pid} |-> parser.psi[s]]
             streams == [s \in DOMAIN parser.streams \ {pid} |-> parser.streams[s]]
             lessPsi == [parser EXCEPT !.psi = psi]
             lessStream == [parser EXCEPT !.streams = streams]
  <2>1. /\ parser' = IF pid \in DOMAIN parser.psi THEN lessPsi ELSE lessStream
        /\ Head(queue).what # "feed" /\ feeder' = feeder /\ delivered' = delivered
        /\ mRemainingBytesBuffer' = mRemainingBytesBuffer
    BY <1>11 DEF HandleRemove
  <2> HIDE DEF pid
  <2>2. /\ DOMAIN psi \subseteq DOMAIN parser.psi
        /\ DOMAIN streams \subseteq DOMAIN parser.streams
        /\ \A s \in DOMAIN streams : streams[s] = parser.streams[s]
    OBVIOUS
  <2> HIDE DEF psi, streams
  <2>3. /\ lessPsi.streams = parser.streams /\ lessPsi.psi = psi
        /\ lessStream.streams = streams /\ lessStream.psi = parser.psi
    BY <1>5
  <2> HIDE DEF lessPsi, lessStream
  <2>4. ASSUME NEW n \in Nat, InOrder(parser, delivered, n) PROVE InOrder(parser', delivered', n)
    <3>1. InOrder(lessPsi, delivered, n)
      BY <2>2, <2>3, <2>4, StreamsKept
    <3>2. InOrder(lessStream, delivered, n)
      BY <2>2, <2>3, <2>4, StreamsKept
    <3> QED
      BY <2>1, <3>1, <3>2
  <2> QED
    BY <1>8, <2>1, <2>4
<1> QED
  BY <1>7, <1>9, <1>10, <1>11 DEF Handles

LEMMA OrderStep == OrderInv /\ [SwNext]_swvars => OrderInv'
<1> SUFFICES ASSUME OrderInv, [SwNext]_swvars PROVE OrderInv'
  OBVIOUS
<1>1. CASE SwNext
  BY <1>1, FeedersKeepOrder, ControlsKeepOrder, HandlersKeepOrder DEF SwNext
<1>2. CASE UNCHANGED swvars
  <2> USE <1>2 DEF swvars, threads, demux, base
  <2>1. ThreadsOK'
    BY ThreadsKept DEF OrderInv, SectionsInv, ThreadsOK
  <2>2. SectionsInv'
    BY <2>1, ThreadsOnly DEF OrderInv, SectionsInv
  <2>3. OneFeed'
    BY DEF OrderInv, OneFeed, FeedUnits, OnlyFeed
  <2>4. sent' \in Nat /\ sent <= sent'
    BY OrderOfQueue
  <2>5. FeedUnits(queue') \subseteq FeedUnits(queue) \cup {chunk}
    OBVIOUS
  <2> QED
    BY <2>2, <2>3, <2>4, <2>5, OrderQuiet
<1> QED
  BY <1>1, <1>2

LEMMA OrderIsFrames == OrderInv => FramesInOrder
<1> SUFFICES ASSUME OrderInv, NEW pid \in Pids, ~IsSection(pid)
             PROVE  UnitsRise(delivered[pid])
  BY DEF FramesInOrder, ComesInOrder, UnitsRise
<1>1. PICK m \in 0 .. sent : ParsedUpto(m)
  BY DEF OrderInv
<1> QED
  BY <1>1 DEF ParsedUpto, InOrder, PidInOrder, OutOK

(* The cells of each elementary stream reach its filter in the order they  *)
(* were sent in, none of them twice, in whatever pieces the stream is fed, *)
(* whatever was lost or flushed, and filters that come and go              *)
(* (AmlSwDemux::onFeedData, Stream::parse, ElementaryStreamQueue).         *)
THEOREM FramesComeInOrder == SwSpec => []FramesInOrder
  BY OrderInitial, OrderStep, OrderIsFrames, PTL DEF SwSpec
-----------------------------------------------------------------------------
(* SwDemux: a stream of which nothing was lost, fed in whatever pieces.    *)

(* The parser with the pids of C entered.                                  *)
Joined(C) ==
    [psi |-> [pid \in {0, 1} \cup {s \in C : IsSection(s)} |-> NewSection],
     streams |-> [pid \in {s \in C : ~IsSection(s)} |-> NewStream(transport.codec[pid])],
     programMapPID |-> NoPmt]

(* What is there before the first packet, and after n of them in a row.    *)
NoVersions == [pid \in Pids |-> -1]
NothingGiven == [pid \in Pids |-> <<>>]
Begun == [p |-> Joined(mChannels), version |-> NoVersions, delivered |-> NothingGiven]
PacketAt(n) == <<2 * n - 1, 2 * n>>
FedWhole(n) ==
    LET f[k \in 0 .. n] == IF k = 0 THEN Begun ELSE parseTS(f[k - 1], PacketAt(k))
    IN  f[n]

(* The filters of the channels are called with what they should be called  *)
(* with when the packets of the stream come one after the other.           *)
IdsGiven(units) ==
    [i \in DOMAIN units |-> [j \in DOMAIN units[i].cells |-> units[i].cells[j].id]]
ArrivesWhole ==
    \A pid \in mChannels :
        IdsGiven(FedWhole(Len(Packets)).delivered[pid]) = transport.arrives[pid]

(* The units behind h, up to e; a head waits for its tail.                 *)
Run(h, e) == [i \in 1 .. e - h |-> h + i]
LeftOf(h) == IF IsHead(h) THEN <<h>> ELSE <<>>

(* Channels that the parser is yet to hear of; it does before it is fed.   *)
Adding(q) == {q[i].pid : i \in {j \in DOMAIN q : q[j].what = "add"}}
OnlyAddsAndFeeds(q) == \A i \in DOMAIN q : q[i].what \in {"add", "feed"}
AddsFirst(q) == \A i, j \in DOMAIN q : q[i].what = "feed" /\ q[j].what = "add" => j < i

Result == [p |-> parser, version |-> mVersion, delivered |-> delivered]
Begins ==
    /\ mVersion = NoVersions /\ delivered = NothingGiven
    /\ \E C \in SUBSET Pids : parser = Joined(C) /\ C \cup Adding(queue) = mChannels
IsFed(g, n) ==
    /\ g[0] = Begun /\ \A k \in 1 .. n : g[k] = parseTS(g[k - 1], PacketAt(k))
    /\ Result = g[n]
FedUpto(h) == (h = 0 /\ Begins) \/ (Adding(queue) = {} /\ \E g : IsFed(g, h \div 2))
HandledUpto(h) ==
    /\ mRemainingBytesBuffer = LeftOf(h)
    /\ feeder.at = "posting" => chunk = Run(h, sent)
    /\ \A units \in FeedUnits(queue) : units = Run(h, sent)
    /\ feeder = Idle => h = sent
    /\ FedUpto(h)
(* What holds as long as nothing was lost.                                 *)
CleanOK ==
    /\ looping /\ controller = Idle
    /\ sent = 0 => feeder = Idle
    /\ OnlyAddsAndFeeds(queue) /\ AddsFirst(queue)
    /\ \E h \in 0 .. sent : HandledUpto(h)
CleanInv == OrderInv /\ (clean => CleanOK)
ComesWhole ==
    clean /\ sent = 2 * Len(Packets) /\ feeder = Idle =>
        delivered = FedWhole(Len(Packets)).delivered
Pairs(b, c) == [i \in 1 .. c - b |-> PacketAt(b + i)]

LEMMA RunIs ==
    ASSUME NEW h \in Nat, NEW e \in Nat, h <= e, NEW S, \A u \in h + 1 .. e : u \in S
    PROVE  /\ Run(h, e) \in Seq(S) /\ Len(Run(h, e)) = e - h /\ DOMAIN Run(h, e) = 1 .. e - h
           /\ \A i \in 1 .. e - h : Run(h, e)[i] = h + i
<1> DEFINE n == e - h
<1>1. n \in Nat /\ \A i \in 1 .. n : h + i \in S
  OBVIOUS
<1>2. Run(h, e) = [i \in 1 .. n |-> h + i]
  BY DEF Run
<1> HIDE DEF n
<1>3. Run(h, e) \in [1 .. n -> S]
  BY <1>1, <1>2
<1>4. Run(h, e) \in Seq(S) /\ Len(Run(h, e)) = n
  BY <1>1, <1>3
<1> QED
  BY <1>2, <1>4 DEF n

LEMMA RunInNat ==
    ASSUME NEW h \in Nat, NEW e \in Nat, h <= e
    PROVE  /\ Run(h, e) \in Seq(Nat) /\ Len(Run(h, e)) = e - h
           /\ \A i \in 1 .. e - h : Run(h, e)[i] = h + i
<1>1. \A u \in h + 1 .. e : u \in Nat
  OBVIOUS
<1> QED
  BY <1>1, RunIs

LEMMA OneElement ==
    ASSUME NEW S, NEW s \in Seq(S), Len(s) = 1
    PROVE  s = <<s[1]>>
<1> DEFINE t == <<s[1]>>
<1>1. s[1] \in S
  OBVIOUS
<1>2. t \in Seq(S) /\ Len(t) = 1 /\ t[1] = s[1]
  BY <1>1
<1> HIDE DEF t
<1>3. t = s
  BY <1>2, SeqEqual
<1> QED
  BY <1>3 DEF t

LEMMA RunsEqual ==
    ASSUME NEW h \in Nat, NEW e \in Nat, h <= e, NEW s \in Seq(Nat), Len(s) = e - h,
           \A i \in 1 .. e - h : s[i] = h + i
    PROVE  s = Run(h, e)
<1>1. Run(h, e) \in Seq(Nat) /\ Len(Run(h, e)) = e - h /\ \A i \in 1 .. e - h : Run(h, e)[i] = h + i
  BY RunIs
<1> QED
  BY <1>1, SeqEqual

(* The rest of a run is a run.                                             *)
LEMMA RunFrom ==
    ASSUME NEW h \in Nat, NEW e \in Nat, NEW d \in Nat, h + d <= e
    PROVE  From(Run(h, e), d + 1) = Run(h + d, e)
<1> DEFINE r == Run(h, e)
           t == From(r, d + 1)
<1>1. r \in Seq(Nat) /\ Len(r) = e - h /\ \A i \in 1 .. e - h : r[i] = h + i
  BY RunIs
<1>2. t = SubSeq(r, d + 1, e - h)
  BY <1>1 DEF From
<1>3. \A i \in d + 1 .. e - h : r[i] \in Nat
  BY <1>1
<1> HIDE DEF r
<1>4. /\ t \in Seq(Nat) /\ Len(t) = e - (h + d)
      /\ \A i \in 1 .. e - (h + d) : t[i] = r[d + 1 + i - 1]
  <2> DEFINE m == d + 1
             n == e - h
  <2>1. m \in Int /\ n \in Int /\ \A i \in m .. n : r[i] \in Nat
    BY <1>3
  <2> HIDE DEF m, n, t
  <2>2. /\ t \in Seq(Nat) /\ Len(t) = IF m <= n THEN n - m + 1 ELSE 0
        /\ \A i \in 1 .. n - m + 1 : t[i] = r[m + i - 1]
    BY <1>2, <2>1, SubSeqProperties DEF m, n
  <2> QED
    BY <2>2 DEF m, n
<1> HIDE DEF t
<1>5. \A i \in 1 .. e - (h + d) : t[i] = (h + d) + i
  <2> SUFFICES ASSUME NEW i \in 1 .. e - (h + d) PROVE t[i] = (h + d) + i
    OBVIOUS
  <2>1. d + 1 + i - 1 = d + i /\ d + i \in 1 .. e - h
    OBVIOUS
  <2> QED
    BY <1>1, <1>4, <2>1
<1> QED
  BY <1>4, <1>5, RunsEqual DEF t, r

(* The first two of a run that begins behind a tail are a packet.          *)
LEMMA RunBegins ==
    ASSUME NEW p \in Nat, NEW e \in Nat, 2 * p + 2 <= e
    PROVE  /\ SubSeq(Run(2 * p, e), 1, 2) = PacketAt(p + 1)
           /\ IsHead(Run(2 * p, e)[1])
<1> DEFINE r == Run(2 * p, e)
<1>1. r[1] = 2 * p + 1 /\ r[2] = 2 * p + 2
  <2> DEFINE h == 2 * p
  <2>1. h \in Nat /\ h + 2 <= e
    OBVIOUS
  <2> HIDE DEF h
  <2>2. h <= e /\ 1 \in 1 .. e - h /\ 2 \in 1 .. e - h
    BY <2>1
  <2>3. \A i \in 1 .. e - h : Run(h, e)[i] = h + i
    BY <2>1, <2>2, RunIs
  <2> QED
    BY <2>2, <2>3 DEF h
<1> HIDE DEF r
<1>2. SubSeq(r, 1, 2) = <<r[1], r[2]>>
  <2>1. \A i \in 1 .. 2 : r[i] \in Nat
    BY <1>1
  <2> DEFINE t == SubSeq(r, 1, 2)
             u == <<r[1], r[2]>>
  <2>2. t \in Seq(Nat) /\ Len(t) = 2 /\ t[1] = r[1] /\ t[2] = r[2]
    BY <2>1, SubSeqProperties
  <2>3. u \in Seq(Nat) /\ Len(u) = 2 /\ u[1] = r[1] /\ u[2] = r[2]
    BY <2>1
  <2> HIDE DEF t, u
  <2>4. t = u
    BY <2>2, <2>3, SeqEqual
  <2> QED
    BY <2>4 DEF t, u
<1>3. PacketAt(p + 1) = <<2 * p + 1, 2 * p + 2>>
  BY DEF PacketAt
<1> QED
  BY <1>1, <1>2, <1>3 DEF r, IsHead

LEMMA PacketAtIs ==
    ASSUME transport \in Transports, NEW k \in Nat, 1 <= k, 2 * k <= 2 * Len(Packets)
    PROVE  PacketAt(k) \in WholePackets /\ k \in DOMAIN Packets
<1>1. Len(Packets) \in Nat /\ DOMAIN Packets = 1 .. Len(Packets)
  BY UnitsOfPackets
<1>2. 2 * k - 1 \in Units /\ 2 * k \in Units
  BY <1>1 DEF Units
<1> QED
  BY <1>1, <1>2 DEF PacketAt, WholePackets, IsHead

LEMMA PairsAre ==
    ASSUME transport \in Transports, NEW b \in Nat, NEW c \in Nat, b <= c, 2 * c <= 2 * Len(Packets)
    PROVE  /\ Pairs(b, c) \in Seq(WholePackets) /\ Len(Pairs(b, c)) = c - b
           /\ \A i \in 1 .. c - b : Pairs(b, c)[i] = PacketAt(b + i)
           /\ Pairs(b, b) = <<>>
<1> DEFINE n == c - b
<1>1. n \in Nat /\ b <= b + n /\ c = b + n
  OBVIOUS
<1>2. \A i \in 1 .. n : PacketAt(b + i) \in WholePackets
  <2> SUFFICES ASSUME NEW i \in 1 .. n PROVE PacketAt(b + i) \in WholePackets
    OBVIOUS
  <2>1. Len(Packets) \in Nat
    BY UnitsOfPackets
  <2> DEFINE k == b + i
  <2>2. k \in Nat /\ 1 <= k /\ 2 * k <= 2 * Len(Packets)
    BY <1>1, <2>1
  <2> HIDE DEF k
  <2>3. PacketAt(k) \in WholePackets
    BY <2>2, PacketAtIs
  <2> QED
    BY <2>3 DEF k
<1>3. Pairs(b, c) = [i \in 1 .. n |-> PacketAt(b + i)]
  BY DEF Pairs
<1> HIDE DEF n
<1>4. Pairs(b, c) \in [1 .. n -> WholePackets]
  BY <1>2, <1>3
<1>5. Pairs(b, c) \in Seq(WholePackets) /\ Len(Pairs(b, c)) = n
  BY <1>1, <1>4
<1>6. Pairs(b, b) = <<>>
  <2>1. 1 .. b - b = {}
    OBVIOUS
  <2>2. Pairs(b, b) \in [1 .. 0 -> {}]
    BY <2>1 DEF Pairs
  <2>3. Pairs(b, b) \in Seq({}) /\ Len(Pairs(b, b)) = 0
    BY <2>2
  <2> QED
    BY <2>3, EmptySeq
<1> QED
  BY <1>3, <1>5, <1>6 DEF n

LEMMA PairsGrow ==
    ASSUME transport \in Transports, NEW b \in Nat, NEW c \in Nat, b <= c,
           2 * (c + 1) <= 2 * Len(Packets)
    PROVE  Append(Pairs(b, c), PacketAt(c + 1)) = Pairs(b, c + 1)
<1>1. Len(Packets) \in Nat
  BY UnitsOfPackets
<1> DEFINE d == c + 1
           s == Append(Pairs(b, c), PacketAt(d))
<1>2. d \in Nat /\ b <= d /\ 2 * d <= 2 * Len(Packets) /\ 1 <= d /\ d - b = (c - b) + 1 /\ 2 * c <= 2 * Len(Packets)
  BY <1>1
<1> HIDE DEF d
<1>3. /\ Pairs(b, c) \in Seq(WholePackets) /\ Len(Pairs(b, c)) = c - b
      /\ \A i \in 1 .. c - b : Pairs(b, c)[i] = PacketAt(b + i)
  BY <1>2, PairsAre
<1>4. /\ Pairs(b, d) \in Seq(WholePackets) /\ Len(Pairs(b, d)) = d - b
      /\ \A i \in 1 .. d - b : Pairs(b, d)[i] = PacketAt(b + i)
  BY <1>2, PairsAre
<1>5. PacketAt(d) \in WholePackets
  BY <1>2, PacketAtIs
<1>6. s \in Seq(WholePackets) /\ Len(s) = d - b /\ (\A i \in 1 .. c - b : s[i] = Pairs(b, c)[i])
      /\ s[(c - b) + 1] = PacketAt(d)
  BY <1>2, <1>3, <1>5, AppendProperties
<1> HIDE DEF s
<1>7. \A i \in 1 .. d - b : s[i] = PacketAt(b + i)
  <2> SUFFICES ASSUME NEW i \in 1 .. d - b PROVE s[i] = PacketAt(b + i)
    OBVIOUS
  <2>1. CASE i \in 1 .. c - b
    BY <1>3, <1>6, <2>1
  <2>2. CASE i = (c - b) + 1
    <3>1. b + i = d
      BY <1>2, <2>2
    <3> QED
      BY <1>6, <2>2, <3>1
  <2>3. i \in 1 .. c - b \/ i = (c - b) + 1
    BY <1>2
  <2> QED
    BY <2>1, <2>2, <2>3
<1>8. s = Pairs(b, d)
  BY <1>4, <1>6, <1>7, SeqEqual
<1> QED
  BY <1>8 DEF s, d

(* One round of Cut.                                                       *)
CutAt(b, p, e) == [units |-> Run(2 * p, e), packets |-> Pairs(b, p)]
LEMMA CutOne ==
    ASSUME transport \in Transports, NEW b \in Nat, NEW p \in Nat, NEW e \in Nat, b <= p, 2 * p <= e,
           e <= 2 * Len(Packets)
    PROVE  /\ 2 * p + 2 <= e => CutNext(CutAt(b, p, e)) = CutAt(b, p + 1, e)
           /\ e < 2 * p + 2 => CutNext(CutAt(b, p, e)) = CutAt(b, p, e)
<1> DEFINE c == CutAt(b, p, e)
           u == Run(2 * p, e)
           h == 2 * p
<1>1. c.units = u /\ c.packets = Pairs(b, p)
  BY DEF CutAt
<1>2. Len(u) = e - h
  <2>1. h \in Nat /\ h <= e
    OBVIOUS
  <2> HIDE DEF h
  <2> QED
    BY <2>1, RunIs DEF h
<1>3. Len(Packets) \in Nat
  BY UnitsOfPackets
<1>4. ASSUME h + 2 <= e PROVE CutNext(c) = CutAt(b, p + 1, e)
  <2>1. SubSeq(u, 1, 2) = PacketAt(p + 1) /\ IsHead(u[1])
    BY <1>4, RunBegins
  <2>2. From(u, 3) = Run(h + 2, e)
    <3>1. h \in Nat /\ 2 \in Nat /\ h + 2 <= e
      BY <1>4
    <3> HIDE DEF h
    <3>2. From(Run(h, e), 2 + 1) = Run(h + 2, e)
      BY <3>1, RunFrom
    <3> QED
      BY <3>2 DEF h
  <2>3. h + 2 = 2 * (p + 1)
    OBVIOUS
  <2>4. Append(Pairs(b, p), PacketAt(p + 1)) = Pairs(b, p + 1)
    <3>1. 2 * (p + 1) <= 2 * Len(Packets)
      BY <1>3, <1>4
    <3> QED
      BY <3>1, PairsGrow
  <2>5. ~(Len(u) < 2)
    BY <1>2, <1>4
  <2> HIDE DEF c, u, h
  <2>6. CutNext(c) = [units |-> From(c.units, 3), packets |-> Append(c.packets, SubSeq(c.units, 1, 2))]
    BY <1>1, <2>1, <2>5 DEF CutNext, PacketSize
  <2> QED
    BY <1>1, <2>1, <2>2, <2>3, <2>4, <2>6 DEF CutAt
<1>5. ASSUME e < h + 2 PROVE CutNext(c) = c
  <2>1. Len(u) < 2
    BY <1>2, <1>5
  <2> HIDE DEF c, u, h
  <2> QED
    BY <1>1, <2>1 DEF CutNext, PacketSize
<1> QED
  BY <1>4, <1>5

(* Units in a row are cut into the packets they were sent in.              *)
LEMMA CutOfRun ==
    ASSUME transport \in Transports, NEW b \in Nat, NEW c \in Nat, NEW e \in Nat, b <= c, 2 * c <= e,
           e <= 2 * Len(Packets)
    PROVE  Cut(Run(2 * c, e), Pairs(b, c)) = [packets |-> Pairs(b, e \div 2), remaining |-> LeftOf(e)]
<1> DEFINE units == Run(2 * c, e)
           packets == Pairs(b, c)
           L == e - 2 * c
           H == e \div 2
           place(n) == IF c + n <= H THEN c + n ELSE H
<1>1. L \in Nat /\ H \in Nat /\ 2 * H <= e /\ e < 2 * H + 2 /\ c <= H /\ H <= c + L
  OBVIOUS
<1>2. Len(Packets) \in Nat /\ Units = 1 .. 2 * Len(Packets)
  BY UnitsOfPackets DEF Units
<1>3. units \in Seq(Units) /\ Len(units) = L
  <2> DEFINE h == 2 * c
  <2>1. h \in Nat /\ h <= e /\ \A u \in h + 1 .. e : u \in Units
    BY <1>2
  <2> HIDE DEF h
  <2> QED
    BY <2>1, RunIs DEF h
<1>4. packets \in Seq(WholePackets)
  <2>1. 2 * c <= 2 * Len(Packets)
    BY <1>2
  <2> QED
    BY <2>1, PairsAre
<1> HIDE DEF L
<1>5. PICK cut : /\ cut[0] = CutAt(b, c, e)
                 /\ \A n \in 1 .. L : cut[n] = CutNext(cut[n - 1])
                 /\ LET last == cut[L] IN
                    Cut(units, packets) =
                       [packets |-> last.packets,
                        remaining |-> IF last.units # <<>> /\ IsHead(last.units[1]) THEN last.units ELSE <<>>]
  <2> HIDE DEF units, packets
  <2>1. CutAt(b, c, e) = [units |-> units, packets |-> packets]
    BY DEF CutAt, units, packets
  <2> QED
    BY <1>3, <1>4, <2>1, CutRuns
<1> DEFINE T == {n \in 0 .. L : cut[n] = CutAt(b, place(n), e)}
<1> HIDE DEF units, packets, H
<1>6. 0 \in T
  BY <1>1, <1>5
<1>7. ASSUME NEW n \in 1 .. L, n - 1 \in T PROVE n \in T
  <2> DEFINE p == place(n - 1)
  <2>1. p \in Nat /\ b <= p /\ 2 * p <= e
    BY <1>1, <1>7
  <2>2. (c + n <= H => place(n) = p + 1 /\ 2 * p + 2 <= e)
        /\ (H < c + n => place(n) = p /\ p = H /\ e < 2 * p + 2)
    BY <1>1, <1>7
  <2>3. cut[n - 1] = CutAt(b, p, e) /\ n \in 0 .. L
    BY <1>1, <1>7
  <2>4. c + n <= H \/ H < c + n
    BY <1>1
  <2>5. /\ 2 * p + 2 <= e => CutNext(CutAt(b, p, e)) = CutAt(b, p + 1, e)
        /\ e < 2 * p + 2 => CutNext(CutAt(b, p, e)) = CutAt(b, p, e)
    <3> HIDE DEF p
    <3> QED
      BY <2>1, CutOne
  <2>6. cut[n] = CutNext(CutAt(b, p, e))
    BY <1>5, <2>3
  <2> HIDE DEF p, place
  <2> QED
    BY <2>2, <2>3, <2>4, <2>5, <2>6 DEF T
<1>8. L \in T
  <2> HIDE DEF T
  <2>1. \A n \in 0 .. L : n \in T
    BY <1>1, <1>6, <1>7, InductionToLength
  <2> QED
    BY <1>1, <2>1
<1>9. cut[L] = CutAt(b, H, e)
  <2>1. place(L) = H
    BY <1>1
  <2> HIDE DEF place
  <2> QED
    BY <1>8, <2>1
<1> DEFINE left == Run(2 * H, e)
<1>10. cut[L].packets = Pairs(b, H) /\ cut[L].units = left
  BY <1>9 DEF CutAt
<1>11. LeftOf(e) = IF left # <<>> /\ IsHead(left[1]) THEN left ELSE <<>>
  <2> DEFINE h == 2 * H
  <2>1. h \in Nat /\ h <= e /\ e - h \in {0, 1} /\ (IsHead(e) <=> e - h = 1)
    BY <1>1 DEF IsHead, H
  <2> HIDE DEF h
  <2>2. /\ left \in Seq(Nat) /\ Len(left) = e - h
        /\ \A i \in 1 .. e - h : left[i] = h + i
    <3>1. Run(h, e) = left
      BY DEF h
    <3> HIDE DEF left
    <3> QED
      BY <2>1, <3>1, RunInNat
  <2> HIDE DEF left
  <2>3. CASE e - h = 0
    <3>1. left = <<>>
      BY <2>2, <2>3, EmptySeq
    <3> QED
      BY <2>1, <2>3, <3>1 DEF LeftOf
  <2>4. CASE e - h = 1
    <3>1. left[1] = e /\ Len(left) = 1
      BY <2>1, <2>2, <2>4
    <3>2. left = <<e>>
      BY <2>2, <3>1, OneElement
    <3>3. <<e>> # <<>>
      OBVIOUS
    <3> QED
      BY <2>1, <2>4, <3>1, <3>2, <3>3 DEF LeftOf
  <2> QED
    BY <2>1, <2>3, <2>4
<1> HIDE DEF left
<1>12. Cut(units, packets) = [packets |-> Pairs(b, H), remaining |-> LeftOf(e)]
  BY <1>5, <1>10, <1>11
<1> QED
  BY <1>12 DEF units, packets, H

(* What is fed in a row is: what waits for its rest is put in front.       *)
LEMMA FeedOfRun ==
    ASSUME transport \in Transports, NEW h \in Nat, NEW e \in Nat, h <= e, e <= 2 * Len(Packets)
    PROVE  onFeedData(LeftOf(h), Run(h, e)) =
              [packets |-> Pairs(h \div 2, e \div 2), remaining |-> LeftOf(e)]
<1> DEFINE b == h \div 2
           units == Run(h, e)
<1>1. b \in Nat /\ Len(Packets) \in Nat
  BY UnitsOfPackets
<1>2. /\ units \in Seq(Nat) /\ Len(units) = e - h
      /\ \A i \in 1 .. e - h : units[i] = h + i
  BY RunInNat
<1>3. CASE ~IsHead(h)
  <2>1. h = 2 * b /\ LeftOf(h) = <<>>
    BY <1>3 DEF IsHead, LeftOf
  <2>2. Pairs(b, b) = <<>>
    <3>1. 2 * b <= 2 * Len(Packets)
      BY <1>1, <2>1
    <3> HIDE DEF b
    <3> QED
      BY <1>1, <3>1, PairsAre
  <2>3. onFeedData(LeftOf(h), units) = Cut(units, <<>>)
    BY <2>1 DEF onFeedData
  <2>4. Cut(Run(2 * b, e), Pairs(b, b)) = [packets |-> Pairs(b, e \div 2), remaining |-> LeftOf(e)]
    <3>1. 2 * b <= e
      BY <2>1
    <3> HIDE DEF b
    <3> QED
      BY <1>1, <3>1, CutOfRun
  <2> HIDE DEF b
  <2> QED
    BY <2>1, <2>2, <2>3, <2>4 DEF units, b
<1>4. CASE IsHead(h)
  <2>1. h = 2 * b + 1 /\ LeftOf(h) = <<h>> /\ Len(<<h>>) = 1 /\ <<h>> # <<>>
    BY <1>4 DEF IsHead, LeftOf
  <2> HIDE DEF units, b
  <2>2. CASE e = h
    <3>1. units = <<>>
      BY <1>2, <2>2, EmptySeq
    <3>2. onFeedData(LeftOf(h), units) = [packets |-> <<>>, remaining |-> <<h>> \o <<>>]
      <4>1. Len(<<>>) = 0
        OBVIOUS
      <4>2. Len(units) < PacketSize - Len(<<h>>)
        BY <2>1, <3>1, <4>1 DEF PacketSize
      <4>3. onFeedData(<<h>>, units) = [packets |-> <<>>, remaining |-> <<h>> \o units]
        BY <2>1, <4>2 DEF onFeedData
      <4> QED
        BY <2>1, <3>1, <4>3
    <3>3. <<h>> \o <<>> = <<h>>
      OBVIOUS
    <3>4. Pairs(b, b) = <<>>
      <4>1. 2 * b <= 2 * Len(Packets)
        BY <1>1, <2>1
      <4> QED
        BY <1>1, <4>1, PairsAre
    <3>5. onFeedData(LeftOf(h), units) = [packets |-> Pairs(b, b), remaining |-> LeftOf(h)]
      BY <2>1, <3>2, <3>3, <3>4
    <3> QED
      BY <2>2, <3>5 DEF units, b
  <2>3. CASE h < e
    <3> DEFINE c == b + 1
               packet == <<h>> \o SubSeq(units, 1, 1)
    <3>1. units[1] = h + 1 /\ ~(Len(units) < 1)
      BY <1>2, <2>3
    <3>2. SubSeq(units, 1, 1) = <<h + 1>>
      <4> DEFINE t == SubSeq(units, 1, 1)
      <4>1. \A i \in 1 .. 1 : units[i] \in Nat
        BY <3>1
      <4>2. t \in Seq(Nat) /\ Len(t) = 1 /\ t[1] = units[1]
        BY <4>1, SubSeqProperties
      <4> HIDE DEF t
      <4>3. t = <<t[1]>>
        BY <4>2, OneElement
      <4> QED
        BY <3>1, <4>2, <4>3 DEF t
    <3>3. packet = PacketAt(c)
      <4>1. packet = <<h, h + 1>>
        <5>1. ASSUME NEW x \in Nat PROVE <<h>> \o <<x>> = <<h, x>>
          <6>1. <<h>> \in Seq(Nat) /\ <<x>> \in Seq(Nat) /\ <<h, x>> \in Seq(Nat)
            BY <5>1
          <6>2. /\ <<h>> \o <<x>> \in Seq(Nat) /\ Len(<<h>> \o <<x>>) = 2
                /\ \A i \in 1 .. 2 : (<<h>> \o <<x>>)[i] = <<h, x>>[i]
            BY <5>1, <6>1, ConcatProperties
          <6> QED
            BY <6>1, <6>2, SeqEqual
        <5>2. <<h>> \o <<h + 1>> = <<h, h + 1>>
          BY <5>1
        <5> QED
          BY <3>2, <5>2, Zenon
      <4>2. PacketAt(c) = <<h, h + 1>>
        BY <1>1, <2>1 DEF PacketAt
      <4> QED
        BY <4>1, <4>2
    <3>4. c \in Nat /\ b <= c /\ 2 * c <= e /\ 2 * c = h + 1 /\ 2 * (b + 1) <= 2 * Len(Packets) /\ b <= b
          /\ 2 * b <= 2 * Len(Packets)
      BY <1>1, <2>1, <2>3
    <3>5. <<packet>> = Pairs(b, c)
      <4>1. Append(Pairs(b, b), PacketAt(c)) = Pairs(b, c)
        BY <1>1, <3>4, PairsGrow
      <4>2. Pairs(b, b) = <<>>
        BY <1>1, <3>4, PairsAre
      <4>3. Append(<<>>, PacketAt(c)) = <<PacketAt(c)>>
        OBVIOUS
      <4> QED
        BY <3>3, <4>1, <4>2, <4>3
    <3>6. From(units, 2) = Run(2 * c, e)
      <4>1. From(Run(h, e), 1 + 1) = Run(h + 1, e)
        BY <2>3, RunFrom
      <4> QED
        BY <3>4, <4>1 DEF units
    <3> HIDE DEF c, packet
    <3>7. PacketSize - Len(<<h>>) = 1
      BY <2>1 DEF PacketSize
    <3>8. onFeedData(<<h>>, units) = Cut(From(units, 1 + 1), <<packet>>)
      BY <2>1, <3>1, <3>7 DEF onFeedData, packet
    <3>9. Cut(Run(2 * c, e), Pairs(b, c)) = [packets |-> Pairs(b, e \div 2), remaining |-> LeftOf(e)]
      BY <1>1, <3>4, CutOfRun
    <3>10. From(units, 1 + 1) = From(units, 2)
      OBVIOUS
    <3> QED
      BY <2>1, <3>5, <3>6, <3>8, <3>9, <3>10 DEF units, b
  <2> QED
    BY <2>2, <2>3
<1> QED
  BY <1>3, <1>4

(* Messages are posted at the end and taken from the front.                *)
LEMMA AddsAfter ==
    ASSUME NEW S, NEW q \in Seq(S)
    PROVE  /\ \A msg \in S :
                 /\ Adding(Append(q, msg)) = Adding(q) \cup IF msg.what = "add" THEN {msg.pid} ELSE {}
                 /\ msg.what \in {"add", "feed"} /\ OnlyAddsAndFeeds(q) =>
                       OnlyAddsAndFeeds(Append(q, msg))
                 /\ AddsFirst(q) /\ (msg.what # "add" \/ FeedUnits(q) = {}) => AddsFirst(Append(q, msg))
           /\ q # <<>> =>
                 /\ Adding(q) = Adding(Tail(q)) \cup IF Head(q).what = "add" THEN {Head(q).pid} ELSE {}
                 /\ OnlyAddsAndFeeds(q) => OnlyAddsAndFeeds(Tail(q)) /\ Head(q).what \in {"add", "feed"}
                 /\ AddsFirst(q) => AddsFirst(Tail(q)) /\ (Head(q).what = "feed" => Adding(q) = {})
<1> DEFINE L == Len(q)
<1>1. L \in Nat /\ DOMAIN q = 1 .. L
  OBVIOUS
<1>2. ASSUME NEW msg \in S
      PROVE  /\ Adding(Append(q, msg)) = Adding(q) \cup IF msg.what = "add" THEN {msg.pid} ELSE {}
             /\ msg.what \in {"add", "feed"} /\ OnlyAddsAndFeeds(q) => OnlyAddsAndFeeds(Append(q, msg))
             /\ AddsFirst(q) /\ (msg.what # "add" \/ FeedUnits(q) = {}) => AddsFirst(Append(q, msg))
  <2> DEFINE r == Append(q, msg)
  <2>1. DOMAIN r = 1 .. L + 1 /\ r[L + 1] = msg /\ \A i \in 1 .. L : r[i] = q[i]
    BY AppendProperties
  <2> HIDE DEF r
  <2>2. \A i \in DOMAIN r : (i \in DOMAIN q /\ r[i] = q[i]) \/ (i = L + 1 /\ r[i] = msg)
    BY <1>1, <2>1
  <2>3. \A i \in DOMAIN q : i \in DOMAIN r /\ r[i] = q[i] /\ i < L + 1
    BY <1>1, <2>1
  <2>4. L + 1 \in DOMAIN r /\ r[L + 1] = msg
    BY <1>1, <2>1
  <2>5. Adding(r) = Adding(q) \cup IF msg.what = "add" THEN {msg.pid} ELSE {}
    BY <2>2, <2>3, <2>4 DEF Adding
  <2>6. msg.what \in {"add", "feed"} /\ OnlyAddsAndFeeds(q) => OnlyAddsAndFeeds(r)
    BY <2>2 DEF OnlyAddsAndFeeds
  <2>7. FeedUnits(q) = {} => \A i \in DOMAIN q : q[i].what # "feed"
    BY DEF FeedUnits
  <2>8. AddsFirst(q) /\ (msg.what # "add" \/ FeedUnits(q) = {}) => AddsFirst(r)
    BY <2>2, <2>3, <2>7 DEF AddsFirst
  <2> QED
    BY <2>5, <2>6, <2>8 DEF r
<1>3. ASSUME q # <<>>
      PROVE  /\ Adding(q) = Adding(Tail(q)) \cup IF Head(q).what = "add" THEN {Head(q).pid} ELSE {}
             /\ OnlyAddsAndFeeds(q) => OnlyAddsAndFeeds(Tail(q)) /\ Head(q).what \in {"add", "feed"}
             /\ AddsFirst(q) => AddsFirst(Tail(q)) /\ (Head(q).what = "feed" => Adding(q) = {})
  <2> DEFINE t == Tail(q)
  <2>1. Head(q) = q[1] /\ DOMAIN t = 1 .. L - 1 /\ (\A i \in 1 .. L - 1 : t[i] = q[i + 1]) /\ L >= 1
    <3>1. Head(q) = q[1] /\ t \in Seq(S) /\ Len(t) = L - 1 /\ \A i \in 1 .. Len(t) : t[i] = q[i + 1]
      BY <1>3, HeadTailProperties
    <3> HIDE DEF t
    <3>2. L # 0
      BY <1>3, EmptySeq
    <3> QED
      BY <1>1, <3>1, <3>2
  <2> HIDE DEF t
  <2>2. 1 \in DOMAIN q /\ \A i \in DOMAIN t : i + 1 \in DOMAIN q /\ t[i] = q[i + 1]
    BY <1>1, <2>1
  <2>3. \A i \in DOMAIN q : i = 1 \/ (i - 1 \in DOMAIN t /\ t[i - 1] = q[i])
    BY <1>1, <2>1
  <2>4. Adding(q) = Adding(t) \cup IF Head(q).what = "add" THEN {Head(q).pid} ELSE {}
    <3> DEFINE A == IF Head(q).what = "add" THEN {Head(q).pid} ELSE {}
    <3>1. ASSUME NEW pid \in Adding(q) PROVE pid \in Adding(t) \cup A
      <4>1. PICK i \in DOMAIN q : q[i].what = "add" /\ pid = q[i].pid
        BY <3>1 DEF Adding
      <4>2. i = 1 \/ (i - 1 \in DOMAIN t /\ t[i - 1] = q[i])
        BY <2>3
      <4> QED
        BY <2>1, <4>1, <4>2 DEF Adding
    <3>2. Adding(t) \subseteq Adding(q)
      BY <2>2 DEF Adding
    <3>3. A \subseteq Adding(q)
      BY <2>1, <2>2 DEF Adding
    <3> QED
      BY <3>1, <3>2, <3>3
  <2>5. OnlyAddsAndFeeds(q) => OnlyAddsAndFeeds(t) /\ Head(q).what \in {"add", "feed"}
    BY <2>1, <2>2 DEF OnlyAddsAndFeeds
  <2>6. AddsFirst(q) => AddsFirst(t)
    <3> SUFFICES ASSUME AddsFirst(q), NEW i \in DOMAIN t, NEW j \in DOMAIN t,
                        t[i].what = "feed", t[j].what = "add"
                 PROVE  j < i
      BY DEF AddsFirst
    <3>1. i \in Nat /\ j \in Nat
      BY <1>1, <2>1
    <3>2. j + 1 < i + 1
      BY <2>2 DEF AddsFirst
    <3> QED
      BY <3>1, <3>2
  <2>7. AddsFirst(q) /\ Head(q).what = "feed" => Adding(q) = {}
    <3> SUFFICES ASSUME AddsFirst(q), Head(q).what = "feed", NEW i \in DOMAIN q, q[i].what = "add"
                 PROVE  FALSE
      BY DEF Adding
    <3>1. i < 1
      BY <2>1, <2>2 DEF AddsFirst
    <3> QED
      BY <1>1, <3>1
  <2> QED
    BY <2>4, <2>5, <2>6, <2>7 DEF t
<1> HIDE DEF L
<1> QED
  BY <1>2, <1>3

(* Nothing but transport and channels tells what packets make of a parser. *)
LEMMA ParsingMeans ==
    ASSUME transport' = transport
    PROVE  /\ \A C : Joined(C)' = Joined(C)
           /\ NoVersions' = NoVersions /\ NothingGiven' = NothingGiven
           /\ mChannels' = mChannels =>
                 Begun' = Begun /\ \A f, packet : parseTS(f, packet)' = parseTS(f, packet)
<1>1. Pids' = Pids /\ Packets' = Packets
  BY DEF Pids, Packets
<1>2. \A pid : IsSection(pid)' <=> IsSection(pid)
  BY DEF IsSection
<1>3. \A C : Joined(C)' = Joined(C)
  <2>1. \A C : /\ {s \in C : IsSection(s)}' = {s \in C : IsSection(s)}
               /\ {s \in C : ~IsSection(s)}' = {s \in C : ~IsSection(s)}
    BY <1>2
  <2> QED
    BY <2>1 DEF Joined
<1>4. NoVersions' = NoVersions /\ NothingGiven' = NothingGiven
  BY <1>1 DEF NoVersions, NothingGiven
<1>5. ASSUME mChannels' = mChannels PROVE Begun' = Begun
  <2>1. Joined(mChannels)' = Joined(mChannels)
    <3>1. Joined(mChannels)' = Joined(mChannels') 
      BY <1>5, <1>2 DEF Joined
    <3> QED
      BY <1>5, <3>1
  <2> QED
    BY <1>4, <2>1 DEF Begun
<1>6. \A packet : HeaderOf(packet)' = HeaderOf(packet) /\ PayloadOf(packet)' = PayloadOf(packet)
  <2>1. \A packet, i : CellOf(packet, i)' = CellOf(packet, i)
    BY <1>1 DEF CellOf
  <2>2. \A packet : PayloadOf(packet)' = PayloadOf(packet)
    BY <2>1 DEF PayloadOf
  <2>3. \A packet : HeaderOf(packet)' = HeaderOf(packet)
    BY <1>1 DEF HeaderOf
  <2> QED
    BY <2>2, <2>3
<1>7. \A p, header, data : parsePID(p, header, data)' = parsePID(p, header, data)
  <2>1. \A cells : ChecksumRight(cells)' <=> ChecksumRight(cells)
    BY DEF ChecksumRight
  <2>2. \A section : parseSection(section)' <=> parseSection(section)
    BY <2>1 DEF parseSection
  <2>3. \A p, pid, start, data :
            ParseSectionPid(p, pid, start, data)' = ParseSectionPid(p, pid, start, data)
    BY <2>2 DEF ParseSectionPid, SectionTaken
  <2> QED
    BY <2>3 DEF parsePID
<1>8. ASSUME mChannels' = mChannels PROVE \A f, packet : parseTS(f, packet)' = parseTS(f, packet)
  <2>1. \A f, pid, r : notifyListener(f, pid, r)' = notifyListener(f, pid, r)
    BY <1>8 DEF notifyListener
  <2> QED
    BY <1>6, <1>7, <2>1 DEF parseTS
<1> QED
  BY <1>3, <1>4, <1>5, <1>8

(* What was parsed stays what it is while parser and filters are left      *)
(* alone and no channel is added.                                          *)
LEMMA FedKept ==
    ASSUME transport' = transport, mChannels' = mChannels, parser' = parser, mVersion' = mVersion,
           delivered' = delivered, Adding(queue') = Adding(queue), NEW h, FedUpto(h)
    PROVE  FedUpto(h)'
<1>1. Adding(queue)' = Adding(queue)
  BY DEF Adding
<1>2. /\ \A C : Joined(C)' = Joined(C)
      /\ NoVersions' = NoVersions /\ NothingGiven' = NothingGiven /\ Begun' = Begun
      /\ \A f, packet : parseTS(f, packet)' = parseTS(f, packet)
      /\ Pids' = Pids
  BY ParsingMeans, Meanings
<1>3. Begins => Begins'
  <2> SUFFICES ASSUME Begins PROVE Begins'
    OBVIOUS
  <2>1. mVersion' = NoVersions /\ delivered' = NothingGiven
    BY DEF Begins
  <2>2. PICK C \in SUBSET Pids : parser = Joined(C) /\ C \cup Adding(queue) = mChannels
    BY DEF Begins
  <2>3. C \in SUBSET Pids' /\ parser' = Joined(C)' /\ C \cup Adding(queue)' = mChannels'
    BY <1>1, <1>2, <2>2
  <2> QED
    BY <1>2, <2>1, <2>3 DEF Begins
<1>4. \A g, n : IsFed(g, n) => IsFed(g, n)'
  <2>1. Result' = Result
    BY DEF Result
  <2> QED
    BY <1>2, <2>1 DEF IsFed
<1> QED
  BY <1>1, <1>3, <1>4 DEF FedUpto

(* As long as nothing was fed the parser knows of the channels, or will.   *)
LEMMA FedIsBegun ==
    ASSUME mChannels \subseteq Pids, FedUpto(0)
    PROVE  Begins
<1>1. CASE Begins
  BY <1>1
<1>2. CASE Adding(queue) = {} /\ \E g : IsFed(g, 0 \div 2)
  <2>1. Result = Begun
    BY <1>2 DEF IsFed
  <2>2. parser = Joined(mChannels) /\ mVersion = NoVersions /\ delivered = NothingGiven
    BY <2>1 DEF Result, Begun
  <2> QED
    BY <1>2, <2>2 DEF Begins
<1> QED
  BY <1>1, <1>2 DEF FedUpto

IsResult(f) == f = [p |-> f.p, version |-> f.version, delivered |-> f.delivered]
LEMMA PacketResult ==
    ASSUME NEW f, IsResult(f), NEW packet
    PROVE  IsResult(parseTS(f, packet))
<1> DEFINE header == HeaderOf(packet)
           r == parsePID(f.p, header, PayloadOf(packet))
           told == [f.version EXCEPT ![header.pid] = r.version]
           given == [f.delivered EXCEPT ![header.pid] = @ \o r.out]
           g == [p |-> r.p, version |-> told, delivered |-> given]
<1>1. parseTS(f, packet) \in {f, [f EXCEPT !.p = r.p], g}
  BY DEF parseTS, notifyListener
<1> HIDE DEF r, told, given
<1>2. IsResult(g)
  BY DEF IsResult
<1>3. [f EXCEPT !.p = r.p] = [p |-> r.p, version |-> f.version, delivered |-> f.delivered]
  <2> DEFINE v == f.version
             d == f.delivered
             x == f.p
  <2>1. f = [p |-> x, version |-> v, delivered |-> d]
    BY DEF IsResult
  <2> HIDE DEF v, d, x
  <2>2. [f EXCEPT !.p = r.p] = [p |-> r.p, version |-> v, delivered |-> d]
    BY <2>1
  <2> QED
    BY <2>2 DEF v, d
<1>4. IsResult([f EXCEPT !.p = r.p])
  BY <1>3 DEF IsResult
<1> HIDE DEF g
<1> QED
  BY <1>1, <1>2, <1>4

(* A packet of a row after the other.                                      *)
LEMMA RowGoesOn ==
    ASSUME transport \in Transports, NEW b \in Nat, NEW c \in Nat, b <= c, 2 * c <= 2 * Len(Packets),
           NEW g, IsFed(g, b)
    PROVE  \E k : /\ k[0] = Begun /\ \A n \in 1 .. c : k[n] = parseTS(k[n - 1], PacketAt(n))
                  /\ feedTs(Pairs(b, c)) = k[c] /\ IsResult(k[c])
<1> DEFINE packets == Pairs(b, c)
           m == c - b
<1>1. Len(packets) = m /\ \A i \in 1 .. m : packets[i] = PacketAt(b + i)
  BY PairsAre
<1>2. m \in Nat /\ b + m = c
  OBVIOUS
<1>3. PICK f : /\ f[0] = [p |-> parser, version |-> mVersion, delivered |-> delivered]
               /\ \A n \in 1 .. m : f[n] = parseTS(f[n - 1], packets[n])
               /\ feedTs(packets) = f[m]
  <2> HIDE DEF packets, m
  <2>1. Len(packets) \in Nat
    BY <1>1, <1>2
  <2>2. PICK f : /\ f[0] = [p |-> parser, version |-> mVersion, delivered |-> delivered]
                 /\ \A n \in 1 .. Len(packets) : f[n] = parseTS(f[n - 1], packets[n])
                 /\ feedTs(packets) = f[Len(packets)]
    BY <2>1, FeedRuns
  <2> QED
    BY <1>1, <2>2
<1>4. f[0] = g[b] /\ g[0] = Begun /\ \A n \in 1 .. b : g[n] = parseTS(g[n - 1], PacketAt(n))
  BY <1>3 DEF IsFed, Result
<1> HIDE DEF m, packets
<1> DEFINE k == [n \in 0 .. c |-> IF n <= b THEN g[n] ELSE f[n - b]]
<1>5. k[0] = Begun
  BY <1>4
<1>6. ASSUME NEW n \in 1 .. c PROVE k[n] = parseTS(k[n - 1], PacketAt(n))
  <2>1. n - 1 \in 0 .. c /\ n \in 0 .. c
    OBVIOUS
  <2>2. CASE n <= b
    <3>1. k[n] = g[n] /\ k[n - 1] = g[n - 1]
      BY <2>1, <2>2
    <3>2. g[n] = parseTS(g[n - 1], PacketAt(n))
      BY <1>4, <2>2
    <3> HIDE DEF k
    <3> QED
      BY <3>1, <3>2
  <2>3. CASE b < n
    <3> DEFINE i == n - b
    <3>1. i \in 1 .. m /\ b + i = n /\ ~(n <= b) /\ i - 1 = (n - 1) - b
      BY <1>2, <2>3
    <3>2. k[n] = f[i]
      BY <2>1, <3>1
    <3>3. k[n - 1] = f[i - 1]
      <4>1. CASE n - 1 = b
        BY <1>4, <2>1, <3>1, <4>1
      <4>2. CASE ~(n - 1 <= b)
        BY <2>1, <3>1, <4>2
      <4> QED
        BY <2>3, <4>1, <4>2
    <3> HIDE DEF k, i
    <3>4. f[i] = parseTS(f[i - 1], packets[i]) /\ packets[i] = PacketAt(b + i)
      BY <1>1, <1>3, <3>1
    <3> QED
      BY <3>1, <3>2, <3>3, <3>4
  <2> QED
    BY <2>2, <2>3
<1>7. k[c] = f[m]
  <2>1. c \in 0 .. c
    OBVIOUS
  <2>2. CASE c = b
    <3>1. m = 0
      BY <1>2, <2>2
    <3>2. k[c] = g[b]
      BY <2>1, <2>2
    <3> HIDE DEF k
    <3> QED
      BY <1>4, <3>1, <3>2
  <2>3. CASE b < c
    <3>1. c - b = m
      BY <1>2
    <3> QED
      BY <2>1, <2>3, <3>1
  <2> QED
    BY <2>2, <2>3
<1> HIDE DEF k
<1>8. feedTs(packets) = k[c]
  BY <1>3, <1>7
<1>9. IsResult(k[c])
  <2> DEFINE T == {n \in 0 .. c : IsResult(k[n])}
  <2>1. 0 \in T
    BY <1>5 DEF IsResult, Begun
  <2>2. \A n \in 1 .. c : n - 1 \in T => n \in T
    BY <1>6, PacketResult
  <2> HIDE DEF T
  <2>3. \A n \in 0 .. c : n \in T
    BY <2>1, <2>2, InductionToLength
  <2>4. c \in T
    BY <2>3
  <2> QED
    BY <2>4 DEF T
<1> QED
  BY <1>5, <1>6, <1>8, <1>9 DEF packets

LEMMA CleanInitial == SwInit => CleanOK
<1> SUFFICES ASSUME SwInit PROVE CleanOK
  OBVIOUS
<1> USE DEF SwInit
<1>1. DOMAIN <<>> = {}
  OBVIOUS
<1>2. FeedUnits(queue) = {} /\ Adding(queue) = {} /\ OnlyAddsAndFeeds(queue) /\ AddsFirst(queue)
  BY <1>1 DEF FeedUnits, Adding, OnlyAddsAndFeeds, AddsFirst
<1>3. Joined({}) = NewParser
  <2>1. {0, 1} \cup {s \in {} : IsSection(s)} = {0, 1}
    OBVIOUS
  <2>2. {s \in {} : ~IsSection(s)} = {}
    OBVIOUS
  <2>3. [pid \in {} |-> NewStream(transport.codec[pid])] = <<>>
    <3> DEFINE f == [pid \in {} |-> NewStream(transport.codec[pid])]
    <3>1. f \in [1 .. 0 -> {}]
      OBVIOUS
    <3> HIDE DEF f
    <3>2. f \in Seq({}) /\ Len(f) = 0
      BY <3>1
    <3>3. f = <<>>
      BY <3>2, EmptySeq
    <3> QED
      BY <3>3 DEF f
  <2> QED
    BY <2>1, <2>2, <2>3 DEF Joined, NewParser
<1>4. Begins
  <2>1. mVersion = NoVersions /\ delivered = NothingGiven
    BY DEF NoVersions, NothingGiven
  <2>2. {} \in SUBSET Pids /\ parser = Joined({}) /\ {} \cup Adding(queue) = mChannels
    BY <1>2, <1>3
  <2> QED
    BY <2>1, <2>2 DEF Begins
<1>5. HandledUpto(0)
  <2>1. LeftOf(0) = <<>>
    BY DEF LeftOf, IsHead
  <2>2. feeder.at # "posting"
    BY DEF Idle
  <2> QED
    BY <1>2, <1>4, <2>1, <2>2 DEF HandledUpto, FedUpto
<1>6. 0 \in 0 .. sent
  OBVIOUS
<1> QED
  BY <1>2, <1>5, <1>6 DEF CleanOK

(* A step that leaves what was parsed, and what waits, alone.              *)
LEMMA HandledKept ==
    ASSUME transport' = transport, mChannels' = mChannels, parser' = parser, mVersion' = mVersion,
           delivered' = delivered, mRemainingBytesBuffer' = mRemainingBytesBuffer,
           Adding(queue') = Adding(queue), NEW h, HandledUpto(h),
           feeder'.at = "posting" => chunk' = Run(h, sent'),
           \A units \in FeedUnits(queue') : units = Run(h, sent'),
           feeder' = Idle => h = sent'
    PROVE  HandledUpto(h)'
<1>1. FedUpto(h)'
  BY FedKept DEF HandledUpto
<1>2. mRemainingBytesBuffer' = LeftOf(h)
  BY DEF HandledUpto
<1>3. FeedUnits(queue)' = FeedUnits(queue')
  BY DEF FeedUnits
<1>4. LeftOf(h)' = LeftOf(h) /\ Run(h, sent)' = Run(h, sent') /\ Idle' = Idle
  BY DEF LeftOf, IsHead, Run, Idle
<1> QED
  BY <1>1, <1>2, <1>3, <1>4 DEF HandledUpto

LEMMA FeedersStayClean == SectionsInv /\ OneFeed /\ CleanOK /\ Feeds /\ clean' => clean /\ CleanOK'
<1> SUFFICES ASSUME SectionsInv, OneFeed, CleanOK, Feeds, clean' PROVE clean /\ CleanOK'
  OBVIOUS
<1> USE DEF threads, demux, base
<1>1. /\ looping /\ controller = Idle /\ (sent = 0 => feeder = Idle)
      /\ OnlyAddsAndFeeds(queue) /\ AddsFirst(queue)
  BY DEF CleanOK
<1>2. PICK h \in 0 .. sent : HandledUpto(h)
  BY DEF CleanOK
<1>3. sent \in Nat /\ queue \in Seq(Messages) /\ (FeedUnits(queue) # {} => feeder.at = "waiting")
  BY UnitsOfPackets DEF SectionsInv, ThreadsOK, OneFeed
<1>4. Idle.at = "idle" /\ Blocked.at = "waiting"
  BY DEF Idle, Blocked
<1>5. ASSUME NEW n \in 1 .. MaxChunk, FeedTs(n) PROVE clean /\ CleanOK'
  <2>1. /\ feeder = Idle /\ chunk' = [i \in 1 .. n |-> sent + i] /\ sent' = sent + n
        /\ feeder'.at = "posting" /\ transport' = transport /\ queue' = queue /\ looping' = looping
        /\ controller' = controller /\ mChannels' = mChannels /\ parser' = parser
        /\ mVersion' = mVersion /\ delivered' = delivered /\ clean' = clean
        /\ mRemainingBytesBuffer' = mRemainingBytesBuffer
    BY <1>5 DEF FeedTs
  <2>2. n \in Nat /\ n >= 1
    BY TransportsAssumption
  <2>3. h = sent /\ FeedUnits(queue) = {}
    BY <1>2, <1>3, <1>4, <2>1 DEF HandledUpto
  <2>4. chunk' = Run(h, sent')
    <3>1. sent' - h = n
      BY <1>3, <2>1, <2>2, <2>3
    <3> QED
      BY <2>1, <2>3, <3>1 DEF Run
  <2>5. HandledUpto(h)'
    BY <1>2, <1>4, <2>1, <2>3, <2>4, HandledKept
  <2>6. h \in 0 .. sent' /\ sent' # 0
    BY <1>2, <1>3, <2>1, <2>2
  <2> QED
    BY <1>1, <2>1, <2>5, <2>6 DEF CleanOK, OnlyAddsAndFeeds, AddsFirst, Idle
<1>6. ASSUME Lose PROVE FALSE
  BY <1>6 DEF Lose
<1>7. ASSUME PostFeed PROVE clean /\ CleanOK'
  <2> DEFINE msg == [what |-> "feed", units |-> chunk, generation |-> feeder.generation]
  <2>1. /\ feeder.at = "posting" /\ feeder' = Blocked /\ queue' = Append(queue, msg)
        /\ sent' = sent /\ transport' = transport /\ looping' = looping
        /\ controller' = controller /\ mChannels' = mChannels /\ parser' = parser
        /\ mVersion' = mVersion /\ delivered' = delivered /\ clean' = clean
        /\ mRemainingBytesBuffer' = mRemainingBytesBuffer
    BY <1>1, <1>7 DEF PostFeed, Post
  <2>2. msg \in Messages /\ msg.what = "feed" /\ msg.units = chunk
    BY <2>1 DEF SectionsInv, ThreadsOK, Messages
  <2> HIDE DEF msg
  <2>3. FeedUnits(queue) = {} /\ chunk = Run(h, sent)
    BY <1>2, <1>3, <2>1 DEF HandledUpto
  <2>4. FeedUnits(queue') \subseteq {chunk}
    <3>1. OnlyFeed(queue)
      BY DEF OneFeed
    <3>2. FeedUnits(Append(queue, msg)) \subseteq FeedUnits(queue) \cup {msg.units}
      BY <1>3, <2>2, <3>1, FeedsAfter
    <3> QED
      BY <2>1, <2>2, <2>3, <3>2
  <2>5. Adding(queue') = Adding(queue) /\ OnlyAddsAndFeeds(queue') /\ AddsFirst(queue')
    <3>1. /\ Adding(Append(queue, msg)) =
                Adding(queue) \cup IF msg.what = "add" THEN {msg.pid} ELSE {}
          /\ OnlyAddsAndFeeds(Append(queue, msg)) /\ AddsFirst(Append(queue, msg))
      BY <1>1, <1>3, <2>2, AddsAfter
    <3> QED
      BY <2>1, <2>2, <3>1
  <2>6. feeder' # Idle /\ feeder'.at # "posting"
    BY <1>4, <2>1
  <2>7. HandledUpto(h)'
    BY <1>2, <2>1, <2>3, <2>4, <2>5, <2>6, HandledKept
  <2>8. sent' # 0 /\ h \in 0 .. sent'
    BY <1>1, <1>2, <1>4, <2>1
  <2> QED
    BY <1>1, <2>1, <2>5, <2>7, <2>8 DEF CleanOK, OnlyAddsAndFeeds, AddsFirst, Idle
<1> QED
  BY <1>5, <1>6, <1>7 DEF Feeds

LEMMA ControlsStayClean == SectionsInv /\ OneFeed /\ CleanOK /\ Controls /\ clean' => clean /\ CleanOK'
<1> SUFFICES ASSUME SectionsInv, OneFeed, CleanOK, Controls, clean' PROVE clean /\ CleanOK'
  OBVIOUS
<1> USE DEF threads, demux, base
<1>1. /\ looping /\ controller = Idle /\ (sent = 0 => feeder = Idle)
      /\ OnlyAddsAndFeeds(queue) /\ AddsFirst(queue)
  BY DEF CleanOK
<1>2. PICK h \in 0 .. sent : HandledUpto(h)
  BY DEF CleanOK
<1>3. sent \in Nat /\ queue \in Seq(Messages) /\ (FeedUnits(queue) # {} => feeder.at = "waiting")
      /\ mChannels \subseteq Pids
  BY UnitsOfPackets DEF SectionsInv, ThreadsOK, OneFeed
<1>4. Idle.at = "idle" /\ Blocked.at = "waiting"
  BY DEF Idle, Blocked
<1>5. ASSUME NEW after, Flush(after) PROVE FALSE
  BY <1>5 DEF Flush
<1>6. ASSUME PostFlush PROVE FALSE
  BY <1>1, <1>4, <1>6 DEF PostFlush
<1>7. ASSUME NEW pid, RemoveDemuxFilter(pid) PROVE FALSE
  BY <1>7 DEF RemoveDemuxFilter
<1>8. ASSUME Close PROVE FALSE
  BY <1>1, <1>4, <1>8 DEF Close
<1>9. ASSUME Stop PROVE clean /\ CleanOK'
  <2>1. /\ feeder' = feeder /\ queue' = queue /\ chunk' = chunk
        /\ sent' = sent /\ transport' = transport /\ looping' = looping
        /\ controller' = controller /\ mChannels' = mChannels /\ parser' = parser
        /\ mVersion' = mVersion /\ delivered' = delivered /\ clean' = clean
        /\ mRemainingBytesBuffer' = mRemainingBytesBuffer
    BY <1>9 DEF Stop
  <2>2. HandledUpto(h)'
    <3>1. /\ feeder.at = "posting" => chunk = Run(h, sent)
          /\ \A units \in FeedUnits(queue) : units = Run(h, sent)
          /\ feeder = Idle => h = sent
      BY <1>2 DEF HandledUpto
    <3> QED
      BY <1>2, <2>1, <3>1, HandledKept
  <2> QED
    BY <1>1, <1>2, <2>1, <2>2 DEF CleanOK, OnlyAddsAndFeeds, AddsFirst, Idle
<1>10. ASSUME NEW pid \in Pids, AddDemuxFilter(pid) PROVE clean /\ CleanOK'
  <2> DEFINE msg == [what |-> "add", pid |-> pid]
  <2>1. /\ feeder' = feeder /\ queue' = Append(queue, msg) /\ chunk' = chunk
        /\ sent' = sent /\ transport' = transport /\ looping' = looping
        /\ controller' = controller /\ mChannels' = mChannels \cup {pid} /\ parser' = parser
        /\ mVersion' = [mVersion EXCEPT ![pid] = -1] /\ delivered' = delivered
        /\ clean /\ sent = 0
        /\ mRemainingBytesBuffer' = mRemainingBytesBuffer
    BY <1>1, <1>10 DEF AddDemuxFilter, Post
  <2>2. msg \in Messages /\ msg.what = "add" /\ msg.pid = pid
    BY <1>10 DEF Messages
  <2> HIDE DEF msg
  <2>3. feeder = Idle /\ h = 0 /\ FeedUnits(queue) = {}
    BY <1>1, <1>2, <1>3, <1>4, <2>1
  <2>4. Begins
    BY <1>2, <1>3, <2>3, FedIsBegun DEF HandledUpto
  <2>5. /\ Adding(queue') = Adding(queue) \cup {pid} /\ OnlyAddsAndFeeds(queue') /\ AddsFirst(queue')
    <3>1. /\ Adding(Append(queue, msg)) =
                Adding(queue) \cup IF msg.what = "add" THEN {msg.pid} ELSE {}
          /\ OnlyAddsAndFeeds(Append(queue, msg)) /\ AddsFirst(Append(queue, msg))
      BY <1>1, <1>3, <2>2, <2>3, AddsAfter
    <3> QED
      BY <2>1, <2>2, <3>1
  <2>6. FeedUnits(queue') = {}
    <3>1. OnlyFeed(queue)
      BY DEF OneFeed
    <3>2. FeedUnits(Append(queue, msg)) \subseteq
              FeedUnits(queue) \cup IF msg.what = "feed" THEN {msg.units} ELSE {}
      BY <1>3, <2>2, <3>1, FeedsAfter
    <3> QED
      BY <2>1, <2>2, <2>3, <3>2
  <2>7. Begins'
    <3>1. /\ \A C : Joined(C)' = Joined(C)
          /\ NoVersions' = NoVersions /\ NothingGiven' = NothingGiven /\ Pids' = Pids
      BY <2>1, ParsingMeans, Meanings
    <3>2. mVersion' = NoVersions /\ delivered' = NothingGiven
      <4>1. mVersion = NoVersions /\ delivered = NothingGiven
        BY <2>4 DEF Begins
      <4>2. [NoVersions EXCEPT ![pid] = -1] = NoVersions
        BY DEF NoVersions
      <4> QED
        BY <2>1, <4>1, <4>2
    <3>3. PICK C \in SUBSET Pids : parser = Joined(C) /\ C \cup Adding(queue) = mChannels
      BY <2>4 DEF Begins
    <3>4. C \in SUBSET Pids' /\ parser' = Joined(C)' /\ C \cup Adding(queue)' = mChannels'
      <4>1. Adding(queue)' = Adding(queue')
        BY DEF Adding
      <4> QED
        BY <2>1, <2>5, <3>1, <3>3, <4>1
    <3> QED
      BY <3>1, <3>2, <3>4 DEF Begins
  <2>8. HandledUpto(0)'
    <3>1. FeedUnits(queue)' = FeedUnits(queue')
      BY DEF FeedUnits
    <3>2. mRemainingBytesBuffer' = LeftOf(0)' /\ LeftOf(0)' = LeftOf(0) /\ Idle' = Idle
      BY <1>2, <2>1, <2>3 DEF HandledUpto, LeftOf, IsHead, Idle
    <3> QED
      BY <1>4, <2>1, <2>3, <2>6, <2>7, <3>1, <3>2 DEF HandledUpto, FedUpto
  <2>9. 0 \in 0 .. sent'
    BY <2>1
  <2> QED
    BY <1>1, <2>1, <2>3, <2>5, <2>8, <2>9 DEF CleanOK, OnlyAddsAndFeeds, AddsFirst, Idle
<1> QED
  BY <1>5, <1>6, <1>7, <1>8, <1>9, <1>10 DEF Controls

(* The parser hears of a channel.                                          *)
LEMMA JoinedWith ==
    ASSUME NEW C, NEW pid
    PROVE  /\ IsSection(pid) =>
                 [Joined(C) EXCEPT !.psi = Entered(@, {pid}, NewSection)] = Joined(C \cup {pid})
           /\ ~IsSection(pid) =>
                 [Joined(C) EXCEPT !.streams = Entered(@, {pid}, NewStream(transport.codec[pid]))]
                     = Joined(C \cup {pid})
<1> DEFINE D == C \cup {pid}
           psi(X) == [s \in {0, 1} \cup {x \in X : IsSection(x)} |-> NewSection]
           streams(X) == [s \in {x \in X : ~IsSection(x)} |-> NewStream(transport.codec[s])]
<1>1. \A X : Joined(X) = [psi |-> psi(X), streams |-> streams(X), programMapPID |-> NoPmt]
  BY DEF Joined
<1>2. CASE IsSection(pid)
  <2>1. Entered(psi(C), {pid}, NewSection) = psi(D)
    <3>1. DOMAIN psi(C) \cup {pid} = {0, 1} \cup {x \in D : IsSection(x)}
      BY <1>2
    <3>2. \A s \in DOMAIN psi(C) : psi(C)[s] = NewSection
      OBVIOUS
    <3> QED
      BY <3>1, <3>2 DEF Entered
  <2>2. streams(D) = streams(C)
    <3>1. {x \in D : ~IsSection(x)} = {x \in C : ~IsSection(x)}
      BY <1>2
    <3> QED
      BY <3>1
  <2> HIDE DEF psi, streams
  <2>3. [Joined(C) EXCEPT !.psi = Entered(@, {pid}, NewSection)]
            = [psi |-> Entered(psi(C), {pid}, NewSection), streams |-> streams(C), programMapPID |-> NoPmt]
    BY <1>1
  <2> HIDE DEF D
  <2> QED
    BY <1>1, <1>2, <2>1, <2>2, <2>3 DEF D
<1>3. CASE ~IsSection(pid)
  <2> DEFINE new == NewStream(transport.codec[pid])
  <2>1. Entered(streams(C), {pid}, new) = streams(D)
    <3>1. DOMAIN streams(C) \cup {pid} = {x \in D : ~IsSection(x)} /\ DOMAIN streams(C) = {x \in C : ~IsSection(x)}
      BY <1>3
    <3>2. \A s \in DOMAIN streams(C) : streams(C)[s] = NewStream(transport.codec[s])
      OBVIOUS
    <3>3. \A s \in DOMAIN streams(C) \cup {pid} : s \notin DOMAIN streams(C) => s = pid
      OBVIOUS
    <3> HIDE DEF D
    <3>4. Entered(streams(C), {pid}, new)
              = [s \in {x \in D : ~IsSection(x)} |->
                    IF s \in DOMAIN streams(C) THEN streams(C)[s] ELSE new]
      BY <3>1 DEF Entered
    <3>5. \A s \in {x \in D : ~IsSection(x)} :
              (IF s \in DOMAIN streams(C) THEN streams(C)[s] ELSE new) = NewStream(transport.codec[s])
      <4> SUFFICES ASSUME NEW s \in {x \in D : ~IsSection(x)}
                   PROVE  (IF s \in DOMAIN streams(C) THEN streams(C)[s] ELSE new) = NewStream(transport.codec[s])
        OBVIOUS
      <4>1. CASE s \in DOMAIN streams(C)
        BY <3>2, <4>1
      <4>2. CASE s \notin DOMAIN streams(C)
        <5>1. s = pid
          BY <3>1, <3>3, <4>2
        <5> QED
          BY <4>2, <5>1
      <4> QED
        BY <4>1, <4>2
    <3> QED
      BY <3>4, <3>5
  <2>2. psi(D) = psi(C)
    <3>1. {x \in D : IsSection(x)} = {x \in C : IsSection(x)}
      BY <1>3
    <3> QED
      BY <3>1
  <2> HIDE DEF psi, streams, new
  <2>3. [Joined(C) EXCEPT !.streams = Entered(@, {pid}, new)]
            = [psi |-> psi(C), streams |-> Entered(streams(C), {pid}, new), programMapPID |-> NoPmt]
    BY <1>1
  <2> HIDE DEF D
  <2> QED
    BY <1>1, <1>3, <2>1, <2>2, <2>3 DEF D, new
<1> QED
  BY <1>2, <1>3

LEMMA HandlersStayClean == SectionsInv /\ OneFeed /\ CleanOK /\ Handles /\ clean' => clean /\ CleanOK'
<1> SUFFICES ASSUME SectionsInv, OneFeed, CleanOK, Handles, clean' PROVE clean /\ CleanOK'
  OBVIOUS
<1> USE DEF threads, demux, base
<1>1. /\ looping /\ controller = Idle /\ (sent = 0 => feeder = Idle)
      /\ OnlyAddsAndFeeds(queue) /\ AddsFirst(queue)
  BY DEF CleanOK
<1>2. PICK h \in 0 .. sent : HandledUpto(h)
  BY DEF CleanOK
<1>3. sent \in Nat /\ queue \in Seq(Messages) /\ (FeedUnits(queue) # {} => feeder.at = "waiting")
      /\ mChannels \subseteq Pids /\ OnlyFeed(queue) /\ transport \in Transports
      /\ sent <= 2 * Len(Packets)
  BY UnitsOfPackets DEF SectionsInv, ThreadsOK, OneFeed
<1>4. Idle.at = "idle" /\ Blocked.at = "waiting"
  BY DEF Idle, Blocked
<1>5. queue # <<>> /\ queue' = Tail(queue) /\ Head(queue) \in Messages /\ transport' = transport
      /\ sent' = sent /\ chunk' = chunk /\ looping' = looping /\ mChannels' = mChannels
  <2>1. queue # <<>> /\ queue' = Tail(queue) /\ transport' = transport /\ sent' = sent
        /\ chunk' = chunk /\ looping' = looping /\ mChannels' = mChannels
    BY DEF Handles, HandleFeed, HandleFlush, HandleAdd, HandleRemove
  <2> QED
    BY <2>1, Queued
<1>6. /\ Adding(queue) = Adding(queue') \cup IF Head(queue).what = "add" THEN {Head(queue).pid} ELSE {}
      /\ OnlyAddsAndFeeds(queue') /\ Head(queue).what \in {"add", "feed"}
      /\ AddsFirst(queue') /\ (Head(queue).what = "feed" => Adding(queue) = {})
  BY <1>1, <1>3, <1>5, AddsAfter
<1>7. /\ FeedUnits(queue') \subseteq FeedUnits(queue)
      /\ Head(queue).what = "feed" => FeedUnits(queue') = {} /\ Head(queue).units \in FeedUnits(queue)
  BY <1>3, <1>5, FeedsAfter
<1>8. ASSUME HandleFlush \/ HandleRemove PROVE FALSE
  BY <1>6, <1>8 DEF HandleFlush, HandleRemove
<1>9. /\ \A C : Joined(C)' = Joined(C)
      /\ NoVersions' = NoVersions /\ NothingGiven' = NothingGiven /\ Pids' = Pids /\ Begun' = Begun
      /\ \A f, packet : parseTS(f, packet)' = parseTS(f, packet)
      /\ Adding(queue)' = Adding(queue') /\ FeedUnits(queue)' = FeedUnits(queue')
      /\ \A n : LeftOf(n)' = LeftOf(n)
      /\ Run(h, sent)' = Run(h, sent') /\ Idle' = Idle
  <2>1. Adding(queue)' = Adding(queue') /\ FeedUnits(queue)' = FeedUnits(queue')
    BY DEF Adding, FeedUnits
  <2>2. (\A n : LeftOf(n)' = LeftOf(n)) /\ Run(h, sent)' = Run(h, sent') /\ Idle' = Idle
    BY DEF LeftOf, IsHead, Run, Idle
  <2>3. Pids' = Pids
    BY <1>5, Meanings
  <2>4. /\ \A C : Joined(C)' = Joined(C)
        /\ NoVersions' = NoVersions /\ NothingGiven' = NothingGiven /\ Begun' = Begun
        /\ \A f, packet : parseTS(f, packet)' = parseTS(f, packet)
    BY <1>5, ParsingMeans
  <2> QED
    BY <2>1, <2>2, <2>3, <2>4
<1>10. ASSUME HandleAdd PROVE clean /\ CleanOK'
  <2>0. PICK pid : pid = Head(queue).pid
    OBVIOUS
  <2>1. /\ Head(queue).what = "add" /\ feeder' = feeder /\ controller' = controller
        /\ mVersion' = mVersion /\ delivered' = delivered /\ clean' = clean
        /\ mRemainingBytesBuffer' = mRemainingBytesBuffer
        /\ parser' = IF IsSection(pid)
                     THEN [parser EXCEPT !.psi = Entered(@, {pid}, NewSection)]
                     ELSE [parser EXCEPT !.streams = Entered(@, {pid}, NewStream(transport.codec[pid]))]
    BY <1>10, <2>0 DEF HandleAdd
  <2>2. pid \in Pids
    BY <1>5, <2>0, <2>1 DEF Messages
  <2>3. Adding(queue) = Adding(queue') \cup {pid}
    BY <1>6, <2>0, <2>1
  <2>4. h = 0 /\ Begins
    BY <1>2, <2>3 DEF HandledUpto, FedUpto
  <2>5. PICK C \in SUBSET Pids : parser = Joined(C) /\ C \cup Adding(queue) = mChannels
    BY <2>4 DEF Begins
  <2>6. parser' = Joined(C \cup {pid})
    BY <2>1, <2>5, JoinedWith
  <2>7. Begins'
    <3> DEFINE D == C \cup {pid}
    <3>1. D \in SUBSET Pids' /\ parser' = Joined(D)' /\ D \cup Adding(queue)' = mChannels'
      BY <1>5, <1>9, <2>2, <2>3, <2>5, <2>6
    <3>2. mVersion' = NoVersions' /\ delivered' = NothingGiven'
      BY <1>9, <2>1, <2>4 DEF Begins
    <3> HIDE DEF D
    <3> QED
      BY <3>1, <3>2 DEF Begins
  <2>8. HandledUpto(0)'
    <3>1. /\ mRemainingBytesBuffer = LeftOf(0)
          /\ feeder.at = "posting" => chunk = Run(0, sent)
          /\ \A units \in FeedUnits(queue) : units = Run(0, sent)
          /\ feeder = Idle => 0 = sent
      BY <1>2, <2>4 DEF HandledUpto
    <3>2. /\ mRemainingBytesBuffer' = LeftOf(0)'
          /\ feeder'.at = "posting" => chunk' = Run(0, sent)'
          /\ \A units \in FeedUnits(queue)' : units = Run(0, sent)'
          /\ feeder' = Idle' => 0 = sent'
      BY <1>5, <1>7, <1>9, <2>1, <2>4, <3>1
    <3> QED
      BY <2>7, <3>2 DEF HandledUpto, FedUpto
  <2>9. 0 \in 0 .. sent'
    BY <1>3, <1>5
  <2> QED
    BY <1>1, <1>5, <1>6, <1>9, <2>1, <2>8, <2>9 DEF CleanOK, OnlyAddsAndFeeds, AddsFirst
<1>11. ASSUME HandleFeed PROVE clean /\ CleanOK'
  <2> DEFINE units == Head(queue).units
             cut == onFeedData(mRemainingBytesBuffer, units)
             f == feedTs(cut.packets)
             b == h \div 2
  <2>0. PICK c : c = sent \div 2
    OBVIOUS
  <2>1. /\ Head(queue).what = "feed" /\ feeder' = Idle /\ controller' = controller
        /\ Head(queue).generation = mBufferGeneration
    BY <1>11 DEF HandleFeed
  <2>2. /\ mRemainingBytesBuffer' = cut.remaining /\ parser' = f.p /\ mVersion' = f.version
        /\ delivered' = f.delivered /\ clean' = clean
    BY <1>11, <2>1 DEF HandleFeed
  <2>3. units = Run(h, sent) /\ mRemainingBytesBuffer = LeftOf(h) /\ Adding(queue) = {} /\ FedUpto(h)
    BY <1>2, <1>6, <1>7, <2>1 DEF HandledUpto
  <2>4. h \in Nat /\ h <= sent /\ b \in Nat /\ c \in Nat /\ b <= c /\ 2 * c <= 2 * Len(Packets)
    BY <1>2, <1>3, <2>0, UnitsOfPackets
  <2>5. cut = [packets |-> Pairs(b, c), remaining |-> LeftOf(sent)]
    <3>1. onFeedData(LeftOf(h), Run(h, sent))
              = [packets |-> Pairs(h \div 2, sent \div 2), remaining |-> LeftOf(sent)]
      BY <1>3, <2>4, FeedOfRun
    <3> QED
      BY <2>0, <2>3, <3>1
  <2> HIDE DEF units, cut, b
  <2>6. PICK g : IsFed(g, b)
    <3>1. CASE \E g : IsFed(g, h \div 2)
      BY <3>1 DEF b
    <3>2. CASE h = 0 /\ Begins
      <4>1. b = 0
        BY <3>2 DEF b
      <4>2. parser = Joined(mChannels) /\ mVersion = NoVersions /\ delivered = NothingGiven
        BY <2>3, <3>2 DEF Begins
      <4>3. Result = Begun
        BY <4>2 DEF Result, Begun
      <4> DEFINE g == [n \in {0} |-> Begun]
      <4>4. g[0] = Begun /\ \A k \in 1 .. 0 : g[k] = parseTS(g[k - 1], PacketAt(k))
        OBVIOUS
      <4> HIDE DEF g
      <4>5. IsFed(g, 0)
        BY <4>3, <4>4 DEF IsFed
      <4> QED
        BY <4>1, <4>5
    <3> QED
      BY <2>3, <3>1, <3>2 DEF FedUpto
  <2>7. PICK k : /\ k[0] = Begun /\ \A n \in 1 .. c : k[n] = parseTS(k[n - 1], PacketAt(n))
                 /\ feedTs(Pairs(b, c)) = k[c] /\ IsResult(k[c])
    BY <1>3, <2>4, <2>6, RowGoesOn
  <2>8. f = k[c]
    BY <2>5, <2>7
  <2>9. f = [p |-> f.p, version |-> f.version, delivered |-> f.delivered]
    BY <2>7, <2>8 DEF IsResult
  <2> HIDE DEF f
  <2>10. IsFed(k, c)'
    <3>1. Result' = k[c]
      BY <2>2, <2>8, <2>9 DEF Result
    <3>2. k[0] = Begun' /\ \A n \in 1 .. c : k[n] = parseTS(k[n - 1], PacketAt(n))'
      <4>1. \A n : PacketAt(n)' = PacketAt(n)
        BY DEF PacketAt
      <4> QED
        BY <1>9, <2>7, <4>1
    <3> QED
      BY <3>1, <3>2 DEF IsFed
  <2>11. HandledUpto(sent)'
    <3>1. FedUpto(sent)'
      <4>1. Adding(queue)' = {}
        BY <1>6, <1>9, <2>3
      <4>2. sent' \div 2 = c
        BY <1>5, <2>0
      <4> QED
        BY <2>10, <4>1, <4>2 DEF FedUpto
    <3>2. mRemainingBytesBuffer' = LeftOf(sent')
      BY <1>5, <2>2, <2>5
    <3>3. feeder'.at # "posting" /\ FeedUnits(queue)' = {}
      BY <1>4, <1>7, <1>9, <2>1
    <3> QED
      BY <1>9, <3>1, <3>2, <3>3 DEF HandledUpto
  <2>12. sent' \in 0 .. sent'
    BY <1>3, <1>5
  <2> QED
    BY <1>1, <1>5, <1>6, <1>9, <2>1, <2>2, <2>11, <2>12 DEF CleanOK, OnlyAddsAndFeeds, AddsFirst
<1> QED
  BY <1>8, <1>10, <1>11 DEF Handles

(* What the packets make one after the other is FedWhole.                  *)
LEMMA FedWholeIs ==
    ASSUME NEW n \in Nat, NEW g, g[0] = Begun, \A k \in 1 .. n : g[k] = parseTS(g[k - 1], PacketAt(k))
    PROVE  FedWhole(n) = g[n]
<1> DEFINE loop(f) == [k \in 0 .. n |-> IF k = 0 THEN Begun ELSE parseTS(f[k - 1], PacketAt(k))]
           h == [k \in 0 .. n |-> g[k]]
           whole == CHOOSE f : f = loop(f)
<1>1. h = loop(h)
  <2>1. ASSUME NEW k \in 0 .. n
        PROVE  g[k] = IF k = 0 THEN Begun ELSE parseTS(h[k - 1], PacketAt(k))
    <3>1. CASE k = 0
      BY <3>1
    <3>2. CASE k # 0
      <4>1. k \in 1 .. n /\ k - 1 \in 0 .. n
        BY <3>2
      <4>2. h[k - 1] = g[k - 1]
        BY <4>1
      <4> HIDE DEF h
      <4> QED
        BY <3>2, <4>1, <4>2
    <3> QED
      BY <3>1, <3>2
  <2>2. loop(h) = [k \in 0 .. n |-> g[k]]
    BY <2>1
  <2> QED
    BY <2>2
<1>2. whole = loop(whole)
  <2>1. \E f : f = loop(f)
    <3> HIDE DEF h, loop
    <3> QED
      BY <1>1
  <2> HIDE DEF loop
  <2> QED
    BY <2>1
<1>3. FedWhole(n) = whole[n]
  BY DEF FedWhole
<1> HIDE DEF whole, h
<1> DEFINE T == {k \in 0 .. n : whole[k] = g[k]}
<1>4. 0 \in T
  BY <1>2
<1>5. ASSUME NEW k \in 1 .. n, k - 1 \in T PROVE k \in T
  <2>1. whole[k - 1] = g[k - 1] /\ k \in 0 .. n /\ k # 0
    BY <1>5
  <2>2. whole[k] = parseTS(whole[k - 1], PacketAt(k))
    BY <1>2, <2>1
  <2> QED
    BY <2>1, <2>2
<1>6. n \in T
  <2> HIDE DEF T
  <2>1. \A k \in 0 .. n : k \in T
    BY <1>4, <1>5, InductionToLength
  <2> QED
    BY <2>1
<1> QED
  BY <1>3, <1>6

LEMMA CleanStep == CleanInv /\ [SwNext]_swvars => CleanInv'
<1> SUFFICES ASSUME CleanInv, [SwNext]_swvars PROVE CleanInv'
  OBVIOUS
<1>1. OrderInv /\ OrderInv' /\ SectionsInv /\ OneFeed
  BY OrderStep DEF CleanInv, OrderInv
<1>2. CASE SwNext
  <2> SUFFICES ASSUME clean' PROVE CleanOK'
    BY <1>1 DEF CleanInv
  <2>1. clean
    BY <1>2 DEF SwNext, Controls, Feeds, Handles, FeedTs, Lose, PostFeed, HandleFeed, HandleFlush,
                HandleAdd, HandleRemove, Flush, PostFlush, AddDemuxFilter, RemoveDemuxFilter, Stop, Close
  <2>2. CleanOK
    BY <2>1 DEF CleanInv
  <2> QED
    BY <1>1, <1>2, <2>2, FeedersStayClean, ControlsStayClean, HandlersStayClean DEF SwNext
<1>3. CASE UNCHANGED swvars
  <2> SUFFICES ASSUME clean' PROVE CleanOK'
    BY <1>1 DEF CleanInv
  <2> USE <1>3 DEF swvars, threads, demux, base
  <2>1. CleanOK
    BY DEF CleanInv
  <2>2. PICK h \in 0 .. sent : HandledUpto(h)
    BY <2>1 DEF CleanOK
  <2>3. HandledUpto(h)'
    <3>1. /\ feeder.at = "posting" => chunk = Run(h, sent)
          /\ \A units \in FeedUnits(queue) : units = Run(h, sent)
          /\ feeder = Idle => h = sent
      BY <2>2 DEF HandledUpto
    <3> QED
      BY <2>2, <3>1, HandledKept
  <2> QED
    BY <2>1, <2>2, <2>3 DEF CleanOK, OnlyAddsAndFeeds, AddsFirst, Idle
<1> QED
  BY <1>2, <1>3

LEMMA CleanComesWhole == CleanInv => ComesWhole
<1> SUFFICES ASSUME CleanInv, clean, sent = 2 * Len(Packets), feeder = Idle
             PROVE  delivered = FedWhole(Len(Packets)).delivered
  BY DEF ComesWhole
<1> DEFINE N == Len(Packets)
<1>1. N \in Nat
  BY UnitsOfPackets DEF CleanInv, OrderInv, SectionsInv
<1>2. PICK h \in 0 .. sent : HandledUpto(h)
  BY DEF CleanInv, CleanOK
<1>3. h = 2 * N /\ h \div 2 = N /\ FedUpto(h)
  BY <1>1, <1>2 DEF HandledUpto
<1> HIDE DEF N
<1>4. CASE h = 0 /\ Begins
  <2>1. N = 0 /\ delivered = Begun.delivered
    BY <1>1, <1>3, <1>4 DEF Begins, Begun
  <2> DEFINE g == [n \in {0} |-> Begun]
  <2>2. g[0] = Begun /\ \A k \in 1 .. 0 : g[k] = parseTS(g[k - 1], PacketAt(k))
    OBVIOUS
  <2> HIDE DEF g
  <2>3. FedWhole(0) = g[0]
    BY <2>2, FedWholeIs
  <2> QED
    BY <2>1, <2>2, <2>3 DEF N
<1>5. CASE \E g : IsFed(g, N)
  <2>1. PICK g : IsFed(g, N)
    BY <1>5
  <2>2. FedWhole(N) = g[N]
    BY <1>1, <2>1, FedWholeIs DEF IsFed
  <2>3. delivered = g[N].delivered
    BY <2>1 DEF IsFed, Result
  <2> QED
    BY <2>2, <2>3 DEF N
<1> QED
  BY <1>3, <1>4, <1>5 DEF FedUpto

(* Into whatever pieces a stream is cut to be fed, and however the threads *)
(* come to run, the filters are called as if its packets came one by one,  *)
(* if nothing was lost or flushed (AmlSwDemux::onFeedData).                *)
THEOREM CutsMakeNoDifference == SwSpec => []ComesWhole
<1>1. SwInit => CleanInv
  BY OrderInitial, CleanInitial DEF CleanInv
<1> QED
  BY <1>1, CleanStep, CleanComesWhole, PTL DEF SwSpec

(* So a stream that nothing was lost of arrives, all of it, if it does     *)
(* when its packets come one by one.                                       *)
THEOREM CleanStreamsArrive == SwSpec => [](ArrivesWhole => CleanStreamArrives)
<1>1. ASSUME CleanInv PROVE ArrivesWhole => CleanStreamArrives
  <2> SUFFICES ASSUME ArrivesWhole, clean, sent = 2 * Len(Packets), feeder = Idle, NEW pid \in mChannels
               PROVE  [i \in DOMAIN delivered[pid] |-> [j \in DOMAIN delivered[pid][i].cells |->
                                                          delivered[pid][i].cells[j].id]]
                      = transport.arrives[pid]
    BY DEF CleanStreamArrives
  <2>1. IdsGiven(delivered[pid]) = transport.arrives[pid]
    BY <1>1, CleanComesWhole DEF ComesWhole, ArrivesWhole
  <2> QED
    BY <2>1 DEF IdsGiven
<1>2. SwInit => CleanInv
  BY OrderInitial, CleanInitial DEF CleanInv
<1> QED
  BY <1>1, <1>2, CleanStep, PTL DEF SwSpec
-----------------------------------------------------------------------------
(* SwDemux: the timestamps of a stream of which nothing was lost.          *)

(* The packets of a pid that are not passed over, and the last up to n in  *)
(* which a PES packet starts.                                              *)
Counts(i, pid) == Packets[i].pid = pid /\ ~Packets[i].error /\ Packets[i].payload
Opens(i, n, pid) ==
    /\ i \in 1 .. n /\ Counts(i, pid) /\ Packets[i].start
    /\ \A k \in i + 1 .. n : Counts(k, pid) => ~Packets[k].start

(* What a stream keeps after n packets: its PES packet is the last that    *)
(* started.                                                                *)
Stamped(stream, pid, n) ==
    /\ Timed(stream.queue, transport.pts) /\ PesTimed(stream.buffer, transport.pts)
    /\ stream.started =>
          /\ stream.buffer # <<>> /\ stream.buffer = PesUpto(pid)[n]
          /\ \E i : Opens(i, n, pid) /\ stream.buffer[1] = Packets[i].cells[1]

(* MPEG audio throws data away and keeps its timestamps; pictures keep the *)
(* zero bytes a payload ends in with its timestamp.                        *)
Kept(pid) ==
    /\ ~IsSection(pid) /\ transport.codec[pid] # "MPEG_AUDIO"
    /\ transport.codec[pid] \in Pictures => ZerosInside(pid)
AllTimely(units) ==
    /\ units \in Seq(UnitSet(Cells, Stamps))
    /\ \A i \in DOMAIN units : UnitTimely(units[i], transport.pts)
StampedUpto(f, n) ==
    \A pid \in Pids : Kept(pid) =>
        /\ AllTimely(f.delivered[pid])
        /\ pid \in DOMAIN f.p.streams => Stamped(f.p.streams[pid], pid, n)

LEMMA TwoMore ==
    ASSUME NEW S, NEW a \in Seq(S), NEW x \in S, NEW y \in S
    PROVE  LET b == a \o <<x, y>> IN
           /\ Len(b) = Len(a) + 2 /\ b[Len(a) + 1] = x /\ b[Len(a) + 2] = y
           /\ \A k \in 1 .. Len(a) : b[k] = a[k]
<1> DEFINE data == <<x, y>>
<1>1. data \in Seq(S) /\ Len(data) = 2 /\ data[1] = x /\ data[2] = y /\ Len(a) \in Nat
  OBVIOUS
<1> HIDE DEF data
<1>2. /\ Len(a \o data) = Len(a) + Len(data)
      /\ \A k \in 1 .. Len(a) + Len(data) :
            (a \o data)[k] = IF k <= Len(a) THEN a[k] ELSE data[k - Len(a)]
  BY <1>1, ConcatProperties
<1> QED
  BY <1>1, <1>2 DEF data

LEMMA StampIs ==
    ASSUME transport \in Transports, NEW pid \in Pids, ~IsSection(pid), NEW n \in DOMAIN Packets,
           Counts(n, pid), NEW i, Opens(i, n, pid), NEW j \in {1, 2}, i = n => j = 2,
           IsPes(Packets[i].cells[1])
    PROVE  transport.pts[Packets[n].cells[j].id] = Packets[i].cells[1].pes.pts
<1>1. i \in 1 .. n
  BY DEF Opens
<1> QED
  BY <1>1, StampsAssumption DEF Counts, Opens, Packets, Pids, IsSection, IsPes

(* The PES packet after n packets of the stream.                           *)
LEMMA PesUptoIs ==
    ASSUME transport \in Transports, NEW pid, NEW n \in DOMAIN Packets
    PROVE  PesUpto(pid)[n] =
               IF ~Counts(n, pid) THEN PesUpto(pid)[n - 1]
               ELSE IF Packets[n].start THEN <<Packets[n].cells[1], Packets[n].cells[2]>>
               ELSE PesUpto(pid)[n - 1] \o <<Packets[n].cells[1], Packets[n].cells[2]>>
<1> DEFINE L == Len(Packets)
           data(k) == <<Packets[k].cells[1], Packets[k].cells[2]>>
           more(x, k) == IF Packets[k].pid # pid \/ Packets[k].error \/ ~Packets[k].payload THEN x
                         ELSE IF Packets[k].start THEN data(k) ELSE x \o data(k)
           next(f, k) == IF k = 0 THEN <<>> ELSE more(f[k - 1], k)
           loop(f) == [k \in 0 .. L |-> next(f, k)]
           it == CHOOSE f : f = loop(f)
           step == [k \in 1 .. L |-> [x \in Seq(Cells) |-> more(x, k)]]
<1>1. L \in Nat /\ DOMAIN Packets = 1 .. L
  BY UnitsOfPackets
<1>2. PesUpto(pid) = it
  BY DEF PesUpto
<1>3. \A k \in 1 .. L : data(k) \in Seq(Cells)
  <2>1. \A k \in 1 .. L : Packets[k].cells[1] \in Cells /\ Packets[k].cells[2] \in Cells
    BY <1>1 DEF Cells
  <2> QED
    BY <2>1
<1> HIDE DEF L, data
<1>4. \A k \in 1 .. L : \A x \in Seq(Cells) : more(x, k) \in Seq(Cells)
  BY <1>3
<1> HIDE DEF more
<1>5. step \in [1 .. L -> [Seq(Cells) -> Seq(Cells)]]
  BY <1>4
<1>6. PICK f : IsLoop(f, L, Seq(Cells), <<>>, step)
  <2>1. <<>> \in Seq(Cells)
    OBVIOUS
  <2> HIDE DEF step
  <2> QED
    BY <1>1, <1>5, <2>1, LoopExists
<1>7. f = loop(f)
  <2>1. f \in [0 .. L -> Seq(Cells)] /\ f[0] = <<>> /\ \A k \in 1 .. L : f[k] = step[k][f[k - 1]]
    BY <1>6 DEF IsLoop
  <2>2. ASSUME NEW k \in 1 .. L PROVE f[k] = more(f[k - 1], k)
    <3>1. f[k - 1] \in Seq(Cells)
      BY <1>1, <2>1
    <3> QED
      BY <2>1, <3>1
  <2>3. \A k \in 0 .. L : f[k] = next(f, k)
    BY <1>1, <2>1, <2>2
  <2> QED
    BY <2>1, <2>3
<1>8. it = loop(it)
  <2> HIDE DEF loop
  <2> QED
    BY <1>7
<1> HIDE DEF it
<1>9. it[n] = more(it[n - 1], n)
  BY <1>1, <1>8
<1> QED
  BY <1>2, <1>9 DEF more, data, Counts

(* A packet of another pid, or one that is passed over.                    *)
LEMMA StampedStays ==
    ASSUME transport \in Transports, NEW stream, NEW pid, NEW n \in DOMAIN Packets,
           Stamped(stream, pid, n - 1), ~Counts(n, pid)
    PROVE  Stamped(stream, pid, n)
<1>0. n \in Nat /\ n # 0 /\ PesUpto(pid)[n] = PesUpto(pid)[n - 1]
  <2>1. n \in Nat /\ n # 0
    BY UnitsOfPackets
  <2>2. PesUpto(pid)[n] = PesUpto(pid)[n - 1]
    BY PesUptoIs
  <2> QED
    BY <2>1, <2>2
<1>1. ASSUME NEW i, Opens(i, n - 1, pid) PROVE Opens(i, n, pid)
  <2>1. i \in 1 .. n /\ \A k \in i + 1 .. n : k \in i + 1 .. n - 1 \/ k = n
    BY <1>0, <1>1 DEF Opens
  <2> QED
    BY <1>1, <2>1 DEF Opens
<1> QED
  BY <1>0, <1>1 DEF Stamped

(* A packet that starts a PES packet.                                      *)
LEMMA PesStarts ==
    ASSUME transport \in Transports, NEW pid \in Pids, ~IsSection(pid), NEW n \in DOMAIN Packets,
           Counts(n, pid), Packets[n].start, NEW stream,
           stream.buffer = <<Packets[n].cells[1], Packets[n].cells[2]>>,
           Timed(stream.queue, transport.pts)
    PROVE  Stamped(stream, pid, n)
<1>1. n \in Nat /\ 1 <= n
  BY UnitsOfPackets
<1>2. Opens(n, n, pid)
  BY <1>1 DEF Opens
<1>3. Len(stream.buffer) = 2 /\ stream.buffer[1] = Packets[n].cells[1]
      /\ stream.buffer[2] = Packets[n].cells[2] /\ stream.buffer # <<>>
  OBVIOUS
<1>4. PesTimed(stream.buffer, transport.pts)
  <2>1. ASSUME IsPes(Packets[n].cells[1])
        PROVE  transport.pts[Packets[n].cells[2].id] = Packets[n].cells[1].pes.pts
    BY <1>2, <2>1, StampIs
  <2>2. \A k \in 2 .. 2 : k = 2
    OBVIOUS
  <2> QED
    BY <1>3, <2>1, <2>2 DEF PesTimed
<1>5. stream.buffer = PesUpto(pid)[n]
  BY PesUptoIs
<1> QED
  BY <1>2, <1>3, <1>4, <1>5 DEF Stamped

(* A packet that goes on with one.                                         *)
LEMMA PesGoesOn ==
    ASSUME transport \in Transports, NEW pid \in Pids, ~IsSection(pid), NEW n \in DOMAIN Packets,
           Counts(n, pid), ~Packets[n].start, NEW old, Stamped(old, pid, n - 1), old.started,
           old.buffer \in Seq(Cells), NEW stream, stream.queue = old.queue,
           stream.buffer = old.buffer \o <<Packets[n].cells[1], Packets[n].cells[2]>>
    PROVE  Stamped(stream, pid, n)
<1>1. n \in Nat /\ 1 <= n
  BY UnitsOfPackets
<1>2. PICK i : Opens(i, n - 1, pid) /\ old.buffer[1] = Packets[i].cells[1]
  BY DEF Stamped
<1>3. Opens(i, n, pid) /\ i # n
  <2>1. i \in 1 .. n /\ i # n /\ \A k \in i + 1 .. n : k \in i + 1 .. n - 1 \/ k = n
    BY <1>1, <1>2 DEF Opens
  <2> QED
    BY <1>2, <2>1 DEF Opens
<1> DEFINE L == Len(old.buffer)
           b == stream.buffer
<1>4. L \in Nat /\ 1 <= L /\ Len(b) = L + 2
      /\ (\A k \in 1 .. L : b[k] = old.buffer[k])
      /\ b[L + 1] = Packets[n].cells[1] /\ b[L + 2] = Packets[n].cells[2]
  <2>1. old.buffer # <<>> /\ Packets[n].cells[1] \in Cells /\ Packets[n].cells[2] \in Cells
    BY DEF Stamped, Cells
  <2>2. L \in Nat /\ 1 <= L
    BY <2>1
  <2> QED
    BY <2>1, <2>2, TwoMore
<1>5. b[1] = Packets[i].cells[1] /\ b # <<>>
  BY <1>2, <1>4
<1>6. b = PesUpto(pid)[n]
  <2>1. old.buffer = PesUpto(pid)[n - 1]
    BY DEF Stamped
  <2> QED
    BY <2>1, PesUptoIs
<1> HIDE DEF b
<1>7. PesTimed(b, transport.pts)
  <2> SUFFICES ASSUME IsPes(b[1]), NEW k \in 2 .. Len(b), b[k].id # 0
               PROVE  b[1].pes.pts = transport.pts[b[k].id]
    BY DEF PesTimed
  <2>1. CASE k \in 2 .. L
    <3>1. old.buffer[1] = b[1] /\ old.buffer[k] = b[k] /\ old.buffer # <<>>
      BY <1>2, <1>4, <1>5, <2>1 DEF Stamped
    <3> QED
      BY <2>1, <3>1 DEF Stamped, PesTimed
  <2>2. CASE k \notin 2 .. L
    <3>1. PICK j \in {1, 2} : k = L + j
      BY <1>4, <2>2
    <3>2. b[k] = Packets[n].cells[j]
      BY <1>4, <3>1
    <3> QED
      BY <1>3, <1>5, <3>2, StampIs
  <2> QED
    BY <2>1, <2>2
<1> QED
  BY <1>3, <1>5, <1>6, <1>7 DEF Stamped, b

(* A packet of a stream, and the units that come out.                      *)
LEMMA StreamStaysStamped ==
    ASSUME transport \in Transports, NEW pid \in Pids, Kept(pid), NEW n \in DOMAIN Packets,
           Counts(n, pid), NEW old, StreamOK(old, transport.codec[pid]), Stamped(old, pid, n - 1)
    PROVE  LET r == StreamParse(old, Packets[n], <<Packets[n].cells[1], Packets[n].cells[2]>>) IN
           Stamped(r.stream, pid, n) /\ AllTimely(r.units)
<1> DEFINE header == Packets[n]
           data == <<header.cells[1], header.cells[2]>>
           time == transport.pts
           mode == transport.codec[pid]
           torn == [old EXCEPT !.started = FALSE, !.buffer = <<>>, !.expected = -1]
           gapless == Gap(old, header)
           cc == (header.cc + 1) % 16
           stream == [gapless EXCEPT !.expected = cc]
           flushed == StreamFlush(stream)
           begun == [stream |-> [stream EXCEPT !.buffer = data, !.queue = flushed.q],
                     units |-> flushed.units]
           starts == [stream |-> [stream EXCEPT !.started = TRUE, !.buffer = data], units |-> <<>>]
           longer == [stream |-> [stream EXCEPT !.buffer = @ \o data], units |-> <<>>]
           waits == [stream |-> stream, units |-> <<>>]
           lost == [stream |-> gapless, units |-> <<>>]
           r == StreamParse(old, header, data)
<1>1. \/ header.start /\ stream.started /\ r = begun
      \/ header.start /\ r = starts
      \/ ~header.start /\ stream.started /\ r = longer
      \/ ~header.start /\ ~stream.started /\ r = waits
      \/ ~header.start /\ gapless # old /\ r = lost
  BY DEF StreamParse, NextPes
<1>2. DOMAIN old = {"expected", "buffer", "started", "queue"} /\ ~IsSection(pid)
  BY DEF StreamOK, Kept
<1>3. gapless \in {old, torn} /\ (gapless # old => gapless = torn)
  BY DEF Gap
<1> HIDE DEF gapless
<1>4. /\ DOMAIN torn = DOMAIN old /\ torn.buffer = <<>> /\ torn.queue = old.queue
      /\ torn.started = FALSE
  BY <1>2
<1> HIDE DEF torn
<1>5. /\ DOMAIN gapless = DOMAIN old /\ gapless.queue = old.queue
      /\ StreamOK(gapless, mode) /\ Stamped(gapless, pid, n - 1)
      /\ gapless # old => ~gapless.started
  <2>1. StreamOK(torn, mode)
    BY <1>2, <1>4 DEF StreamOK
  <2>2. Stamped(torn, pid, n - 1)
    BY <1>4 DEF Stamped, PesTimed
  <2> QED
    BY <1>3, <1>4, <2>1, <2>2
<1> HIDE DEF cc
<1>6. /\ DOMAIN stream = DOMAIN gapless /\ stream.buffer = gapless.buffer
      /\ stream.queue = gapless.queue /\ stream.started = gapless.started
  BY <1>2, <1>5
<1> HIDE DEF stream
<1>7. StreamOK(stream, mode) /\ Stamped(stream, pid, n - 1)
  BY <1>5, <1>6 DEF StreamOK, Stamped
<1>8. ASSUME stream.started PROVE Timed(flushed.q, time) /\ AllTimely(flushed.units)
  <2>1. Flushed(stream, time, flushed)
    <3>1. CASE stream.buffer = <<>>
      BY <1>7, <3>1, NothingFlushed DEF StreamFlush
    <3>2. CASE stream.buffer # <<>>
      BY <1>7, <3>2, PesIsParsed DEF StreamFlush
    <3> QED
      BY <3>1, <3>2
  <2>2. stream.queue.mode # "MPEG_AUDIO" /\ Timed(stream.queue, time) /\ PesTimed(stream.buffer, time)
    BY <1>7 DEF StreamOK, Stamped, Kept
  <2>3. stream.queue.mode \in Pictures => ~EndsInZeros(stream.buffer)
    <3>1. n - 1 \in 0 .. Len(Packets)
      BY UnitsOfPackets
    <3>2. stream.buffer = PesUpto(pid)[n - 1] /\ stream.queue.mode = mode
      BY <1>7, <1>8 DEF StreamOK, Stamped
    <3> QED
      BY <3>1, <3>2 DEF Kept, ZerosInside
  <2> HIDE DEF flushed
  <2> QED
    BY <2>1, <2>2, <2>3 DEF Flushed, AllTimely
<1>9. AllTimely(<<>>)
  BY DEF AllTimely
<1> HIDE DEF flushed
<1> DEFINE s1 == [stream EXCEPT !.started = TRUE, !.buffer = data]
           s2 == [stream EXCEPT !.buffer = @ \o data]
           s3 == [stream EXCEPT !.buffer = data, !.queue = flushed.q]
<1>10. /\ s1.buffer = data /\ s1.queue = stream.queue
       /\ s2.buffer = stream.buffer \o data /\ s2.queue = stream.queue
       /\ s3.buffer = data /\ s3.queue = flushed.q
  <2> HIDE DEF data
  <2> QED
    BY <1>2, <1>5, <1>6
<1>11. starts.stream = s1 /\ starts.units = <<>> /\ longer.stream = s2 /\ longer.units = <<>>
       /\ begun.stream = s3 /\ begun.units = flushed.units
       /\ waits.stream = stream /\ waits.units = <<>> /\ lost.stream = gapless /\ lost.units = <<>>
  OBVIOUS
<1> HIDE DEF s1, s2, s3, starts, longer, begun, waits, lost, r
<1>12. CASE header.start /\ r = starts
  <2>1. Timed(s1.queue, time)
    BY <1>7, <1>10 DEF Stamped
  <2>2. Stamped(s1, pid, n)
    BY <1>2, <1>10, <1>12, <2>1, PesStarts
  <2> QED
    BY <1>9, <1>11, <1>12, <2>2 DEF r
<1>13. CASE header.start /\ stream.started /\ r = begun
  <2>1. Timed(s3.queue, time) /\ AllTimely(flushed.units)
    BY <1>8, <1>10, <1>13
  <2>2. Stamped(s3, pid, n)
    BY <1>2, <1>10, <1>13, <2>1, PesStarts
  <2> QED
    BY <1>11, <1>13, <2>1, <2>2 DEF r
<1>14. CASE ~header.start /\ stream.started /\ r = longer
  <2>1. stream.buffer \in Seq(Cells)
    BY <1>7 DEF StreamOK
  <2>2. Stamped(s2, pid, n)
    BY <1>2, <1>7, <1>10, <1>14, <2>1, PesGoesOn
  <2> QED
    BY <1>9, <1>11, <1>14, <2>2 DEF r
<1>15. CASE ~header.start /\ ~stream.started /\ r = waits
  <2>1. Stamped(stream, pid, n)
    BY <1>7, <1>15 DEF Stamped
  <2> QED
    BY <1>9, <1>11, <1>15, <2>1 DEF r
<1>16. CASE ~header.start /\ gapless # old /\ r = lost
  <2>1. Stamped(gapless, pid, n)
    BY <1>5, <1>16 DEF Stamped
  <2> QED
    BY <1>9, <1>11, <1>16, <2>1 DEF r
<1> QED
  BY <1>1, <1>12, <1>13, <1>14, <1>15, <1>16

LEMMA WholePacketIs ==
    ASSUME NEW n \in Nat
    PROVE  /\ HeaderOf(PacketAt(n)) = Packets[n]
           /\ PayloadOf(PacketAt(n)) = <<Packets[n].cells[1], Packets[n].cells[2]>>
<1>1. PacketAt(n)[1] = 2 * n - 1 /\ PacketAt(n)[2] = 2 * n
  BY DEF PacketAt
<1>2. /\ ((2 * n - 1) + 1) \div 2 = n /\ (2 * n + 1) \div 2 = n
      /\ 2 - ((2 * n - 1) % 2) = 1 /\ 2 - ((2 * n) % 2) = 2 /\ (2 * n) % 2 # 1
  OBVIOUS
<1> QED
  BY <1>1, <1>2 DEF HeaderOf, PayloadOf, CellOf, IsHead

LEMMA TimelyJoin ==
    ASSUME NEW units, NEW more, AllTimely(units), AllTimely(more)
    PROVE  AllTimely(units \o more)
<1> DEFINE U == UnitSet(Cells, Stamps)
<1>0. units \in Seq(U) /\ more \in Seq(U)
  BY DEF AllTimely
<1> HIDE DEF U
<1>1. /\ Len(units) \in Nat /\ Len(more) \in Nat
      /\ Len(units \o more) = Len(units) + Len(more)
      /\ units \o more \in Seq(U)
      /\ \A i \in 1 .. Len(units) + Len(more) :
            (units \o more)[i] = IF i <= Len(units) THEN units[i] ELSE more[i - Len(units)]
  BY <1>0, ConcatProperties
<1>2. DOMAIN (units \o more) = 1 .. Len(units) + Len(more)
  BY <1>1
<1> SUFFICES ASSUME NEW i \in 1 .. Len(units) + Len(more)
             PROVE  UnitTimely((units \o more)[i], transport.pts)
  BY <1>1, <1>2 DEF AllTimely, U
<1>3. CASE i <= Len(units)
  <2>1. i \in DOMAIN units
    BY <1>0, <1>1, <1>3
  <2> QED
    BY <1>1, <1>3, <2>1 DEF AllTimely
<1>4. CASE ~(i <= Len(units))
  <2>1. i - Len(units) \in DOMAIN more
    BY <1>0, <1>1, <1>4
  <2> QED
    BY <1>1, <1>4, <2>1 DEF AllTimely
<1> QED
  BY <1>3, <1>4

(* What the parser makes of a packet, for each stream.                     *)
LEMMA PidStamped ==
    ASSUME transport \in Transports, NEW n \in DOMAIN Packets, NEW p, ParserOK(p), NEW got, NEW m,
           InOrder(p, got, m), NEW pid \in Pids, Kept(pid), ~Packets[n].error, Packets[n].payload,
           pid \in DOMAIN p.streams => Stamped(p.streams[pid], pid, n - 1)
    PROVE  LET r == parsePID(p, Packets[n], PayloadOf(PacketAt(n))) IN
           /\ pid \in DOMAIN r.p.streams => Stamped(r.p.streams[pid], pid, n)
           /\ Packets[n].pid = pid => AllTimely(r.out)
<1> DEFINE header == Packets[n]
           at == header.pid
           data == PayloadOf(PacketAt(n))
           r == parsePID(p, header, data)
<1>1. n \in Nat /\ n # 0 /\ 1 <= n /\ 2 * n <= 2 * Len(Packets)
  BY UnitsOfPackets
<1>2. /\ PacketAt(n) \in WholePackets /\ HeaderOf(PacketAt(n)) = header
      /\ data = <<header.cells[1], header.cells[2]>>
  BY <1>1, PacketAtIs, WholePacketIs
<1>3. /\ data \in Seq(Cells) /\ Len(data) = 2 /\ at \in Pids
      /\ IsSection(at) => data[1].length \in Nat
  BY <1>2, CellFacts
<1>4. /\ ~IsSection(pid) /\ pid \notin DOMAIN p.psi
      /\ pid \in DOMAIN p.streams => StreamOK(p.streams[pid], transport.codec[pid])
  BY DEF Kept, InOrder, PidInOrder, Goes
<1>5. at # pid /\ pid \in DOMAIN p.streams => Stamped(p.streams[pid], pid, n)
  BY StampedStays DEF Counts
<1>6. AllTimely(<<>>)
  BY DEF AllTimely
<1> HIDE DEF header
<1>7. CASE at \in DOMAIN p.psi
  <2>1. r = ParseSectionPid(p, at, header.start, data)
    BY <1>7 DEF parsePID
  <2>2. LET x == ParseSectionPid(p, at, header.start, data) IN x.p.streams = p.streams
    BY <1>3, <1>7, TableLeavesStreams
  <2> HIDE DEF r
  <2>3. r.p.streams = p.streams /\ at # pid
    BY <1>4, <1>7, <2>1, <2>2
  <2> QED
    BY <1>5, <2>3 DEF r, header
<1>8. CASE at \notin DOMAIN p.psi /\ at \in DOMAIN p.streams
  <2> DEFINE parsed == StreamParse(p.streams[at], header, data)
             stream == parsed.stream
             streams == [p.streams EXCEPT ![at] = stream]
             next == [p EXCEPT !.streams = streams]
  <2>1. r = [p |-> next, version |-> -1, out |-> parsed.units]
    BY <1>8 DEF parsePID, ParseStreamPid, StreamParsed
  <2>2. at = pid => Stamped(stream, pid, n) /\ AllTimely(parsed.units)
    <3>1. at = pid => Counts(n, pid)
      BY DEF Counts, header
    <3> QED
      BY <1>2, <1>4, <1>8, <3>1, StreamStaysStamped DEF header
  <2>3. DOMAIN p = {"psi", "streams", "programMapPID"}
    BY DEF ParserOK
  <2> HIDE DEF parsed
  <2>4. DOMAIN streams = DOMAIN p.streams /\ streams[at] = stream
        /\ (at # pid => (pid \in DOMAIN p.streams => streams[pid] = p.streams[pid]))
    BY <1>8
  <2> HIDE DEF stream, streams
  <2>5. next.streams = streams
    BY <2>3
  <2> HIDE DEF next, r
  <2>6. r.p = next /\ r.out = parsed.units
    BY <2>1
  <2> QED
    BY <1>5, <2>2, <2>4, <2>5, <2>6 DEF r, header, stream
<1>9. CASE at \notin DOMAIN p.psi /\ at \notin DOMAIN p.streams
  <2>1. r.p = p /\ r.out = <<>>
    BY <1>9 DEF parsePID
  <2> HIDE DEF r
  <2> QED
    BY <1>5, <1>6, <1>9, <2>1 DEF r, header
<1> QED
  BY <1>7, <1>8, <1>9

LEMMA PacketStamped ==
    ASSUME transport \in Transports, NEW n \in DOMAIN Packets, NEW f, FeedOK(f),
           InOrder(f.p, f.delivered, 2 * (n - 1)), StampedUpto(f, n - 1)
    PROVE  LET g == parseTS(f, PacketAt(n)) IN
           FeedOK(g) /\ InOrder(g.p, g.delivered, 2 * n) /\ StampedUpto(g, n)
<1> DEFINE packet == PacketAt(n)
           header == Packets[n]
           at == header.pid
           r == parsePID(f.p, header, PayloadOf(packet))
           given == [f.delivered EXCEPT ![at] = @ \o r.out]
           told == [f.version EXCEPT ![at] = r.version]
           quiet == [f EXCEPT !.p = r.p]
           loud == [p |-> r.p, version |-> told, delivered |-> given]
           next == notifyListener(f, at, r)
           g == parseTS(f, packet)
<1>1. n \in Nat /\ n # 0 /\ 1 <= n /\ 2 * n <= 2 * Len(Packets)
  BY UnitsOfPackets
<1>2. packet \in WholePackets /\ HeaderOf(packet) = header
  BY <1>1, PacketAtIs, WholePacketIs
<1>3. FeedOK(g) /\ InOrder(g.p, g.delivered, 2 * n)
  <2>1. packet[1] = 2 * n - 1 /\ packet[2] = 2 * n
    BY DEF PacketAt
  <2>2. 2 * (n - 1) \in Nat /\ 2 * (n - 1) < 2 * n - 1 /\ 2 * n - 1 < 2 * n
    BY <1>1
  <2> HIDE DEF packet
  <2> QED
    BY <1>2, <2>1, <2>2, PacketKeeps, PacketInOrder
<1>4. g = IF header.error \/ ~header.payload THEN f ELSE next
  BY <1>2 DEF parseTS
<1>5. next = IF r.out = <<>> \/ at \notin mChannels \/ (r.version >= 0 /\ f.version[at] = r.version)
             THEN quiet ELSE loud
  BY DEF notifyListener
<1>6. /\ DOMAIN f = {"p", "version", "delivered"} /\ DOMAIN f.delivered = Pids /\ ParserOK(f.p)
      /\ DOMAIN g = {"p", "version", "delivered"} /\ DOMAIN g.delivered = Pids
  BY <1>3 DEF FeedOK, DeliveredOK
<1>7. at \in Pids
  BY <1>2, CellFacts
<1> HIDE DEF packet, next, g
<1> SUFFICES ASSUME NEW pid \in Pids, Kept(pid)
             PROVE  /\ AllTimely(g.delivered[pid])
                    /\ pid \in DOMAIN g.p.streams => Stamped(g.p.streams[pid], pid, n)
  BY <1>3 DEF StampedUpto, g, packet
<1>8. /\ AllTimely(f.delivered[pid])
      /\ pid \in DOMAIN f.p.streams => Stamped(f.p.streams[pid], pid, n - 1)
  BY DEF StampedUpto
<1>9. CASE header.error \/ ~header.payload
  <2>1. ~Counts(n, pid)
    BY <1>9 DEF Counts
  <2> QED
    BY <1>4, <1>8, <1>9, <2>1, StampedStays
<1>10. CASE ~header.error /\ header.payload
  <2>1. /\ pid \in DOMAIN r.p.streams => Stamped(r.p.streams[pid], pid, n)
        /\ at = pid => AllTimely(r.out)
    BY <1>6, <1>8, <1>10, PidStamped DEF packet
  <2> HIDE DEF r, header
  <2>2. quiet.p = r.p /\ quiet.delivered = f.delivered /\ loud.p = r.p /\ loud.delivered = given
    BY <1>6
  <2>3. CASE g = quiet
    BY <1>8, <2>1, <2>2, <2>3
  <2>4. CASE g = loud
    <3>1. CASE at = pid
      <4>1. g.delivered[pid] = f.delivered[pid] \o r.out
        BY <1>6, <1>7, <2>2, <2>4, <3>1
      <4>2. AllTimely(f.delivered[pid] \o r.out)
        BY <1>8, <2>1, <3>1, TimelyJoin
      <4> QED
        BY <2>1, <2>2, <2>4, <4>1, <4>2
    <3>2. CASE at # pid
      BY <1>6, <1>7, <1>8, <2>1, <2>2, <2>4, <3>2
    <3> QED
      BY <3>1, <3>2
  <2> QED
    BY <1>4, <1>5, <1>10, <2>3, <2>4
<1> QED
  BY <1>9, <1>10

(* Before the first packet nothing has a wrong timestamp.                  *)
LEMMA BegunStamped ==
    ASSUME transport \in Transports, mChannels \subseteq Pids
    PROVE  FeedOK(Begun) /\ InOrder(Begun.p, Begun.delivered, 0) /\ StampedUpto(Begun, 0)
<1> DEFINE p == Joined(mChannels)
<1>1. /\ DOMAIN p = {"psi", "streams", "programMapPID"}
      /\ DOMAIN p.psi = {0, 1} \cup {s \in mChannels : IsSection(s)}
      /\ DOMAIN p.streams = {s \in mChannels : ~IsSection(s)}
      /\ \A s \in DOMAIN p.psi : p.psi[s] = NewSection
      /\ \A s \in DOMAIN p.streams : p.streams[s] = NewStream(transport.codec[s])
  BY DEF Joined
<1> HIDE DEF p
<1>2. Begun.p = p /\ Begun.delivered = NothingGiven /\ DOMAIN Begun = {"p", "version", "delivered"}
  BY DEF Begun, p
<1>3. DOMAIN NothingGiven = Pids /\ \A s \in Pids : NothingGiven[s] = <<>>
  BY DEF NothingGiven
<1>4. \A s \in Pids : ~IsSection(s) => s \notin {0, 1} /\ transport.codec[s] \in Modes
  BY TablesAssumption, TransportsAssumption DEF Pids, IsSection
<1>5. FeedOK(Begun)
  <2>1. ParserOK(p)
    BY <1>1, NewSectionOK DEF ParserOK
  <2>2. DeliveredOK(NothingGiven)
    <3>1. <<>> \in Seq(GoodPieces)
      OBVIOUS
    <3> QED
      BY <1>3, <3>1 DEF DeliveredOK
  <2> QED
    BY <1>2, <2>1, <2>2 DEF FeedOK
<1>6. InOrder(p, NothingGiven, 0)
  <2>1. OutOK(<<>>, 0)
    <3>1. UnitIds(<<>>) = {} /\ UnitsRise(<<>>) /\ <<>> \in Seq(UnitSet(Cells, Stamps))
      BY DEF UnitIds, UnitsRise
    <3> QED
      BY <3>1 DEF OutOK
  <2> SUFFICES ASSUME NEW s \in Pids, ~IsSection(s) PROVE PidInOrder(p, <<>>, s, 0)
    BY <1>3 DEF InOrder
  <2>2. s \in DOMAIN p.streams => Goes(p.streams[s], transport.codec[s], <<>>, 0)
    BY <1>1, <1>4, NewStreamGoes
  <2> QED
    BY <1>1, <1>4, <2>1, <2>2 DEF PidInOrder
<1>7. \A mode : Timed(NewQueue(mode), transport.pts)
  <2> SUFFICES ASSUME NEW mode PROVE Timed(NewQueue(mode), transport.pts)
    OBVIOUS
  <2>1. NewQueue(mode).ranges = <<>> /\ NewQueue(mode).buffer = <<>>
    BY DEF NewQueue
  <2>2. <<>> \in Seq(RangeSet(Stamps)) /\ Len(<<>>) = 0
    OBVIOUS
  <2>3. RangeEnds(<<>>)[0] = 0
    BY <2>2, EndsAre
  <2> QED
    BY <2>1, <2>2, <2>3 DEF Timed, InStep, Framed
<1>8. AllTimely(<<>>)
  BY DEF AllTimely
<1>9. StampedUpto(Begun, 0)
  <2> SUFFICES ASSUME NEW s \in Pids, Kept(s), s \in DOMAIN p.streams
               PROVE  Stamped(p.streams[s], s, 0)
    BY <1>2, <1>3, <1>8 DEF StampedUpto
  <2>1. p.streams[s] = NewStream(transport.codec[s])
    BY <1>1
  <2>2. /\ p.streams[s].buffer = <<>> /\ p.streams[s].started = FALSE
        /\ p.streams[s].queue = NewQueue(transport.codec[s])
    BY <2>1 DEF NewStream
  <2> QED
    BY <1>7, <2>2 DEF Stamped, PesTimed
<1> QED
  BY <1>2, <1>5, <1>6, <1>9

(* After any number of packets in a row.                                   *)
LEMMA RowStamped ==
    ASSUME transport \in Transports, mChannels \subseteq Pids, NEW n \in Nat, n <= Len(Packets),
           NEW g, IsFed(g, n)
    PROVE  StampedUpto(Result, n)
<1> DEFINE T == {k \in 0 .. n : FeedOK(g[k]) /\ InOrder(g[k].p, g[k].delivered, 2 * k)
                                /\ StampedUpto(g[k], k)}
<1>1. g[0] = Begun /\ Result = g[n] /\ \A k \in 1 .. n : g[k] = parseTS(g[k - 1], PacketAt(k))
  BY DEF IsFed
<1>2. 0 \in T
  BY <1>1, BegunStamped
<1>3. ASSUME NEW k \in 1 .. n, k - 1 \in T PROVE k \in T
  <2>1. k \in DOMAIN Packets /\ k \in 0 .. n
    BY UnitsOfPackets
  <2>2. FeedOK(g[k - 1]) /\ InOrder(g[k - 1].p, g[k - 1].delivered, 2 * (k - 1))
        /\ StampedUpto(g[k - 1], k - 1)
    BY <1>3
  <2>3. g[k] = parseTS(g[k - 1], PacketAt(k))
    BY <1>1
  <2>4. FeedOK(g[k]) /\ InOrder(g[k].p, g[k].delivered, 2 * k) /\ StampedUpto(g[k], k)
    BY <2>1, <2>2, <2>3, PacketStamped
  <2> QED
    BY <2>1, <2>4
<1> HIDE DEF T
<1>4. \A k \in 1 .. n : k - 1 \in T => k \in T
  BY <1>3
<1>5. \A k \in 0 .. n : k \in T
  BY <1>2, <1>4, InductionToLength
<1>6. n \in T
  BY <1>5
<1> QED
  BY <1>1, <1>6 DEF T

LEMMA CleanIsStamped ==
    ASSUME CleanInv, clean, NEW pid \in Pids, Kept(pid), NEW i \in DOMAIN delivered[pid],
           Head(delivered[pid][i].cells).id # 0
    PROVE  delivered[pid][i].pts = transport.pts[Head(delivered[pid][i].cells).id]
<1>1. /\ transport \in Transports /\ mChannels \subseteq Pids /\ sent \in Nat
      /\ Len(Packets) \in Nat /\ sent <= 2 * Len(Packets)
  BY UnitsOfPackets DEF CleanInv, OrderInv, SectionsInv, ThreadsOK
<1>2. PICK h \in 0 .. sent : FedUpto(h)
  BY DEF CleanInv, CleanOK, HandledUpto
<1>3. AllTimely(delivered[pid])
  <2>1. CASE Begins
    <3>1. delivered[pid] = <<>>
      BY <2>1 DEF Begins, NothingGiven
    <3> QED
      BY <3>1 DEF AllTimely
  <2>2. CASE \E g : IsFed(g, h \div 2)
    <3>1. h \div 2 \in Nat /\ h \div 2 <= Len(Packets)
      BY <1>1, <1>2
    <3>2. StampedUpto(Result, h \div 2)
      BY <1>1, <2>2, <3>1, RowStamped
    <3> QED
      BY <3>2 DEF StampedUpto, Result
  <2> QED
    BY <1>2, <2>1, <2>2 DEF FedUpto
<1> DEFINE unit == delivered[pid][i]
<1>4. UnitTimely(unit, transport.pts) /\ unit \in UnitSet(Cells, Stamps)
  BY <1>3 DEF AllTimely
<1> HIDE DEF unit
<1>5. unit.cells \in Seq(Cells) /\ unit.cells # <<>>
  BY <1>4 DEF UnitSet
<1>6. Head(unit.cells) = unit.cells[1]
  BY <1>5
<1> QED
  BY <1>4, <1>5, <1>6 DEF UnitTimely, unit

NoMpegAudio == \A pid \in Pids : transport.codec[pid] # "MPEG_AUDIO"

(* The frames of a stream that nothing was lost of come in order and each  *)
(* with the timestamp of the PES packet it began in, whatever the codec    *)
(* but for MPEG audio; H.264 and H.265 where no payload ends in zero       *)
(* bytes, which FramesStamped says (AmlESQueue::fetchTimestamp).           *)
THEOREM CleanFramesTimely == SwSpec => [](clean /\ NoMpegAudio => FramesTimely)
<1>1. OrderInv => FramesInOrder
  BY OrderIsFrames
<1>2. CleanInv /\ clean /\ NoMpegAudio => FramesStamped
  BY CleanIsStamped DEF NoMpegAudio, FramesStamped, Kept, Pictures
<1>3. CleanInv /\ clean /\ NoMpegAudio => FramesTimely
  BY <1>1, <1>2 DEF FramesTimely, CleanInv
<1>4. SwInit => CleanInv
  BY OrderInitial, CleanInitial DEF CleanInv
<1> QED
  BY <1>3, <1>4, CleanStep, PTL DEF SwSpec
=============================================================================
