------------------------------ MODULE TsParser ------------------------------
(***************************************************************************)
(* demux/AmlTsParser.cpp: what the parser makes of the tables of a stream. *)
(*                                                                         *)
(* Sections come one at a time, on the thread of the demux, for the pids   *)
(* that have a filter.  PAT, CAT and the PMTs of the programs come in any  *)
(* order and again; a PMT comes with a new version and other streams.  The *)
(* program that is played is selected by its number or by the pids of its  *)
(* streams; what is known of it is collected in the program information,   *)
(* on which clients wait, and changes of its streams are reported.         *)
(*                                                                         *)
(* A section is the sequence of its entries, an entry the sequence of its  *)
(* descriptors: the fields are kept, their places in the bytes are not.    *)
(* How the filters get their sections is in HwDemux and SwDemux.           *)
(***************************************************************************)
EXTENDS Integers, Sequences, FiniteSets, FiniteSetsExt

CONSTANTS
    Client,         \* threads that wait for the program information
    Pats,           \* the PATs there may be: sequences of [programNumber, pmtPid]
    Cats,           \* the CATs: sequences of descriptors
    Pmts,           \* PMT pid -> the contents its sections may have
    Selections,     \* what may be selected: [program, video, audio]
    MaxChanges      \* bound of the model: new versions on the air

INVALID == 8191                     \* AML_MP_INVALID_PID
PatPid == 0
CatPid == 1
Kinds == {"audio", "video", "subtitle"}

(* What a PMT may say: numbers of 16 bits, pids but that of the stuffing.  *)
PmtEntry ==
    [pid : Nat \ {INVALID}, type : Nat, descriptors : Seq([tag : Nat, id : Nat])]
ASSUME PmtAssumption ==
    \A p \in DOMAIN Pmts : \A content \in Pmts[p] :
        p \in Nat /\ content.programNumber \in Nat /\ content.streams \in Seq(PmtEntry)

VARIABLES
    pc,             \* the demux's thread: "idle", or where it is in onPmtParsed
    pmt,            \* the section it works on
    toFill,         \* streams it has still to look at
    found,          \* what it found of the section under mLock
    mProgramNumber, mVPid, mAPid,
    mFilters,       \* pids with a section filter
    mPidPmtMap,     \* PMT pid -> its last section
    mEcmPidSet,
    mProgramInfo,
    mParseDone, mCATParseDone, mRequestQuit,
    client,         \* client -> "idle", "program" or "cat" (what it waits for), "left"
    awake,          \* waiters that were notified
    onAir,          \* PMT pid -> [content, version]
    reported,       \* {the pids a listener knows the program to have}, or {} before that
    reportedLate,   \* the program was reported first when a CAT completed it
    emptyPat,       \* a PAT without programs has come
    fault           \* a null pointer was followed

tables == <<mProgramNumber, mVPid, mAPid, mFilters, mPidPmtMap, mEcmPidSet>>
flags == <<mParseDone, mCATParseDone, mRequestQuit>>
listener == <<reported, reportedLate>>
handling == <<pc, pmt, toFill, found>>
parservars == <<handling, tables, mProgramInfo, flags, client, awake, onAir, listener, emptyPat, fault>>

---------------------------------------------------------------------------
(* Codecs and descriptors                                                  *)

Row(type, kind, codec) == [type |-> type, kind |-> kind, codec |-> codec]
Unknown == Row(0, "none", "none")
MKTAG(a, b, c, d) == a + 256 * b + 65536 * c + 16777216 * d

g_streamTypes ==
    {Row(1, "video", "mpeg12"), Row(2, "video", "mpeg12"), Row(3, "audio", "mp3"),
     Row(4, "audio", "mp3"), Row(15, "audio", "aac"), Row(16, "video", "mpeg4"),
     Row(17, "audio", "latm"), Row(27, "video", "h264"), Row(36, "video", "hevc"),
     Row(129, "audio", "ac3"), Row(130, "subtitle", "scte27")}
g_descTypes ==
    {Row(106, "audio", "ac3"), Row(122, "audio", "eac3"), Row(123, "audio", "dts"),
     Row(86, "subtitle", "teletext"), Row(89, "subtitle", "dvb")}
g_identifierTypes ==
    {Row(MKTAG(65, 67, 45, 51), "audio", "ac3"), Row(MKTAG(69, 65, 67, 51), "audio", "eac3"),
     Row(MKTAG(72, 69, 86, 67), "video", "hevc")}
g_extDescTypes == {Row(21, "audio", "ac4"), Row(32, "subtitle", "ttml")}

\* The row of the table, or a null pointer.
getStreamTypeInfo(type, table) ==
    IF \E row \in table : row.type = type THEN CHOOSE row \in table : row.type = type ELSE Unknown

CaTag == 9
LanguageTag == 10
TeletextTag == 86
RegistrationTag == 5
ExtensionTag == 127

\* Of several descriptors with one tag the last one counts.
LastId(descriptors, tag, none) ==
    LET places == {i \in DOMAIN descriptors : descriptors[i].tag = tag}
    IN  IF places = {} THEN none ELSE descriptors[Max(places)].id

\* The tag under which a stream's codec is looked up: a registration and an
\* extension stand for what they carry.
TagOf(d) ==
    IF d.tag = RegistrationTag \/ (d.tag = ExtensionTag /\ \E row \in g_extDescTypes : row.type = d.id)
    THEN d.id ELSE d.tag

HasTag(descriptors, tag) == \E i \in DOMAIN descriptors : descriptors[i].tag = tag

\* Audio type 3 is the audio description.
Stream(entry) ==
    LET ds == entry.descriptors IN
    [pid |-> entry.pid, type |-> entry.type, ecmPid |-> LastId(ds, CaTag, INVALID),
     tags |-> [i \in DOMAIN ds |-> TagOf(ds[i])],
     isAD |-> \E i \in DOMAIN ds : ds[i].tag = LanguageTag /\ ds[i].id = 3,
     page |-> LastId(ds, TeletextTag, -1)]

\* pmtCb: a CA descriptor of a stream makes the whole program scrambled.
PmtSection(pid, section, version) ==
    [pmtPid |-> pid, programNumber |-> section.programNumber, version |-> version,
     ecmPid |-> LastId(section.descriptors, CaTag, INVALID),
     scrambled |-> \/ HasTag(section.descriptors, CaTag)
                   \/ \E i \in DOMAIN section.streams : HasTag(section.streams[i].descriptors, CaTag),
     streams |-> [i \in DOMAIN section.streams |-> Stream(section.streams[i])]]

\* catCb.
EmmPid(cat) == LastId(cat, CaTag, INVALID)

\* A stream whose type says nothing is known by the first descriptor that does.
StreamCodec(stream) ==
    LET byType == getStreamTypeInfo(stream.type, g_streamTypes)
        byTag == [i \in DOMAIN stream.tags |->
                    getStreamTypeInfo(stream.tags[i], g_descTypes \cup g_identifierTypes \cup g_extDescTypes)]
        known == {i \in DOMAIN stream.tags : byTag[i] # Unknown}
    IN  IF byType # Unknown THEN byType ELSE IF known # {} THEN byTag[Min(known)] ELSE Unknown

---------------------------------------------------------------------------
(* checkPidChange                                                          *)

\* A pid that a section names twice is the first of its streams.
StreamMap(section) ==
    [p \in {section.streams[i].pid : i \in DOMAIN section.streams} |->
        section.streams[Min({i \in DOMAIN section.streams : section.streams[i].pid = p})]]

TypeInfo(map, p) == getStreamTypeInfo(map[p].type, g_streamTypes)

\* The old stream p and the new one q: of one type, or else of one kind.
SameType(old, new, p, q) == old[p].type = new[q].type
Fits(old, new, p, q) ==
    SameType(old, new, p, q) \/ TypeInfo(old, p).kind = TypeInfo(new, q).kind

\* Mutant: a stream that nothing replaces is not reported as gone.
ReplaceOnly(old, new, acc) ==
    LET p == Min(acc.gone)
        fit == {q \in acc.left : Fits(old, new, p, q)}
    IN  IF fit = {} THEN [acc EXCEPT !.gone = @ \ {p}]
        ELSE [acc EXCEPT !.gone = @ \ {p}, !.changed = @ \cup {<<p, Min(fit)>>}, !.left = @ \ {Min(fit)}]

\* The next of the old streams that are gone.  The first of the new streams left that
\* fits replaces it.  The kinds of those before that are looked up through a pointer
\* that is null for a type not in the table.
Replace(old, new, acc) ==
    LET p == Min(acc.gone)
        fit == {q \in acc.left : Fits(old, new, p, q)}
        q == IF fit = {} THEN INVALID ELSE Min(fit)
        compared == {x \in acc.left : x <= q /\ ~SameType(old, new, p, x)}
    IN  [gone |-> acc.gone \ {p}, left |-> acc.left \ {q}, changed |-> acc.changed \cup {<<p, q>>},
         null |-> acc.null \/ \E x \in compared :
                                 Unknown \in {TypeInfo(old, p), TypeInfo(new, x)}]

\* All that are gone, in the order of their pids.
Replaced(old, new, start) ==
    LET after[n \in 0 .. Cardinality(start.gone)] ==
            IF n = 0 THEN start ELSE Replace(old, new, after[n - 1])
    IN  after[Cardinality(start.gone)]

\* Pairs of old and new pid: one stream is replaced, retyped, gone or new.
checkPidChange(oldPmt, newPmt) ==
    LET old == StreamMap(oldPmt)
        new == StreamMap(newPmt)
        both == DOMAIN old \cap DOMAIN new
        retyped == {<<p, p>> : p \in {x \in both : ~SameType(old, new, x, x)}}
        replaced == Replaced(old, new, [gone |-> DOMAIN old \ both, left |-> DOMAIN new \ both,
                                        changed |-> retyped, null |-> FALSE])
        changed == replaced.changed \cup {<<INVALID, q>> : q \in replaced.left}
    IN  [changed |-> changed,
         null |-> replaced.null
                  \/ \E c \in changed : c[2] # INVALID /\ TypeInfo(new, c[2]) = Unknown]

---------------------------------------------------------------------------
(* The program information and who waits for it                            *)

NoStream == [pid |-> INVALID, codec |-> "none", page |-> -1]

\* The initialiser of ecmPid names the first entry; the others are 0.
EmptyInfo ==
    [programNumber |-> -1, pmtPid |-> INVALID, scrambled |-> FALSE, emmPid |-> INVALID,
     ecmPid |-> [audio |-> INVALID, video |-> 0, subtitle |-> 0],
     audio |-> NoStream, video |-> NoStream, subtitle |-> NoStream, ad |-> NoStream,
     streams |-> {}]

programComplete(info) ==
    /\ info.audio.pid # INVALID \/ info.video.pid # INVALID
    /\ info.scrambled => info.emmPid # INVALID \/ \E k \in Kinds : info.ecmPid[k] # INVALID

Waiting(what) == {c \in Client : client[c] = what}

\* Mutant: the waiters are not woken.
DoneQuietly == mParseDone' = TRUE /\ UNCHANGED awake

notifyParseDone ==
    /\ mParseDone' = TRUE
    /\ awake' = awake \cup Waiting("program") \cup Waiting("cat")

ParserInit ==
    /\ pc = "idle" /\ pmt = <<>> /\ toFill = <<>> /\ found = <<>>
    /\ \E s \in Selections : mProgramNumber = s.program /\ mVPid = s.video /\ mAPid = s.audio
    /\ mFilters = {PatPid, CatPid}
    /\ mPidPmtMap = <<>> /\ mEcmPidSet = {}
    /\ mProgramInfo = EmptyInfo
    /\ mParseDone = FALSE /\ mCATParseDone = FALSE /\ mRequestQuit = FALSE
    /\ client = [c \in Client |-> "idle"] /\ awake = {}
    /\ \E first \in [DOMAIN Pmts -> UNION {Pmts[p] : p \in DOMAIN Pmts}] :
        /\ \A p \in DOMAIN Pmts : first[p] \in Pmts[p]
        /\ onAir = [p \in DOMAIN Pmts |-> [content |-> first[p], version |-> 0]]
    /\ reported = {} /\ reportedLate = FALSE /\ emptyPat = FALSE /\ fault = FALSE

\* What the waits wait for.
Done(what) == mRequestQuit \/ IF what = "cat" THEN mCATParseDone ELSE mParseDone

\* waitProgramInfoParsed and waitCATSectionDataParsed.
WaitFor(c, what) ==
    /\ client[c] = "idle"
    /\ client' = [client EXCEPT ![c] = IF Done(what) THEN "left" ELSE what]
    /\ UNCHANGED <<handling, tables, mProgramInfo, flags, awake, onAir, listener, emptyPat, fault>>

Wake(c) ==
    /\ c \in awake
    /\ awake' = awake \ {c}
    /\ client' = [client EXCEPT ![c] = IF Done(@) THEN "left" ELSE @]
    /\ UNCHANGED <<handling, tables, mProgramInfo, flags, onAir, listener, emptyPat, fault>>

\* Sixty seconds have passed.
TimeOut(c) ==
    /\ client[c] \in {"program", "cat"}
    /\ client' = [client EXCEPT ![c] = "left"]
    /\ awake' = awake \ {c}
    /\ UNCHANGED <<handling, tables, mProgramInfo, flags, onAir, listener, emptyPat, fault>>

signalQuit ==
    /\ ~mRequestQuit /\ mRequestQuit' = TRUE
    /\ awake' = awake \cup Waiting("program") \cup Waiting("cat")
    /\ UNCHANGED <<handling, tables, mProgramInfo, mParseDone, mCATParseDone, client, onAir,
                   listener, emptyPat, fault>>

---------------------------------------------------------------------------
(* The sections                                                            *)

\* The stream changes: a PMT gets other contents and the next version.
Rebroadcast(p) ==
    /\ onAir[p].version < MaxChanges
    /\ \E content \in Pmts[p] \ {onAir[p].content} :
        onAir' = [onAir EXCEPT ![p] = [content |-> content, version |-> @.version + 1]]
    /\ UNCHANGED <<handling, tables, mProgramInfo, flags, client, awake, listener, emptyPat, fault>>

\* patCb: entries of program 0 name the network.
Programs(pat) == SelectSeq(pat, LAMBDA e : e.programNumber # 0)

\* The PAT is looked at once: its filter goes, every program's PMT gets one.  Where
\* nothing was selected the first program is.
onPatParsed(pat) ==
    LET programs == Programs(pat) IN
    /\ pc = "idle" /\ PatPid \in mFilters
    /\ mFilters' = (mFilters \ {PatPid}) \cup {programs[i].pmtPid : i \in DOMAIN programs}
    /\ IF mProgramNumber = -1 /\ mVPid = INVALID /\ mAPid = INVALID /\ programs # <<>>
       THEN mProgramNumber' = programs[1].programNumber
       ELSE UNCHANGED mProgramNumber
    /\ IF programs = <<>> THEN notifyParseDone /\ emptyPat' = TRUE
       ELSE UNCHANGED <<mParseDone, awake, emptyPat>>
    /\ UNCHANGED <<handling, mVPid, mAPid, mPidPmtMap, mEcmPidSet, mProgramInfo, mCATParseDone,
                   mRequestQuit, client, onAir, listener, fault>>

\* Mutant: every program's PMT is taken.
AnyProgram(section) == TRUE

\* The program is the one selected: by its number, or by the pids of its streams.
IsSelected(section) ==
    LET pids == {section.streams[i].pid : i \in DOMAIN section.streams} IN
    IF mProgramNumber # -1 THEN mProgramNumber = section.programNumber
    ELSE /\ mVPid \in pids \cup {INVALID}
         /\ mAPid \in (pids \ {mVPid}) \cup {INVALID}

\* A PMT with a version not seen before, current and with streams: what mLock is held
\* for.
onPmtParsed(p) ==
    LET section == PmtSection(p, onAir[p].content, onAir[p].version)
        isNew == p \notin DOMAIN mPidPmtMap
        changes == IF isNew THEN [changed |-> {}, null |-> FALSE]
                   ELSE checkPidChange(mPidPmtMap[p], section)
        selected == IsSelected(section)
    IN  /\ pc = "idle" /\ p \in mFilters
        /\ ~isNew => mPidPmtMap[p].version # section.version
        /\ onAir[p].content.current /\ section.streams # <<>>
        /\ fault' = changes.null
        /\ mPidPmtMap' = [q \in DOMAIN mPidPmtMap \cup {p} |->
                            IF q = p THEN section ELSE mPidPmtMap[q]]
        /\ mProgramNumber' = IF selected THEN section.programNumber ELSE mProgramNumber
        /\ mEcmPidSet' = mEcmPidSet \cup
                            IF selected /\ section.scrambled THEN {section.ecmPid} ELSE {}
        /\ mFilters' = mFilters \cup (mEcmPidSet' \ mEcmPidSet)
        /\ IF selected
           THEN /\ pc' = "start" /\ pmt' = section
                /\ found' = [isNew |-> isNew, changed |-> changes.changed]
           ELSE UNCHANGED <<pc, pmt, found>>
    /\ UNCHANGED <<toFill, mVPid, mAPid, mProgramInfo, flags, client, awake, onAir, listener,
                   emptyPat>>

\* From here on the information is filled in without the lock.
FillProgram ==
    /\ pc = "start"
    /\ mProgramInfo' = [mProgramInfo EXCEPT
                            !.programNumber = pmt.programNumber, !.pmtPid = pmt.pmtPid,
                            !.scrambled = pmt.scrambled, !.ecmPid = [k \in Kinds |-> pmt.ecmPid]]
    /\ pc' = "fill" /\ toFill' = pmt.streams
    /\ UNCHANGED <<pmt, found, tables, flags, client, awake, onAir, listener, emptyPat, fault>>

\* The first stream of each kind is the program's.  It keeps its place when a new
\* version has others, and the lists of streams only grow.
FillStream ==
    /\ pc = "fill" /\ toFill # <<>>
    /\ LET stream == Head(toFill)
           codec == StreamCodec(stream)
           what == IF codec.kind = "audio" /\ stream.isAD THEN "ad" ELSE codec.kind
           listed == [mProgramInfo EXCEPT !.streams = @ \cup {stream.pid}]
           named == [listed EXCEPT ![what] = [pid |-> stream.pid, codec |-> codec.codec,
                         page |-> IF codec.codec = "teletext" THEN stream.page ELSE -1]]
       IN  mProgramInfo' =
             IF codec = Unknown THEN mProgramInfo
             ELSE IF mProgramInfo[what].pid # INVALID THEN listed
             ELSE IF what # "ad" /\ stream.ecmPid # INVALID
                  THEN [named EXCEPT !.ecmPid[what] = stream.ecmPid]
                  ELSE named
    /\ toFill' = Tail(toFill)
    /\ UNCHANGED <<pc, pmt, found, tables, flags, client, awake, onAir, listener, emptyPat, fault>>

\* The pids a listener finds in the lists of the program's streams.
Known(section) ==
    {section.streams[i].pid : i \in {j \in DOMAIN section.streams :
                                        StreamCodec(section.streams[j]) # Unknown}}

\* A listener that takes over the changes.  But for a stream that is retyped no pid is
\* in two of them, so it does not matter in which order it does.
Follow(pids, changed) ==
    (pids \ {c[1] : c \in changed}) \cup ({c[2] : c \in changed} \ {INVALID})

\* A new PMT is reported as a program, one that has changed by its changes; then those
\* who wait are told.
Report ==
    /\ pc = "fill" /\ toFill = <<>>
    /\ reported' = IF found.isNew
                   THEN IF programComplete(mProgramInfo) THEN {Known(pmt)} ELSE reported
                   ELSE {Follow(r, found.changed) : r \in reported}
    /\ UNCHANGED reportedLate
    /\ IF programComplete(mProgramInfo) THEN notifyParseDone ELSE UNCHANGED <<mParseDone, awake>>
    /\ pc' = "idle" /\ pmt' = <<>> /\ found' = <<>>
    /\ UNCHANGED <<toFill, tables, mProgramInfo, mCATParseDone, mRequestQuit, client, onAir,
                   emptyPat, fault>>

\* A CAT may complete what was not complete, and wakes who waits.
onCatParsed(cat) ==
    LET info == [mProgramInfo EXCEPT !.scrambled = TRUE, !.emmPid = EmmPid(cat)]
    IN  /\ pc = "idle" /\ CatPid \in mFilters
        /\ mProgramInfo' = info
        /\ mCATParseDone' = TRUE
        /\ IF programComplete(info)
           THEN /\ mParseDone' = TRUE
                /\ reported' = IF reported = {} THEN {info.streams} ELSE reported
                /\ reportedLate' = (reportedLate \/ reported = {})
           ELSE UNCHANGED <<mParseDone, listener>>
        /\ awake' = awake \cup Waiting("program") \cup Waiting("cat")
    /\ UNCHANGED <<handling, tables, mRequestQuit, client, onAir, emptyPat, fault>>

---------------------------------------------------------------------------
DemuxStep ==
    \/ \E pat \in Pats : onPatParsed(pat)
    \/ \E p \in DOMAIN Pmts : onPmtParsed(p)
    \/ \E cat \in Cats : onCatParsed(cat)
    \/ FillProgram \/ FillStream \/ Report

\* A null pointer ends the program.
ParserNext ==
    /\ ~fault
    /\ \/ DemuxStep \/ signalQuit
       \/ \E p \in DOMAIN Pmts : Rebroadcast(p)
       \/ \E c \in Client : Wake(c) \/ TimeOut(c) \/ \E what \in {"program", "cat"} : WaitFor(c, what)

\* Those who are woken run; that sixty seconds pass is not needed.
ParserSpec == ParserInit /\ [][ParserNext]_parservars /\ \A c \in Client : WF_parservars(~fault /\ Wake(c))

---------------------------------------------------------------------------
(* What the parser is to tell                                              *)

\* A listener that takes the streams of the program when it is reported, and after
\* that each change, knows the streams of the last PMT.  Where the first report came
\* with a CAT, it may know streams of earlier PMTs as well.
ChangesAddUp ==
    (pc = "idle" /\ ~fault) =>
        \A pids \in reported :
            LET last == Known(mPidPmtMap[mProgramInfo.pmtPid]) IN
            last \subseteq pids /\ (pids = last \/ reportedLate)

\* Who is told that the program is known finds an audio or a video stream of it, and
\* the PMT that made it known has been gone through to its end; whatever is known are
\* streams of the selected program.
InfoIsTheProgram ==
    /\ (mParseDone /\ ~emptyPat) =>
        /\ INVALID \notin {mProgramInfo.audio.pid} \cap {mProgramInfo.video.pid}
        /\ pc # "idle" => ~found.isNew
    /\ mProgramInfo.programNumber \in {-1, mProgramNumber}
    /\ \A what \in Kinds \cup {"ad"} :
        mProgramInfo[what].pid # INVALID =>
            \E p \in DOMAIN Pmts : \E content \in Pmts[p] :
                /\ content.programNumber = mProgramNumber
                /\ \E i \in DOMAIN content.streams : content.streams[i].pid = mProgramInfo[what].pid

\* Who waits leaves once the program is known or everything is to quit, without
\* waiting for the timeout.
WaitersLeave ==
    \A c \in Client :
        (client[c] = "program" /\ (mParseDone \/ mRequestQuit)) ~> (client[c] = "left" \/ fault)
=============================================================================
