-------------------------------- MODULE IptvCas --------------------------------
(***************************************************************************)
(* The IPTV clients of cas/: AmlVMXIptvCas_V2 ("vmx2"), AmlVMXIptvCas      *)
(* ("vmx"), AmlWVIptvCas_V2 ("wv2"), AmlVMXWebCas ("web") and              *)
(* AmlNagraWebCas ("nagra"), over the plugin that AmCasLibWrapper loads.   *)
(* The client of this module is AmlMpPlayerImpl: startDescrambling_l makes *)
(* an object and starts it, stopDescrambling_l stops and drops it.  The    *)
(* plugin is external: a call it has no symbol for fails, a call named in  *)
(* PlugFaults may fail.                                                    *)
(***************************************************************************)
EXTENDS Integers, Sequences

CONSTANTS
  Kinds,         \* the kinds an object is made of
  EcmPids,       \* pairs <<audio, video>>: mIptvCasParam.ecmPid[0], [1]
  Key,           \* payloads of an ECM
  PlugSymbols,   \* the functions the plugin's library defines
  PlugFaults,    \* plugin calls that may fail
  MaxObjects,    \* bound: objects made
  MaxPackets     \* bound: packets in one buffer

NoEcm == 0 - 1
NoKey == 0

(* A service to descramble names an ECM pid. *)
ASSUME IptvAssumption ==
    /\ EcmPids \subseteq Int \X Int /\ <<NoEcm, NoEcm>> \notin EcmPids
    /\ MaxObjects \in Nat /\ MaxPackets \in Nat

OtherPid == 9
PACKET == 3      \* TS_PACKET_SIZE: a packet is its sync byte, pid and payload
Sync == 100

VARIABLES
  iKind,         \* the kind of the object, "none" when there is none
  pIptvCas,      \* the wrapper (or, for "vmx", mCasHandle) is there
  ecmPid,        \* mIptvCasParam.ecmPid
  ecmForm,       \* how the player hands over ECMs: "packet" | "section"
  mEcmTsPacket,  \* the payload of the last ECM packet seen
  dscSource,     \* the source written to TSN_PATH, process-wide
  plug,          \* the plugin: [open : sessions, video, audio : the keys it has]
  ecmSeen,       \* the last ECM payload the stream carried in this session
  refused,       \* the plugin refused it
  objects

ivars == <<iKind, pIptvCas, ecmPid, ecmForm, mEcmTsPacket, dscSource, plug, ecmSeen,
           refused, objects>>

PlugOutcome(call) == IF call \notin PlugSymbols THEN {FALSE}
                     ELSE IF call \in PlugFaults THEN BOOLEAN ELSE {TRUE}

NewPlug == [open |-> 0, video |-> NoKey, audio |-> NoKey]

IptvInit ==
    /\ iKind = "none" /\ pIptvCas = FALSE /\ ecmPid = <<NoEcm, NoEcm>>
    /\ ecmForm = "packet" /\ mEcmTsPacket = NoKey /\ dscSource = "DVB" /\ plug = NewPlug
    /\ ecmSeen = NoKey /\ refused = FALSE /\ objects = 0

-----------------------------------------------------------------------------
(* AmlCasBase::create and the constructors: some kinds load the plugin at  *)
(* once, the others when they start.                                       *)
LoadsEarly == {"vmx2", "web", "nagra"}

create ==
    /\ iKind = "none" /\ objects < MaxObjects
    /\ \E k \in Kinds :
         /\ iKind' = k
         /\ pIptvCas' = (k \in LoadsEarly)
    /\ mEcmTsPacket' = NoKey
    /\ ecmPid' = <<NoEcm, NoEcm>>
    /\ objects' = objects + 1
    /\ UNCHANGED <<ecmForm, dscSource, plug, ecmSeen, refused>>

(* The player asks for the pids whose packets it must hand over.           *)
getEcmPids == {ecmPid[i] : i \in {j \in 1 .. 2 : ecmPid[j] > 0}}

SetsDsc == {"vmx2", "web"}
DscOf(k, source) == IF k \in SetsDsc THEN source ELSE dscSource

Opens(ok) == IF ok THEN [NewPlug EXCEPT !.open = plug.open + 1] ELSE plug

Started(pids) ==
    /\ ecmPid' = pids /\ ecmForm' \in {"packet", "section"}
    /\ ecmSeen' = NoKey /\ refused' = FALSE

(* Verimatrix and the web clients: what setPrivateData and provision       *)
(* return is not looked at.                                                *)
StartsEarly(kind) ==
    /\ iKind = kind /\ ecmPid = <<NoEcm, NoEcm>>
    /\ dscSource' = DscOf(kind, "IPTV")
    /\ \E ok \in PlugOutcome("openSession") : plug' = Opens(ok)
    /\ \E pids \in EcmPids : Started(pids)
    /\ UNCHANGED <<iKind, pIptvCas, mEcmTsPacket, objects>>

StartVmx2 == StartsEarly("vmx2")
StartWeb == StartsEarly("web")
StartNagra == StartsEarly("nagra")

(* Widevine gives up where they fail, and keeps the plugin it loaded.      *)
StartWidevine ==
    /\ iKind = "wv2" /\ ecmPid = <<NoEcm, NoEcm>>
    /\ pIptvCas' = TRUE
    /\ \E private \in PlugOutcome("setPrivateData"),
          provisioned \in PlugOutcome("provision"),
          ok \in PlugOutcome("openSession") :
         plug' = Opens(private /\ provisioned /\ ok)
    /\ \E pids \in EcmPids : Started(pids)
    /\ UNCHANGED <<iKind, mEcmTsPacket, dscSource, objects>>

(* AmlVMXIptvCas knows one ECM pid.                                        *)
StartVmx ==
    /\ iKind = "vmx" /\ ecmPid = <<NoEcm, NoEcm>>
    /\ \E ok \in PlugOutcome("openSession") :
         /\ pIptvCas' = ok
         /\ plug' = Opens(ok)
    /\ \E pids \in EcmPids : Started(pids)
    /\ UNCHANGED <<iKind, mEcmTsPacket, dscSource, objects>>

startDescrambling == \/ StartVmx2 \/ StartWeb \/ StartNagra
                     \/ StartWidevine \/ StartVmx

(* closeSession, then the wrapper goes; "vmx" stops and keeps its handle   *)
(* until its destructor.  stopDescrambling_l drops the object at once.     *)
Closes == [plug EXCEPT !.open = IF @ > 0 THEN @ - 1 ELSE 0]

Stops(kind, after) ==
    /\ iKind = kind /\ ecmPid # <<NoEcm, NoEcm>>
    /\ dscSource' = DscOf(kind, "DVB")
    /\ plug' = after
    /\ pIptvCas' = FALSE
    /\ iKind' = "none"
    /\ UNCHANGED <<ecmPid, ecmForm, mEcmTsPacket, ecmSeen, refused, objects>>

StopVmx2 == Stops("vmx2", IF pIptvCas THEN Closes ELSE plug)
StopWeb == Stops("web", IF pIptvCas THEN Closes ELSE plug)
StopNagra == Stops("nagra", IF pIptvCas THEN Closes ELSE plug)
\* Mutant: the wrapper goes without its session being closed.
StopWidevineOpen == Stops("wv2", plug)
StopWidevine == Stops("wv2", IF pIptvCas THEN Closes ELSE plug)
StopVmx == Stops("vmx", IF pIptvCas THEN Closes ELSE plug)

stopDescrambling == \/ StopVmx2 \/ StopWeb \/ StopNagra
                    \/ StopWidevine \/ StopVmx
-----------------------------------------------------------------------------
(* checkEcmProcess over a buffer of bytes.  At a sync byte that another    *)
(* follows a packet later, or that begins the last packet, there is a      *)
(* packet; at any other a packet's length is skipped; any other byte is    *)
(* skipped alone.                                                          *)
IsPacket(b, i) ==
    b[i] = Sync /\ (i + PACKET - 1 = Len(b) \/ b[i + PACKET] = Sync)

\* Mutant: only what came on the video's pid is handed on.
DiffersVideoOnly(mem, p) == p.pid = ecmPid[2] /\ p.key # mem

(* Differs(mem, p): an ECM is handed on when its payload is not that of    *)
(* the one before, whichever pid it came on.                               *)
Differs(mem, p) == p.pid \in {ecmPid[1], ecmPid[2]} /\ p.key # mem

Hand(pl, p, ok) ==
    IF ~ok THEN pl
    ELSE IF p.pid = ecmPid[2] THEN [pl EXCEPT !.video = p.key]
    ELSE [pl EXCEPT !.audio = p.key]

(* One packet against the memory and the plugin, whose answers are ok.      *)
CheckPacket(st, p, ok) ==
    LET answer == ok[st.calls + 1] IN
    IF Differs(st.mem, p)
    THEN [st EXCEPT !.mem = p.key, !.plug = Hand(@, p, answer), !.refused = ~answer,
                    !.calls = @ + 1]
    ELSE st

(* One round of the loop, from the byte st.at on. *)
Scan(b, ok, st) ==
    IF st.at + PACKET - 1 > Len(b) THEN st
    ELSE IF b[st.at] # Sync THEN [st EXCEPT !.at = @ + 1]
    ELSE LET passed == [st EXCEPT !.at = @ + PACKET] IN
         IF IsPacket(b, st.at)
         THEN CheckPacket(passed, [pid |-> b[st.at + 1], key |-> b[st.at + 2]], ok)
         ELSE passed

checkEcmProcess(b, ok) ==
    LET round[n \in 0 .. Len(b)] ==
            IF n = 0 THEN [at |-> 1, calls |-> 0, mem |-> mEcmTsPacket, plug |-> plug,
                           refused |-> refused]
            ELSE Scan(b, ok, round[n - 1])
    IN  round[Len(b)]

\* The buffers: bytes that are no sync byte, then whole packets.
Packets == [pid : {ecmPid[1], ecmPid[2], OtherPid}, key : Key]
Bytes(ps) == [i \in 1 .. PACKET * Len(ps) |->
                 LET p == ps[((i - 1) \div PACKET) + 1]
                 IN  <<Sync, p.pid, p.key>>[((i - 1) % PACKET) + 1]]
Noise == {<<>>, <<0>>}

LastEcm(ps) ==
    LET ecm == {k \in DOMAIN ps : ps[k].pid \in {ecmPid[1], ecmPid[2]}}
    IN IF ecm = {} THEN ecmSeen ELSE ps[CHOOSE k \in ecm : \A j \in ecm : j <= k].key

HandsPackets == {"vmx2", "wv2"}

ProcessesPackets(kind) ==
    /\ iKind = kind /\ pIptvCas
    /\ ecmPid # <<NoEcm, NoEcm>> /\ ecmForm = "packet"
    /\ \E n \in 1 .. MaxPackets, noise \in Noise :
       \E ps \in [1 .. n -> Packets], ok \in [1 .. n -> PlugOutcome("processEcm")] :
         LET r == checkEcmProcess(noise \o Bytes(ps), ok)
         IN /\ mEcmTsPacket' = r.mem /\ plug' = r.plug /\ refused' = r.refused
            /\ ecmSeen' = LastEcm(ps)
    /\ UNCHANGED <<iKind, pIptvCas, ecmPid, ecmForm, dscSource, objects>>

ProcessEcmVmx2 == ProcessesPackets("vmx2")
ProcessEcmWidevine == ProcessesPackets("wv2")

(* Section ECMs pass without a comparison; "vmx" takes packets unlooked at *)
(* and refuses sections, the web clients take neither.                     *)
processEcmSection ==
    /\ iKind \in HandsPackets /\ pIptvCas
    /\ ecmPid # <<NoEcm, NoEcm>> /\ ecmForm = "section"
    /\ \E pid \in {ecmPid[1], ecmPid[2]}, key \in Key, ok \in PlugOutcome("processEcm") :
         /\ plug' = Hand(plug, [pid |-> pid, key |-> key], ok)
         /\ ecmSeen' = key /\ refused' = ~ok
    /\ UNCHANGED <<iKind, pIptvCas, ecmPid, ecmForm, mEcmTsPacket, dscSource, objects>>

processEcmVmx ==
    /\ iKind = "vmx" /\ pIptvCas /\ ecmForm = "packet"
    /\ \E key \in Key : plug' = [plug EXCEPT !.video = key]
    /\ UNCHANGED <<iKind, pIptvCas, ecmPid, ecmForm, mEcmTsPacket, dscSource,
                   ecmSeen, refused, objects>>

processEcm == ProcessEcmVmx2 \/ ProcessEcmWidevine \/ processEcmSection \/ processEcmVmx

IptvNext == create \/ startDescrambling \/ stopDescrambling \/ processEcm

IptvSpec == IptvInit /\ [][IptvNext]_ivars
-----------------------------------------------------------------------------
(***************************************************************************)
(* Properties                                                              *)
(***************************************************************************)
(* The newest control word of the stream is one the plugin was given: the  *)
(* comparison that spares the plugin repeated packets never keeps a new    *)
(* one from it, whichever pid it comes on and in whichever buffer, unless  *)
(* the plugin refused it.                                                  *)
NewestKeyIsKnown ==
    (iKind \in HandsPackets /\ ecmSeen # NoKey) =>
        refused \/ ecmSeen \in {plug.video, plug.audio}

(* When the player has dropped its client no session of the plugin is left *)
(* open and the descrambler reads from the tuner again, whatever failed.   *)
NothingIsLeftOpen == iKind = "none" => plug.open = 0 /\ dscSource = "DVB"

(* Both: the plugin has the keys while it is used and nothing afterwards.  *)
PluginIsServed == NewestKeyIsKnown /\ NothingIsLeftOpen
=============================================================================
