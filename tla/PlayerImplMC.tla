---------------------------- MODULE PlayerImplMC ----------------------------
(* Instances of PlayerImpl for TLC. *)
EXTENDS PlayerImpl, TLC

CONSTANT Faults  \* the library calls of which at most one fails per step

MCOutcomes == {{}} \cup {{x} : x \in Faults}

NoADCalls == Method \ {"startADDecoding", "stopADDecoding"}
WholeCalls == {"setParams", "setIptvCASParams", "start", "stop", "pause",
               "resume", "flush", "setPlaybackRate"}
ThreadCalls == {"start", "startVideoDecoding", "stop", "stopVideoDecoding",
                "flush", "setIptvCASParams", "setParams", "setDecodeMode",
                "startADDecoding", "stopADDecoding"}

(* Every stream known beforehand, no audio description. *)
KnownStreams ==
    ("VIDEO" :> {"none", "full"}) @@ ("AUDIO" :> {"none", "full"})
        @@ ("AD" :> {"none"}) @@ ("SUBTITLE" :> {"none", "full"})

(* A video whose codec is known, an audio whose codec the stream must      *)
(* tell, and a description.                                                *)
ProbedStreams ==
    ("VIDEO" :> {"full"}) @@ ("AUDIO" :> {"none", "nocodec"})
        @@ ("AD" :> {"full"}) @@ ("SUBTITLE" :> {"full"})

(* A client that never drops a stream from its configuration. *)
VideoAudioAndAD ==
    ("VIDEO" :> {"full"}) @@ ("AUDIO" :> {"nocodec"}) @@ ("AD" :> {"full"})
        @@ ("SUBTITLE" :> {})

Threads == Permutations(Client)
=============================================================================
