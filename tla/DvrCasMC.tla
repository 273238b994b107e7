------------------------------ MODULE DvrCasMC ------------------------------
(***************************************************************************)
(* The services beside the player.  They share no state: a behaviour is    *)
(* one of a DVR player, of a recorder, of the DVB CAS sessions, or of an   *)
(* IPTV CAS client.                                                        *)
(***************************************************************************)
EXTENDS DvrPlayer, DvrRecorder, DvbCas, IptvCas

VARIABLE service

MCStreams == {[video |-> 1, audio |-> 2, ad |-> 2],
              [video |-> 1, audio |-> 2, ad |-> 3]}
MCEcmPids == {<<5, 6>>, <<5, 5>>}

Init == /\ service \in {"player", "recorder", "dvb", "iptv"}
        /\ DvrInit /\ RecInit /\ CasInit /\ IptvInit

Next ==
    /\ \/ service = "player" /\ DvrNext /\ UNCHANGED <<rvars, cvars, ivars>>
       \/ service = "recorder" /\ RecNext /\ UNCHANGED <<dvars, cvars, ivars>>
       \/ service = "dvb" /\ CasNext /\ UNCHANGED <<dvars, rvars, ivars>>
       \/ service = "iptv" /\ IptvNext /\ UNCHANGED <<dvars, rvars, cvars>>
    /\ UNCHANGED service

Spec == Init /\ [][Next]_<<service, dvars, rvars, cvars, ivars>>
=============================================================================
