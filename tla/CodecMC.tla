------------------------------ MODULE CodecMC ------------------------------
(***************************************************************************)
(* The codec layers.  They share no state: a behaviour is one of the       *)
(* subtitle half of two players, of the layer over AmTsPlayer, of the one  *)
(* over libliveplayer.so, of the one over the tuner HAL, or of the         *)
(* packetizer.                                                             *)
(***************************************************************************)
EXTENDS PlayerBase, CtcPlayer, TvPlayer, TsCodec, Packetizer

VARIABLE layer

layers == <<bvars, ctcvars, tvvars, tsvars, pkvars>>

Init ==
    /\ layer \in {"base", "ctc", "tv", "ts", "packets"}
    /\ BaseInit /\ CtcInit /\ TvInit /\ TsInit /\ PackInit
    /\ layer # "ctc" => missing = {}
    /\ layer # "packets" => begun = 0

Next ==
    /\ UNCHANGED layer
    /\ \/ layer = "base" /\ BaseNext /\ UNCHANGED <<ctcvars, tvvars, tsvars, pkvars>>
       \/ layer = "ctc" /\ CtcNext /\ UNCHANGED <<bvars, tvvars, tsvars, pkvars>>
       \/ layer = "tv" /\ TvNext /\ UNCHANGED <<bvars, ctcvars, tsvars, pkvars>>
       \/ layer = "ts" /\ TsNext /\ UNCHANGED <<bvars, ctcvars, tvvars, pkvars>>
       \/ layer = "packets" /\ PackNext /\ UNCHANGED <<bvars, ctcvars, tvvars, tsvars>>

Spec == Init /\ [][Next]_<<layer, layers>> /\ TsFairness

-----------------------------------------------------------------------------
(* No layer leaves anything open behind it: the library player and demux   *)
(* of the one, the HAL's handles and the track's thread of the other.      *)
LayersHoldWhatIsOpen == CtcHoldsWhatIsOpen /\ TvHoldsWhatIsOpen
=============================================================================
