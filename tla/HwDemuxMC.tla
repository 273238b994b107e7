------------------------------ MODULE HwDemuxMC ------------------------------
(* A stream with one program, whose PMT (pid 2) names the ECM (pid 3). *)
EXTENDS HwDemux, TLC

MCNames == (0 :> {2}) @@ (2 :> {3}) @@ (3 :> {})
=============================================================================
