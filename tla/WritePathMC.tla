---------------------------- MODULE WritePathMC ----------------------------
(* A small instance of WritePath for TLC. *)
EXTENDS WritePath

(* With packets 2 and 5 as ECMs a write of two packets brings an ECM in    *)
(* its first place, in its last, or not at all.                            *)
MCEcms == {2, 5}
=============================================================================
