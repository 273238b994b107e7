--------------------------- MODULE MediaPlayerMC ---------------------------
(* Instances of MediaPlayer for TLC, and mutated forms of its definitions. *)
EXTENDS MediaPlayer

AllCalls == Method
AnyFault == Asked
=============================================================================
