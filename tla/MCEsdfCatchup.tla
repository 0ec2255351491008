---------------------------- MODULE MCEsdfCatchup ----------------------------
(* Two cells whose windows do not overlap, yet an update around one erases the *)
(* other.                                                                      *)
EXTENDS EsdfCatchup
=============================================================================
