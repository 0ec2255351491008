--------------------------- MODULE MCEventStream ---------------------------
(* One descriptor, which a line client or a browser may have, one after the other. *)
EXTENDS EventStream
=============================================================================
