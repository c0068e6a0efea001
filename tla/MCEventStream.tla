--------------------------- MODULE MCEventStream ---------------------------
(* Names for the pages and the user of a run of EventStream. *)
EXTENDS EventStream
CONSTANTS p1, user
=============================================================================
