--------------------------- MODULE MCServerStreams ---------------------------
(* Symmetry for the safety run of ServerStreams: neither virtual streams nor  *)
(* identifiers are compared with anything but each other.                     *)
EXTENDS ServerStreams

Symmetry == Permutations(Conn) \cup Permutations(StreamId)
=============================================================================
