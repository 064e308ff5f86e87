--------------------------- MODULE MCTransport ---------------------------
(* Transport with model values, for TLC. *)
EXTENDS Transport
=============================================================================
