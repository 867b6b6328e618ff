--------------------------- MODULE MCRequestStream ---------------------------
(* An empty request, and bodies whose bytes are also lengths. *)
EXTENDS RequestStream

MCBodies == {<<>>, <<1>>, <<2, 0>>}
=============================================================================
