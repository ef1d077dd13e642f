----------------------------- MODULE MCDecoding -----------------------------
(* An instance of Decoding alone, for TLC. *)
EXTENDS Decoding

NoStops == {{}}
=============================================================================
