----------------------------- MODULE MCDecoding -----------------------------
(* An instance of Decoding for TLC. *)
EXTENDS Decoding

MCPrompt == <<1>>
=============================================================================
