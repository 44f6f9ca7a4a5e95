--------------------------- MODULE MCTranslatePool ---------------------------
(* Small instances of TranslatePool for TLC. *)
EXTENDS TranslatePool, TLC

=============================================================================
