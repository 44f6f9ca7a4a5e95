-------------------------- MODULE MCTranslationTasks --------------------------
(* Small instances of TranslationTasks for TLC. *)
EXTENDS TranslationTasks, TLC
=============================================================================
