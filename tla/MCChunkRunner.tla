---------------------------- MODULE MCChunkRunner ----------------------------
(* Small instances of ChunkRunner for TLC. *)
EXTENDS ChunkRunner, TLC
=============================================================================
