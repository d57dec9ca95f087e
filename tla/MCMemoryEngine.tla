--------------------------- MODULE MCMemoryEngine ---------------------------
(* Small instances of MemoryEngine for TLC.                                 *)
EXTENDS MemoryEngine
CONSTANTS drink, city, a, b
=============================================================================
