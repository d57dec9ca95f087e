------------------------- MODULE MCObsidianProjection -------------------------
(* Small instances of the Obsidian projection.                                 *)
EXTENDS ObsidianProjection
CONSTANTS r1, home, note, old, new, none
=============================================================================
