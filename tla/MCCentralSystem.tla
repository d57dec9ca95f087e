--------------------------- MODULE MCCentralSystem ---------------------------
(* Small instances of CentralSystem for TLC: one memory of the project home *)
(* and a thread of that project whose selector covers it.                   *)
EXTENDS CentralSystem

CONSTANTS home, memo, local, projectMap

MCMemoryProject == [m \in {memo} |-> home]
MCLocalProject  == [th \in {local} |-> home]
MCCovers        == [s \in {projectMap} |-> {memo}]
=============================================================================
