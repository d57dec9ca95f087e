----------------------------- MODULE MCWorksets -----------------------------
(* Small instances of Worksets for TLC: one shareable memory of the project *)
(* home and a thread on either side of the project boundary.                *)
EXTENDS Worksets

CONSTANTS home, other, shared, local, guest, taskTopic

MCSharedProject == [m \in {shared} |-> home]
MCSharedCovers  == [s \in {taskTopic} |-> {shared}]
MCThreadProject == [th \in {local, guest} |-> IF th = local THEN home ELSE other]
=============================================================================
