----------------------------- MODULE MCDelivery -----------------------------
(* Small instances of Delivery for TLC: one task, in the project home, and  *)
(* a memory of that project.                                                *)
EXTENDS Delivery

CONSTANTS home, mapped, task, projectMap

MCOneProject    == [m \in {mapped} |-> home]
MCThreadProject == [th \in {task} |-> home]
MCCovers        == [s \in {projectMap} |-> {mapped}]
=============================================================================
