--------------------------- MODULE MCCentralMemory ---------------------------
(* Small instances of CentralMemory for TLC.                                *)
EXTENDS CentralMemory
=============================================================================
