--------------------------- MODULE MCConnectorSync ---------------------------
(* Small instances of ConnectorSync for TLC.                                *)
EXTENDS ConnectorSync
CONSTANTS d1, d2, intro, body, a, b
=============================================================================
