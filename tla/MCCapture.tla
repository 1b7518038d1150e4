------------------------------ MODULE MCCapture ------------------------------
(* Small instance: two rows, three changes, a crash of the connector.            *)
EXTENDS Capture

CONSTANTS k1, k2
=============================================================================
