---------------------------- MODULE MCUbifsMaster ----------------------------
(* TLC instance of UbifsMaster: LEBs of three master nodes, so that both    *)
(* LEBs wrap around and a recovery happens at every position of the row.    *)
EXTENDS UbifsMaster
=============================================================================
