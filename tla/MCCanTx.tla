------------------------------ MODULE MCCanTx ------------------------------
(***************************************************************************)
(* CanTx on a controller with up to three mailboxes and four objects, the  *)
(* firmware's emergency (1), TPDO (2), SDO server (3) and heartbeat (4)    *)
(* objects in the order of their CO_TX_IDX.                                *)
(***************************************************************************)
EXTENDS CanTx

MCPolled == {1, 3}
=============================================================================
