----------------------------- MODULE MCKeyTpdo -----------------------------
(* The instance of KeyTpdo that TLC checks.                                *)
EXTENDS KeyTpdo
=============================================================================
