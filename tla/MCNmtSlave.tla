----------------------------- MODULE MCNmtSlave ----------------------------
(* The instance of NmtSlave that TLC checks.                               *)
EXTENDS NmtSlave
MCHbTimes == {0, 2}
=============================================================================
