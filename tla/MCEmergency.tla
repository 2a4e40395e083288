---------------------------- MODULE MCEmergency ----------------------------
(* The instance of Emergency that TLC checks; the RPDOs are not symmetric, *)
(* for the periodic task takes them in order.                              *)
EXTENDS Emergency
=============================================================================
