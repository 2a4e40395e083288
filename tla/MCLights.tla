------------------------------ MODULE MCLights ------------------------------
(***************************************************************************)
(* Two colours and one key.  Of RPDO 1 and 2, the messages that light      *)
(* every lamp or none; the brightness comes by SDO.                        *)
(***************************************************************************)
EXTENDS Lights
MCMapped == <<2, 1, 1, 1>>
MCSent == << {<<{}, {}>>, <<Keys, Keys>>}, {<<{}>>, <<Keys>>}, {}, {} >>
MCWritten == << {}, {{}}, {1}, {1} >>
MCCalc == [b \in 0..1 |-> b]
MCBack == {{1, 2}}
MCStartColor == {1, 2}
=============================================================================
