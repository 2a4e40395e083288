-------------------------- MODULE MCFlashSettings --------------------------
(* The instance of FlashSettings that TLC checks: registers of five        *)
(* half-words, the outermost among them, with values in and out of range.  *)
EXTENDS FlashSettings
MCOffered ==
  {[reg |-> w[1], value |-> w[2], high |-> 1] : w \in
    {<<BITRATE_ADR, 5>>, <<BITRATE_ADR, 8>>, <<NODE_ID_ADR, 0>>, <<NODE_ID_ADR, 127>>,
     <<DEF_BL_BRIGTH_ADR, 63>>, <<DEF_BL_BRIGTH_ADR, 64>>, <<9, 8>>, <<14, 2>>}}
=============================================================================
