----------------------------- MODULE MCAlsaOutput -----------------------------
(* Devices that support the usual formats, only the lowest, or none: 16 and  *)
(* 32 bits go up or down from there, and 20 bits are unknown.                *)
EXTENDS AlsaOutput

MCBits == {16, 20, 32}
MCSupports == {{}, {"S8"}, {"S16_LE"}, {"S24_LE", "S32_LE"}}
=============================================================================
