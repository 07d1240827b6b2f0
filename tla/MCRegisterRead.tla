--------------------------- MODULE MCRegisterRead ---------------------------
(* Register values on both sides of the carries into the high byte, where  *)
(* a torn read produces a value that was never in the register.            *)
EXTENDS RegisterRead

MCLevels == {0, 1, 255, 256, 257, 511, 512, 514}
=============================================================================
