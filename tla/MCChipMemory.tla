---------------------------- MODULE MCChipMemory ----------------------------
(* All three chips, with every number of sockets a sketch may ask for and  *)
(* one more than any chip has; the bytes around both ends of a buffer.     *)
EXTENDS ChipMemory

MCChips == {"W5100", "W5200", "W5500"}
MCRequests == 0 .. 9
MCEdges == 0 .. 1
MCBytes == 0 .. 2
MCRegisters == {0, 3, 42}
=============================================================================
