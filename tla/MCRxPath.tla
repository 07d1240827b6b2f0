------------------------------ MODULE MCRxPath ------------------------------
(* A four-byte buffer whose 16-bit pointer wraps during the run, reads     *)
(* shorter than, as long as and longer than what is buffered, and a        *)
(* threshold below the size of the buffer, as 250 is below 2048.           *)
EXTENDS RxPath

MCRecvLens == {1, 2, 5}
=============================================================================
