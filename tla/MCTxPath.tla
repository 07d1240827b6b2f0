------------------------------ MODULE MCTxPath ------------------------------
(* A four-byte buffer whose 16-bit pointer wraps during the run, and       *)
(* writes shorter than, nearly as long as and longer than the buffer.      *)
EXTENDS TxPath

MCWriteLens == {1, 3, 5}
=============================================================================
