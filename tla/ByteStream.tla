----------------------------- MODULE ByteStream -----------------------------
(***************************************************************************)
(* What a TCP socket of the library promises about incoming data: the      *)
(* application is handed the bytes of the connection in order, each        *)
(* exactly once, and never one that has not arrived.  Byte k of the        *)
(* connection is represented by its position k.                            *)
(***************************************************************************)
EXTENDS Integers, Sequences

VARIABLES
  arrived,   \* number of bytes of this connection the chip has received
  got,       \* number of them handed to the application
  last       \* what the last successful read or peek returned

vars == <<arrived, got, last>>

\* The n bytes of the connection from position k on.
Slice(k, n) == [i \in 1..n |-> k + i - 1]

Init == arrived = 0 /\ got = 0 /\ last = <<>>

Arrive == arrived' > arrived /\ UNCHANGED <<got, last>>

Deliver ==
  \E n \in 1..(arrived - got) :
    /\ last' = Slice(got, n)
    /\ got' = got + n
    /\ UNCHANGED arrived

Peek == got < arrived /\ last' = Slice(got, 1) /\ UNCHANGED <<arrived, got>>

\* The socket is used for another connection.
Restart == arrived' = 0 /\ got' = 0 /\ last' = <<>>

Next == Arrive \/ Deliver \/ Peek \/ Restart

Spec == Init /\ [][Next]_vars
=============================================================================
