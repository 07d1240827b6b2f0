--------------------------- MODULE DatagramQueue ---------------------------
(***************************************************************************)
(* What an EthernetUDP object promises about incoming datagrams: each      *)
(* parsePacket() moves on to the next datagram that arrived, in order and  *)
(* dropping what was left of the one before, and read() takes bytes of the *)
(* current datagram only.  A datagram is represented by its payload size.  *)
(***************************************************************************)
EXTENDS Integers, Sequences

VARIABLES
  pending,   \* the datagrams received and not parsed yet
  current    \* bytes left of the datagram parsed last

vars == <<pending, current>>

Init == pending = <<>> /\ current = 0

Arrive ==
  /\ Len(pending') = Len(pending) + 1
  /\ SubSeq(pending', 1, Len(pending)) = pending
  /\ UNCHANGED current

\* Bytes of the current datagram are read, or dropped by parsePacket().
Take == current' \in 0 .. current - 1 /\ UNCHANGED pending

Parse ==
  /\ current = 0 /\ pending # <<>>
  /\ current' = Head(pending)
  /\ pending' = Tail(pending)

\* begin(): another socket.
Restart == pending' = <<>> /\ current' = 0

Next == Arrive \/ Take \/ Parse \/ Restart

Spec == Init /\ [][Next]_vars
=============================================================================
