---------------------------- MODULE EthernetUdp -----------------------------
(***************************************************************************)
(* An EthernetUDP object (src/src/EthernetUdp.cpp): the receiving calls of *)
(* module UdpReceive and the sending ones of UdpSend on one socket, one at *)
(* a time.  A sketch answers a datagram it has read in part, begins a      *)
(* packet and gives the socket up, is told that a packet failed and goes   *)
(* on receiving; begin() and stop() concern both halves.                   *)
(***************************************************************************)
EXTENDS UdpSend

vars == <<sock, pc, result, recvVars, sendVars>>

Init == ReceiveInit /\ SendInit

-----------------------------------------------------------------------------
\* begin() and beginMulticast(), with and without success, and stop().  What
\* the sketch has written of a packet is lost, and _offset stays as it is.
Begin == (BeginOpens /\ \E e \in {0, end} : SendOpened(e)) \/ (BeginFails /\ SendOpened(0))

GiveUp == Stop /\ SendOpened(0)

Receives ==
  /\ DatagramArrives \/ ParseCall \/ Read
  /\ UNCHANGED sendVars

Parses == ParseStep /\ UNCHANGED sendVars

Sends ==
  /\ BeginPacket \/ BeginPacketRefused \/ Write \/ EndPacket
  /\ UNCHANGED <<sock, recvVars>>

ChipSends == Chip /\ UNCHANGED <<sock, recvVars>>
EndsPacket == EndPacketStep /\ UNCHANGED <<sock, recvVars>>

Next == Begin \/ GiveUp \/ Receives \/ Parses \/ Sends \/ ChipSends \/ EndsPacket

(* A call that has begun goes on, a SEND ends in one way or the other, and *)
(* the sketch's loop() calls parsePacket() again and again.                *)
PollsForDatagrams == ParseCall /\ UNCHANGED sendVars

Spec == Init /\ [][Next]_vars
             /\ WF_vars(Parses) /\ WF_vars(EndsPacket) /\ WF_vars(ChipSends)
             /\ SF_vars(PollsForDatagrams)

-----------------------------------------------------------------------------
TypeOK ==
  /\ ReceiveTypeOK /\ SendTypeOK
  /\ pc \in {"idle", "discard", "available", "header", "sendok", "timeout", "clear"}

(* What the object and the socket agree on, whatever a socket or a packet  *)
(* before left behind: the library is in step with the chip's framing,     *)
(* nothing is withheld from a chip whose buffer is drained, the packet     *)
(* under construction lies in the buffer as it was written, and the flags  *)
(* endPacket() polls are of its own SEND.                                  *)
UdpInv ==
  /\ TypeOK
  /\ InSync /\ NoWithheldRoom /\ Framed /\ ParseInv
  /\ PacketInv /\ SendInv

(* parsePacket() hands out the datagrams that arrived, each once, in order *)
(* and with its size; reads stay within the current one; no packet that is *)
(* sent meanwhile disturbs them.                                           *)
Queue == INSTANCE DatagramQueue WITH
  pending <- [i \in 1 .. Len(ends) - parsed |-> Payload(parsed + i)],
  current <- IF sock = "open" THEN remaining ELSE 0
DeliversDatagrams == Queue!Spec

(* Every datagram that arrived is parsed by a sketch that keeps polling,   *)
(* unless it gives the socket up.                                          *)
EveryDatagramParsed ==
  \A k \in 1 .. MaxDatagrams : Len(ends) >= k ~> (parsed >= k \/ Len(ends) < k)

(* A packet that was written to leaves as it was written: when endPacket() *)
(* returns 1 the datagram on the wire is this packet, all its pieces in    *)
(* order and nothing of one that was abandoned, timed out or sent before,  *)
(* with this socket or another.                                            *)
PacketArrivesWhole ==
  [][ClearSendOk /\ written > 0 => wire = Packet(written)]_vars

(* endPacket() returns 0 only for a packet whose SEND ended without the    *)
(* datagram going out: never on an earlier packet's TIMEOUT, and never     *)
(* while the SEND is still in progress.                                    *)
FailureIsReal ==
  [][PollTimeout /\ pc' = "idle" => ~sending /\ "SEND_OK" \notin ir]_vars

(* parsePacket() and endPacket() return.  EthernetUdp.cpp:109 wonders      *)
(* whether the former's loop could run endlessly: not while the chip keeps *)
(* the bytes it announced.  For the latter nobody need be there.           *)
CallsReturn == (pc # "idle") ~> (pc = "idle")
=============================================================================
