------------------------------ MODULE UdpSend ------------------------------
(***************************************************************************)
(* Sending with an EthernetUDP object: beginPacket, write, endPacket       *)
(* (src/src/EthernetUdp.cpp:67-103) over socketStartUDP, socketBufferData, *)
(* write_data and socketSendUDP (src/src/socket.cpp:360-377, 444-499).     *)
(*                                                                         *)
(* The pieces of a packet are copied into the chip's transmit buffer at a  *)
(* growing offset from TX_WR, which reads as the last SEND left it however *)
(* often it has been written since.  endPacket() gives the SEND command    *)
(* and polls the interrupt register for SEND_OK, then for TIMEOUT (nobody  *)
(* answered the address resolution), one register read after the other.    *)
(*                                                                         *)
(* What the object has in common with its receiving half, module           *)
(* UdpReceive, is the socket and that there is one call at a time.         *)
(*                                                                         *)
(* The buffer's circularity is that of module TxPath and not repeated: a   *)
(* byte's place is its offset from the last SEND.                          *)
(***************************************************************************)
EXTENDS UdpReceive

CONSTANTS
  TxSize,      \* size of the socket's transmit buffer
  WriteLens,   \* the sizes the application writes with
  NoByte       \* what the buffer holds where the packet wrote nothing

ASSUME SendAssumption ==
  /\ TxSize \in Nat /\ 0 < TxSize
  /\ \A n \in WriteLens : n \in Nat
  /\ NoByte \notin Nat

VARIABLES
  mem,       \* chip: transmit buffer, a byte of the packet by its number
  end,       \* chip: TX_WR as last written, as an offset from the last SEND
  cmd,       \* chip: the datagram of the SEND in progress, or <<>>
  sending,   \* chip: a SEND is in progress
  ir,        \* chip: the interrupt register
  wire,      \* chip: the datagram that left last
  building,  \* the sketch is between beginPacket() and endPacket()
  offset,    \* _offset
  written    \* ghost: the sum of what write() returned for this packet

chipVars == <<mem, end, cmd, sending, ir, wire>>
sendVars == <<chipVars, building, offset, written>>

Offsets == 0 .. TxSize - 1
Blank == [i \in Offsets |-> NoByte]

\* The packet as the application wrote it.
Packet(n) == [i \in 1..n |-> i]

\* A socket that has been opened has an empty buffer and, writeSnIR(s, 0xFF),
\* a clean interrupt register.  What its TX_WR holds, the code does not say.
SendOpened(openedEnd) ==
  /\ mem' = Blank /\ end' = openedEnd /\ cmd' = <<>> /\ sending' = FALSE
  /\ ir' = {} /\ wire' = <<>>
  /\ building' = FALSE /\ UNCHANGED offset /\ written' = 0

SendInit ==
  /\ mem = Blank /\ end = 0 /\ cmd = <<>> /\ sending = FALSE /\ ir = {} /\ wire = <<>>
  /\ building = FALSE /\ offset = 0 /\ written = 0

-----------------------------------------------------------------------------
(* The chip                                                                *)

SendDone ==
  /\ sending
  /\ wire' = cmd
  /\ ir' = ir \cup {"SEND_OK"}
  /\ sending' = FALSE
  /\ UNCHANGED <<mem, end, cmd, pc, building, offset, written, result>>

SendTimesOut ==
  /\ sending
  /\ ir' = ir \cup {"TIMEOUT"}
  /\ sending' = FALSE
  /\ UNCHANGED <<mem, end, cmd, wire, pc, building, offset, written, result>>

\* The chip takes what lies before TX_WR, wherever its bytes come from.
TakenBySend == [i \in 1..end |-> mem[i - 1]]

-----------------------------------------------------------------------------
(* The library                                                             *)

\* As if the packet before were continued.
FirstOffset_Keeps(o) == o

\* _offset = 0
FirstOffset(o) == 0

\* beginPacket(ip, port), also over a packet that was never ended.  The
\* bytes of such a packet are none of the new one's.
BeginPacket ==
  /\ pc = "idle" /\ sock = "open"
  /\ building' = TRUE
  /\ offset' = FirstOffset(offset)
  /\ written' = 0 /\ mem' = Blank
  /\ result' = 1
  /\ UNCHANGED <<end, cmd, sending, ir, wire, pc>>

\* An address or a port of zero is refused and the sketch gives up.
BeginPacketRefused ==
  /\ pc = "idle" /\ sock = "open"
  /\ building' = FALSE
  /\ offset' = FirstOffset(offset)
  /\ result' = 0
  /\ UNCHANGED <<chipVars, pc, written>>

\* ptr += data_offset
PieceAt(o) == o

\* TX_FSR, which may or may not count the bytes that wait for their SEND.
TX_FSR == {TxSize, TxSize - end}

\* write(buffer, n); the sketch keeps a packet within the buffer.
Write ==
  /\ pc = "idle" /\ building
  /\ \E n \in WriteLens, txfree \in TX_FSR :
       LET ret == IF n > txfree THEN txfree ELSE n
           at == PieceAt(offset)
       IN /\ offset + ret <= TxSize
          /\ mem' = [i \in Offsets |->
                       IF at <= i /\ i < at + ret THEN written + (i - at) + 1 ELSE mem[i]]
          /\ end' = at + ret
          /\ offset' = offset + ret
          /\ written' = written + ret
          /\ result' = ret
  /\ UNCHANGED <<cmd, sending, ir, wire, pc, building>>

\* endPacket(): execCmdSn(s, Sock_SEND)
EndPacket ==
  /\ pc = "idle" /\ building
  /\ cmd' = TakenBySend
  /\ sending' = TRUE
  /\ end' = 0 /\ mem' = Blank
  /\ pc' = "sendok"
  /\ UNCHANGED <<ir, wire, building, offset, written, result>>

PollSendOk ==
  /\ pc = "sendok"
  /\ pc' = IF "SEND_OK" \in ir THEN "clear" ELSE "timeout"
  /\ UNCHANGED <<chipVars, building, offset, written, result>>

\* As if only SEND_OK were cleared after a timeout.
ClearedByTimeout_OkOnly(flags) == flags \ {"SEND_OK"}

\* writeSnIR(s, (SnIR::SEND_OK|SnIR::TIMEOUT))
ClearedByTimeout(flags) == flags \ {"SEND_OK", "TIMEOUT"}

\* As if a timeout were waited for like an answer.
GaveUp_Never(flags) == FALSE

\* readSnIR(s) & SnIR::TIMEOUT
GaveUp(flags) == "TIMEOUT" \in flags

PollTimeout ==
  /\ pc = "timeout"
  /\ IF GaveUp(ir)
     THEN /\ ir' = ClearedByTimeout(ir)
          /\ pc' = "idle" /\ building' = FALSE /\ result' = 0
     ELSE /\ pc' = "sendok"
          /\ UNCHANGED <<ir, building, result>>
  /\ UNCHANGED <<mem, end, cmd, sending, wire, offset, written>>

\* writeSnIR(s, SnIR::SEND_OK)
ClearedByOk(flags) == flags \ {"SEND_OK"}

ClearSendOk ==
  /\ pc = "clear"
  /\ ir' = ClearedByOk(ir)
  /\ pc' = "idle" /\ building' = FALSE /\ result' = 1
  /\ UNCHANGED <<mem, end, cmd, sending, wire, offset, written>>

Chip == SendDone \/ SendTimesOut
EndPacketStep == PollSendOk \/ PollTimeout \/ ClearSendOk

-----------------------------------------------------------------------------
Bytes == Nat \cup {NoByte}

SendTypeOK ==
  /\ mem \in [Offsets -> Bytes]
  /\ end \in Nat /\ end <= TxSize
  /\ cmd \in Seq(Bytes) /\ wire \in Seq(Bytes)
  /\ sending \in BOOLEAN
  /\ ir \subseteq {"SEND_OK", "TIMEOUT"}
  /\ building \in BOOLEAN
  /\ offset \in Nat /\ offset <= TxSize
  /\ written \in Nat

\* The packet being built lies in the buffer as it was written, with TX_WR
\* behind its last byte.
InEndPacket == pc \in {"sendok", "timeout", "clear"}

PacketInv ==
  building /\ ~InEndPacket =>
    /\ offset = written
    /\ written > 0 => end = written
    /\ \A i \in 0 .. written - 1 : mem[i] = i + 1

\* endPacket() waits for the end of its own SEND: no flag of an earlier one
\* is set when it begins, and the one that is set tells what became of it.
SendInv ==
  /\ ~InEndPacket => ~sending /\ ir = {}
  /\ InEndPacket =>
       /\ written > 0 => cmd = Packet(written)
       /\ sending => ir = {}
       /\ ~sending => ir = {"TIMEOUT"} \/ (ir = {"SEND_OK"} /\ wire = cmd)
  /\ pc = "clear" => "SEND_OK" \in ir
=============================================================================
