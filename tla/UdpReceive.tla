----------------------------- MODULE UdpReceive -----------------------------
(***************************************************************************)
(* Receiving with an EthernetUDP object: begin, stop, parsePacket and the  *)
(* two reads (src/src/EthernetUdp.cpp:41-65, 105-171) over socketRecv and  *)
(* socketRecvAvailable (src/src/socket.cpp:269-327).                       *)
(*                                                                         *)
(* The chip queues datagrams in the socket's receive buffer, each behind a *)
(* header of eight bytes that holds the sender and the payload size.  The  *)
(* library reads the buffer as one stream of bytes: it finds the next      *)
(* header only if it has consumed the datagram before to its last byte, a  *)
(* count it keeps in _remaining.                                           *)
(*                                                                         *)
(* socketRecv is one step here: what the chip does between its accesses    *)
(* only appends to the buffer, which module RxPath shows to be harmless.   *)
(* Module EthernetUdp puts these calls next to those of module UdpSend.    *)
(***************************************************************************)
EXTENDS Integers, Sequences

CONSTANTS
  SSIZE,          \* size of the socket's receive buffer
  Header,         \* bytes of the chip's datagram header: 8
  IncThreshold,   \* 250 in the code
  IncMod,         \* RX_inc is a uint8_t: 256
  Payloads,       \* payload sizes of the datagrams that arrive
  ReadLens,       \* buffer sizes the application reads with
  MaxDatagrams    \* bound: datagrams that arrive on one socket

ASSUME ReceiveAssumption ==
  /\ SSIZE \in Nat /\ Header \in Nat /\ 0 < Header
  /\ IncThreshold \in Nat /\ 0 < IncThreshold
  /\ IncMod \in Nat /\ IncThreshold <= IncMod
  /\ \A n \in Payloads : n \in Nat
  /\ \A n \in ReadLens : n \in Nat /\ 0 < n
  /\ MaxDatagrams \in Nat

VARIABLES
  sock,       \* sockindex: "none" for maxSocketNum()
  ends,       \* chip: where in the stream each datagram ends
  freed,      \* chip: bytes whose space RECV commands gave back
  ss,         \* socketState[s]: RX_RSR, RX_inc
  got,        \* bytes the library has taken out of the stream: RX_RD
  remaining,  \* _remaining
  pc,         \* what the call in progress does next, or "idle"
  result,     \* what the last call returned
  parsed      \* ghost: datagrams parsed on this socket

recvVars == <<ends, freed, ss, got, remaining, parsed>>

End(i) == IF i = 0 THEN 0 ELSE ends[i]
Arrived == End(Len(ends))
Payload(i) == End(i) - End(i - 1) - Header

\* The chip's RX_RSR register.
RsrRegister == Arrived - freed

MinOf(a, b) == IF a < b THEN a ELSE b

ReceiveInit ==
  /\ sock = "none" /\ ends = <<>> /\ freed = 0 /\ got = 0 /\ parsed = 0
  /\ ss = [RX_RSR |-> 0, RX_inc |-> 0]
  /\ remaining = 0 /\ pc = "idle" /\ result = 0

-----------------------------------------------------------------------------
(* The chip drops a datagram that does not fit.                            *)
DatagramArrives ==
  /\ sock = "open"
  /\ Len(ends) < MaxDatagrams
  /\ \E n \in Payloads :
       /\ Header + n <= SSIZE - RsrRegister
       /\ ends' = Append(ends, Arrived + Header + n)
  /\ UNCHANGED <<sock, freed, ss, got, remaining, pc, result, parsed>>

-----------------------------------------------------------------------------
(* socketRecv and socketRecvAvailable                                      *)

\* As if a cached zero were trusted.
Available_Cached == ss.RX_RSR

\* socketRecvAvailable: the cached count, refreshed if it is zero.
Available == IF ss.RX_RSR = 0 THEN RsrRegister - ss.RX_inc ELSE ss.RX_RSR

\* What socketRecv finds when asked for n bytes: a cache that holds fewer
\* is refreshed.
Readable(n) == IF ss.RX_RSR < n THEN RsrRegister - ss.RX_inc ELSE ss.RX_RSR

\* What socketRecv returns on a UDP socket: the count, or -1 for no data.
RecvReturns(n) == IF Readable(n) = 0 THEN -1 ELSE MinOf(Readable(n), n)

CommitNow(inc, rsr) == inc >= IncThreshold \/ rsr = 0

\* socketRecv: the counts move, and space is given back now and then.
Recv(n) ==
  IF Readable(n) = 0
  THEN ss' = [ss EXCEPT !.RX_RSR = 0] /\ UNCHANGED <<got, freed>>
  ELSE LET r == RecvReturns(n)
           rsr == Readable(n) - r
           inc == ss.RX_inc + r
       IN /\ got' = got + r
          /\ ss' = [RX_RSR |-> rsr, RX_inc |-> IF CommitNow(inc, rsr) THEN 0 ELSE inc % IncMod]
          /\ freed' = IF CommitNow(inc, rsr) THEN got' ELSE freed

-----------------------------------------------------------------------------
(* EthernetUDP *)

\* As if begin() kept the count of the socket it gives up.
BegunRemaining_Keeps(left) == left

\* _remaining = 0
BegunRemaining(left) == 0

\* begin(): the old socket is closed and another one opened.
BeginOpens ==
  /\ pc = "idle"
  /\ sock' = "open"
  /\ ends' = <<>> /\ freed' = 0 /\ got' = 0 /\ parsed' = 0
  /\ ss' = [RX_RSR |-> 0, RX_inc |-> 0]
  /\ remaining' = BegunRemaining(remaining)
  /\ result' = 1
  /\ UNCHANGED pc

\* begin(), and no socket is free: it returns before _remaining is cleared.
\* stop() leaves _remaining alone in the same way.
GivesSocketUp ==
  /\ sock' = "none"
  /\ ends' = <<>> /\ freed' = 0 /\ got' = 0 /\ parsed' = 0
  /\ ss' = [RX_RSR |-> 0, RX_inc |-> 0]
  /\ UNCHANGED <<remaining, pc>>

BeginFails == pc = "idle" /\ result' = 0 /\ GivesSocketUp

Stop == pc = "idle" /\ sock = "open" /\ UNCHANGED result /\ GivesSocketUp

\* parsePacket().  Without a socket it would read socketState[maxSocketNum()]:
\* the sketch calls it only after a begin() that returned 1.
ParseCall ==
  /\ pc = "idle" /\ sock = "open"
  /\ pc' = IF remaining > 0 THEN "discard" ELSE "available"
  /\ UNCHANGED <<sock, ends, freed, ss, got, remaining, result, parsed>>

\* As if a read counted for as many bytes as it asked for.
Left_AsAsked(left, n, r) == left - n

\* if (got > 0) _remaining -= got
Left(left, n, r) == IF r > 0 THEN left - r ELSE left

\* while (_remaining) read((uint8_t *)NULL, _remaining)
ParseDiscard ==
  /\ pc = "discard"
  /\ Recv(remaining)
  /\ remaining' = Left(remaining, remaining, RecvReturns(remaining))
  /\ pc' = IF remaining' > 0 THEN "discard" ELSE "available"
  /\ UNCHANGED <<sock, ends, result, parsed>>

ParseAvailable ==
  /\ pc = "available"
  /\ ss' = [ss EXCEPT !.RX_RSR = Available]
  /\ IF Available > 0
     THEN pc' = "header" /\ UNCHANGED result
     ELSE pc' = "idle" /\ result' = 0
  /\ UNCHANGED <<sock, ends, freed, got, remaining, parsed>>

\* What eight bytes read at position p announce as the payload size: the
\* truth where a datagram begins, anything at all elsewhere.
Announced(p) ==
  IF \E i \in 1 .. Len(ends) : End(i - 1) = p
  THEN {Payload(i) : i \in {j \in 1 .. Len(ends) : End(j - 1) = p}}
  ELSE Payloads

ParseHeader ==
  /\ pc = "header"
  /\ Recv(Header)
  /\ IF RecvReturns(Header) > 0
     THEN /\ remaining' \in Announced(got)
          /\ parsed' = parsed + 1
          /\ result' = remaining'
     ELSE /\ result' = RecvReturns(Header)
          /\ UNCHANGED <<remaining, parsed>>
  /\ pc' = "idle"
  /\ UNCHANGED <<sock, ends>>

\* read() takes one byte, read(buffer, n) at most n; never more than is left
\* of the datagram.
Read ==
  /\ pc = "idle" /\ sock = "open"
  /\ IF remaining = 0
     THEN result' = -1 /\ UNCHANGED <<ss, got, freed, remaining>>
     ELSE \E n \in ReadLens \cup {1} :
            LET asked == MinOf(remaining, n)
            IN /\ Recv(asked)
               /\ result' = RecvReturns(asked)
               /\ remaining' = Left(remaining, n, RecvReturns(asked))
  /\ UNCHANGED <<sock, ends, pc, parsed>>

ParseStep == ParseDiscard \/ ParseAvailable \/ ParseHeader

-----------------------------------------------------------------------------
ReceiveTypeOK ==
  /\ sock \in {"none", "open"}
  /\ ends \in Seq(Nat) /\ Len(ends) <= MaxDatagrams
  /\ freed \in Nat /\ got \in Nat /\ remaining \in Nat /\ parsed \in Nat
  /\ ss \in [RX_RSR : Nat, RX_inc : Nat]
  /\ result \in Int /\ -1 <= result

(* The library is in step with the chip's framing: _remaining is what is   *)
(* left of the datagram parsed last, so that the bytes behind it are a     *)
(* header, whatever was read, dropped, cached or given back in between.    *)
InSync ==
  sock = "open" =>
    /\ parsed <= Len(ends)
    /\ got + remaining = End(parsed)
    /\ got + ss.RX_RSR <= Arrived
    /\ got = freed + ss.RX_inc

(* The receive buffer is given back in the end: once the cache is drained  *)
(* nothing is withheld, so that the chip has room for the next datagram.   *)
NoWithheldRoom == ss.RX_RSR = 0 => ss.RX_inc = 0

\* Datagrams lie behind each other, each with a header before it.
Framed == \A i, j \in 0 .. Len(ends) : i < j => End(i) + Header <= End(j)

\* What parsePacket() relies on from one of its accesses to the next.
ParseInv ==
  /\ pc \in {"discard", "available", "header"} => sock = "open"
  /\ pc = "discard" => remaining > 0
  /\ pc \in {"available", "header"} => remaining = 0
  /\ pc = "header" => ss.RX_RSR > 0
=============================================================================
