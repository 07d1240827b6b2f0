------------------------------- MODULE TxPath -------------------------------
(***************************************************************************)
(* The transmit path of one TCP socket: socketSend, socketSendAvailable    *)
(* and write_data (src/src/socket.cpp:360-442) with the client calls that  *)
(* reach them (src/src/EthernetClient.cpp:84-101, 135-142).                *)
(*                                                                         *)
(* The library copies the data to where the chip's 16-bit TX_WR points in  *)
(* a circular buffer of SSIZE bytes, moves TX_WR and gives the SEND        *)
(* command, then polls the socket's interrupt register for SEND_OK and its *)
(* status register for CLOSED.  The chip transmits and collects            *)
(* acknowledgements between any two accesses of the library.               *)
(*                                                                         *)
(* One action is one access of the chip with the local computation that    *)
(* follows it.  Bytes are numbered from the start of the connection.       *)
(***************************************************************************)
EXTENDS Integers, Sequences

CONSTANTS
  SSIZE,                    \* size of the socket's transmit buffer
  HasOffsetAddressMapping,  \* the chip wraps addresses itself (W5500)
  StartPtr,                 \* the chip's TX pointer when the model starts
  WriteLens,                \* the sizes the application writes with
  MaxBytes                  \* bound: bytes written on one connection

PtrMod == 65536             \* TX_WR is a uint16_t

ASSUME SizeAssumption ==
  /\ SSIZE \in Nat /\ 0 < SSIZE /\ SSIZE < PtrMod
  /\ PtrMod % SSIZE = 0
ASSUME ParameterAssumption ==
  /\ HasOffsetAddressMapping \in BOOLEAN
  /\ StartPtr \in Nat /\ StartPtr < PtrMod
  /\ \A n \in WriteLens : n \in Nat /\ 0 < n
  /\ MaxBytes \in Nat

VARIABLES
  sr,        \* chip: the socket's status
  ring,      \* chip: transmit buffer, a byte is represented by its position
  base,      \* chip: the TX pointer of byte 0 of the connection
  wr,        \* chip: what TX_WR was last set to
  queued,    \* chip: bytes SEND commands handed over on this connection
  sent,      \* chip: bytes of them transmitted
  acked,     \* chip: bytes of them acknowledged
  sendOk,    \* chip: SEND_OK in the socket's interrupt register
  seg,       \* chip: the segment transmitted last
  pc,        \* the chip access the call in progress makes next, or "idle"
  call,      \* the call in progress
  ret,       \* the local ret of socketSend
  free,      \* the local freesize
  result     \* how the last call ended

chipVars == <<sr, ring, base, wr, queued, sent, acked, sendOk, seg>>
callVars == <<pc, call, ret, free, result>>
vars == <<chipVars, callVars>>

Slots == 0 .. SSIZE - 1
Open == {"ESTABLISHED", "CLOSE_WAIT"}

\* Where the chip looks for byte k of the connection.
SlotOf(k) == (base + k) % SSIZE

\* The chip's TX_FSR register: a byte occupies its slot until acknowledged.
FsrRegister == SSIZE - (queued - acked)

\* The distance between two 16-bit pointers.
Distance(from, to) == (to - from) % PtrMod

\* Leaves what the connection before left in the interrupt register.
OpenedIr_Keeps(flag) == flag

\* socketBegin writes 0xFF to the interrupt register, which clears it.
OpenedIr(flag) == FALSE

Init ==
  /\ sr = "ESTABLISHED"
  /\ ring = [i \in Slots |-> -1]
  /\ base = StartPtr /\ wr = StartPtr
  /\ queued = 0 /\ sent = 0 /\ acked = 0
  /\ sendOk = FALSE /\ seg = <<>>
  /\ pc = "idle" /\ call = "none" /\ ret = 0 /\ free = 0
  /\ result = "none"

-----------------------------------------------------------------------------
(* The chip and the peer *)

\* A segment leaves; SEND_OK is raised when nothing of the SEND is left.
Transmit ==
  /\ sr \in Open
  /\ \E n \in 1 .. queued - sent :
       /\ seg' = [i \in 1..n |-> ring[SlotOf(sent + i - 1)]]
       /\ sent' = sent + n
  /\ sendOk' = (sendOk \/ sent' = queued)
  /\ UNCHANGED <<sr, ring, base, wr, queued, acked, callVars>>

AckArrives ==
  /\ sr \in Open
  /\ acked < sent
  /\ acked' \in acked + 1 .. sent
  /\ UNCHANGED <<sr, ring, base, wr, queued, sent, sendOk, seg, callVars>>

FinArrives ==
  /\ sr = "ESTABLISHED"
  /\ sr' = "CLOSE_WAIT"
  /\ UNCHANGED <<ring, base, wr, queued, sent, acked, sendOk, seg, callVars>>

\* A reset, or the chip gave up retransmitting.
ConnectionDies ==
  /\ sr # "CLOSED"
  /\ sr' = "CLOSED"
  /\ UNCHANGED <<ring, base, wr, queued, sent, acked, sendOk, seg, callVars>>

-----------------------------------------------------------------------------
(* The library: client.write(buf, n) *)

\* check size not to exceed MAX size
Capped(n) == IF n > SSIZE THEN SSIZE ELSE n

WriteCall ==
  /\ pc = "idle"
  /\ \E n \in WriteLens :
       /\ queued + Capped(n) <= MaxBytes
       /\ ret' = Capped(n)
  /\ pc' = "room" /\ call' = "write"
  /\ UNCHANGED <<chipVars, free, result>>

\* freesize = getSnTX_FSR(s), which every caller follows by the status.
ReadRoom ==
  /\ pc = "room"
  /\ free' = FsrRegister
  /\ pc' = "status"
  /\ UNCHANGED <<chipVars, call, ret, result>>

\* As if one byte of room were enough.
HasRoom_Any(room, n) == 0 < room

\* while (freesize < ret)
HasRoom(room, n) == n <= room

\* The connection is gone: nothing is to be sent, and the loop ends.
WriteStatus ==
  /\ pc = "status" /\ call = "write"
  /\ IF sr \notin Open
     THEN ret' = 0 /\ pc' = "copy"
     ELSE /\ pc' = IF HasRoom(free, ret) THEN "copy" ELSE "room"
          /\ UNCHANGED ret
  /\ UNCHANGED <<chipVars, call, free, result>>

\* Writes on past the end of the buffer, in another socket's memory.
WriteData_NoWrap(dst, n) ==
  [i \in Slots |-> LET k == i - (dst % SSIZE) IN
                   IF k >= 0 /\ k < n THEN queued + k ELSE ring[i]]

\* Which byte of the data write_data puts into slot i: one piece if the chip
\* maps offsets or the data does not wrap, two pieces otherwise.
IndexIn(dst, n, i) ==
  LET offset == dst % SSIZE IN
    IF HasOffsetAddressMapping THEN (i - offset) % SSIZE
    ELSE IF offset + n <= SSIZE \/ i >= offset THEN i - offset
    ELSE SSIZE - offset + i

\* Slots without such a byte keep theirs; the first data byte is byte queued.
WriteData(dst, n) ==
  [i \in Slots |-> LET k == IndexIn(dst, n, i) IN
                   IF k >= 0 /\ k < n THEN queued + k ELSE ring[i]]

\* The chip does not look at the bytes beyond the last SEND, so that the
\* accesses of write_data are one step.
WriteCopy ==
  /\ pc = "copy"
  /\ LET ptr == (base + queued) % PtrMod IN
       /\ ring' = WriteData(ptr, ret)
       /\ wr' = (ptr + ret) % PtrMod
  /\ pc' = "send"
  /\ UNCHANGED <<sr, base, queued, sent, acked, sendOk, seg, call, ret, free, result>>

\* The chip takes everything up to TX_WR; a dead connection takes nothing.
WriteSend ==
  /\ pc = "send"
  /\ queued' = IF sr \in Open THEN queued + Distance(base + queued, wr) ELSE queued
  /\ pc' = "interrupt"
  /\ UNCHANGED <<sr, ring, base, wr, sent, acked, sendOk, seg, call, ret, free, result>>

WriteInterrupt ==
  /\ pc = "interrupt"
  /\ pc' = IF sendOk THEN "clear" ELSE "alive"
  /\ UNCHANGED <<chipVars, call, ret, free, result>>

\* As if a dead connection were waited for like a live one.
Hopeless_Never(status) == FALSE

\* readSnSR(s) == SnSR::CLOSED
Hopeless(status) == status = "CLOSED"

WriteAlive ==
  /\ pc = "alive"
  /\ IF Hopeless(sr)
     THEN pc' = "idle" /\ result' = "failed"
     ELSE pc' = "interrupt" /\ UNCHANGED result
  /\ UNCHANGED <<chipVars, call, ret, free>>

\* writeSnIR(s, SnIR::SEND_OK) clears the flag.  socketSend returns ret, and
\* client.write() its length if ret is not zero.
WriteClear ==
  /\ pc = "clear"
  /\ sendOk' = FALSE
  /\ pc' = "idle"
  /\ result' = IF ret # 0 THEN "written" ELSE "failed"
  /\ UNCHANGED <<sr, ring, base, wr, queued, sent, acked, seg, call, ret, free>>

-----------------------------------------------------------------------------
(* The library: client.availableForWrite() and client.flush() *)

AvailableForWriteCall ==
  /\ pc = "idle"
  /\ pc' = "room" /\ call' = "available"
  /\ UNCHANGED <<chipVars, ret, free, result>>

FlushCall ==
  /\ pc = "idle"
  /\ pc' = "flush" /\ call' = "flush"
  /\ UNCHANGED <<chipVars, ret, free, result>>

\* flush() looks at the status first,
FlushStatus ==
  /\ pc = "flush"
  /\ IF sr \in Open
     THEN pc' = "room" /\ UNCHANGED result
     ELSE pc' = "idle" /\ result' = "gone"
  /\ UNCHANGED <<chipVars, call, ret, free>>

\* What socketSendAvailable returns.
SendAvailable(status, room) == IF status \in Open THEN room ELSE 0

\* As if flush() were content with some room.
Flushed_AnyRoom(n) == 0 < n

\* socketSendAvailable(_sockindex) >= SSIZE()
Flushed(n) == n >= SSIZE

\* and then at the room.
SendAvailableStatus ==
  /\ pc = "status" /\ call \in {"available", "flush"}
  /\ IF call = "available"
     THEN pc' = "idle" /\ result' = "available"
     ELSE IF Flushed(SendAvailable(sr, free))
          THEN pc' = "idle" /\ result' = "flushed"
          ELSE pc' = "flush" /\ UNCHANGED result
  /\ UNCHANGED <<chipVars, call, ret, free>>

\* socketBegin takes the closed socket for another connection, which is
\* established before anything is written.
Reopen ==
  /\ pc = "idle" /\ sr = "CLOSED"
  /\ sr' = "ESTABLISHED"
  /\ base' = 0 /\ wr' = 0 /\ queued' = 0 /\ sent' = 0 /\ acked' = 0
  /\ sendOk' = OpenedIr(sendOk) /\ seg' = <<>>
  /\ call' = "none" /\ ret' = 0 /\ free' = 0
  /\ result' = "none"
  /\ UNCHANGED <<ring, pc>>

Chip == Transmit \/ AckArrives \/ FinArrives \/ ConnectionDies

\* What a call that has begun does next.
CallStep ==
  \/ ReadRoom \/ WriteStatus \/ WriteCopy \/ WriteSend \/ WriteInterrupt
  \/ WriteAlive \/ WriteClear \/ FlushStatus \/ SendAvailableStatus

Application == WriteCall \/ AvailableForWriteCall \/ FlushCall \/ Reopen

Next == Chip \/ CallStep \/ Application

(* A call that has begun goes on.  A live connection makes progress: what  *)
(* was handed over is transmitted and acknowledged in the end, or the chip *)
(* gives up retransmitting and closes the socket.                          *)
Spec ==
  /\ Init /\ [][Next]_vars
  /\ WF_vars(CallStep)
  /\ WF_vars(Transmit) /\ WF_vars(AckArrives)

-----------------------------------------------------------------------------
TypeOK ==
  /\ sr \in {"ESTABLISHED", "CLOSE_WAIT", "CLOSED"}
  /\ ring \in [Slots -> Int]
  /\ base \in Nat /\ base < PtrMod
  /\ wr \in Nat /\ wr < PtrMod
  /\ queued \in Nat /\ sent \in Nat /\ acked \in Nat
  /\ sendOk \in BOOLEAN
  /\ seg \in Seq(Int)
  /\ pc \in {"idle", "room", "status", "copy", "send", "interrupt", "alive", "clear", "flush"}
  /\ call \in {"none", "write", "available", "flush"}
  /\ ret \in Nat /\ ret <= SSIZE
  /\ free \in Nat /\ free <= SSIZE
  /\ result \in {"none", "written", "failed", "available", "flushed", "gone"}

(* The pointers keep their order, the chip is never given more than the    *)
(* buffer holds, and TX_WR is where the last SEND left it except while a   *)
(* write is between its copy and its SEND.                                 *)
Accounting ==
  /\ acked <= sent /\ sent <= queued
  /\ queued - acked <= SSIZE
  /\ pc # "send" /\ sr \in Open => wr = (base + queued) % PtrMod

(* A write never overwrites a byte that the peer has not acknowledged and  *)
(* the chip may have to send again.                                        *)
UnackedIntact ==
  \A k \in acked .. queued - 1 : ring[SlotOf(k)] = k

(* What leaves the chip is what the application wrote, in order, each byte *)
(* once.                                                                   *)
Stream == INSTANCE ByteStream WITH arrived <- queued, got <- sent, last <- seg
SendsTheStream == Stream!Spec

(* A write that succeeds returns when the chip has transmitted all it was  *)
(* given: the SEND_OK it saw is its own, neither one that an earlier write *)
(* left behind nor one of an earlier connection.                           *)
WrittenMeansSent == [][WriteClear /\ result' = "written" => sent = queued]_vars

(* flush() returns, on a live connection, when the peer has acknowledged   *)
(* everything that was written.                                            *)
FlushedMeansAcked ==
  [][SendAvailableStatus /\ pc' = "idle" /\ result' = "flushed" => acked = queued]_vars

(* A call returns: write() also when the connection dies under it.         *)
CallReturns == (pc # "idle") ~> (pc = "idle")

(* What a step of a call relies on.  The first three hold of a connection  *)
(* that has died as well: the call goes on to copy and to give the SEND.   *)
(* Between two writes the chip has transmitted all it was given, so that   *)
(* nothing it still does can raise the SEND_OK of the next one early.      *)
CallInv ==
  /\ pc = "status" => free <= FsrRegister
  /\ pc \in {"copy", "send"} => ret <= FsrRegister
  /\ pc = "send" => /\ wr = (base + queued + ret) % PtrMod
                    /\ \A k \in queued .. queued + ret - 1 : ring[SlotOf(k)] = k
  /\ pc \notin {"interrupt", "alive", "clear"} /\ sr \in Open => ~sendOk /\ sent = queued
  /\ sendOk \/ pc = "clear" => sent = queued

(* The inductive invariant behind the safety properties.                   *)
TxInv == TypeOK /\ Accounting /\ UnackedIntact /\ CallInv
=============================================================================
