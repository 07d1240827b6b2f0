------------------------------- MODULE RxPath -------------------------------
(***************************************************************************)
(* The receive path of one TCP socket: socketRecv, socketRecvAvailable,    *)
(* socketPeek and read_data (src/src/socket.cpp:247-339) with the client   *)
(* calls that reach them (src/src/EthernetClient.cpp:103-133, 166-173).    *)
(*                                                                         *)
(* The chip fills a circular buffer of SSIZE bytes; the library reads it   *)
(* at a 16-bit pointer that it keeps to itself (RX_RD), caches how many    *)
(* bytes are left (RX_RSR), and gives the space back to the chip only now  *)
(* and then (the RECV command), remembering in RX_inc how much it owes.    *)
(* The chip works on between any two accesses of the library.              *)
(*                                                                         *)
(* One action is one access of the chip with the local computation that    *)
(* follows it.  Reading RX_RSR is one access: module RegisterRead shows    *)
(* that the value is one the register held.                                *)
(***************************************************************************)
EXTENDS Integers, Sequences

CONSTANTS
  SSIZE,                    \* size of the socket's receive buffer
  HasOffsetAddressMapping,  \* the chip wraps addresses itself (W5500)
  IncThreshold,             \* 250 in the code
  IncMod,                   \* RX_inc is a uint8_t: 256
  StartPtr,                 \* the chip's RX pointer when the model starts
  RecvLens,                 \* the lengths the application reads with
  MaxBytes                  \* bound: bytes that arrive on one connection

PtrMod == 65536             \* RX_RD is a uint16_t

ASSUME SizeAssumption ==
  /\ SSIZE \in Nat /\ 0 < SSIZE /\ SSIZE < PtrMod
  /\ PtrMod % SSIZE = 0
ASSUME ParameterAssumption ==
  /\ HasOffsetAddressMapping \in BOOLEAN
  /\ IncThreshold \in Nat /\ 0 < IncThreshold
  /\ IncMod \in Nat /\ IncThreshold <= IncMod
  /\ StartPtr \in Nat /\ StartPtr < PtrMod
  /\ \A n \in RecvLens : n \in Nat /\ 0 < n
  /\ MaxBytes \in Nat

VARIABLES
  sr,        \* chip: the socket's status
  ring,      \* chip: receive buffer, a byte is represented by its position
  base,      \* chip: the RX pointer of byte 0 of the connection
  arrived,   \* chip: bytes received on this connection
  freed,     \* chip: bytes whose space RECV commands gave back
  ss,        \* socketState[s]: RX_RSR, RX_RD, RX_inc
  pc,        \* the chip access the call in progress makes next, or "idle"
  len,       \* the length the call in progress was given
  buf,       \* what the last read or peek returned
  result,    \* how the last call ended
  got        \* ghost: bytes handed to the application on this connection

chipVars == <<sr, ring, base, arrived, freed>>
vars == <<sr, ring, base, arrived, freed, ss, pc, len, buf, result, got>>

Slots == 0 .. SSIZE - 1

\* Where the chip keeps byte k of the connection.
SlotOf(k) == (base + k) % SSIZE

\* The chip's RX_RSR register: received, and not given back.
RsrRegister == arrived - freed

\* The distance between two 16-bit pointers.
Distance(from, to) == (to - from) % PtrMod

\* Forgets to clear what was owed on the connection before.
OpenedSocket_KeepsInc(rd) == [RX_RSR |-> 0, RX_RD |-> rd, RX_inc |-> ss.RX_inc]

\* What socketBegin leaves in socketState[s], reading rd from the chip.
OpenedSocket(rd) == [RX_RSR |-> 0, RX_RD |-> rd, RX_inc |-> 0]

Init ==
  /\ sr = "ESTABLISHED"
  /\ ring = [i \in Slots |-> -1]
  /\ base = StartPtr
  /\ arrived = 0 /\ freed = 0 /\ got = 0
  /\ ss = [RX_RSR |-> 0, RX_RD |-> StartPtr, RX_inc |-> 0]
  /\ pc = "idle" /\ len = 0 /\ buf = <<>> /\ result = "none"

-----------------------------------------------------------------------------
(* The chip and the peer *)

\* A segment arrives; the peer keeps to the window the chip advertises.
SegmentArrives ==
  /\ sr = "ESTABLISHED"
  /\ \E n \in 1 .. SSIZE - RsrRegister :
       /\ arrived + n <= MaxBytes
       /\ arrived' = arrived + n
       /\ ring' = [i \in Slots |->
                     IF \E k \in arrived .. arrived + n - 1 : SlotOf(k) = i
                     THEN CHOOSE k \in arrived .. arrived + n - 1 : SlotOf(k) = i
                     ELSE ring[i]]
  /\ UNCHANGED <<sr, base, freed, ss, pc, len, buf, result, got>>

FinArrives ==
  /\ sr = "ESTABLISHED"
  /\ sr' = "CLOSE_WAIT"
  /\ UNCHANGED <<ring, base, arrived, freed, ss, pc, len, buf, result, got>>

\* A reset, or the chip gave up retransmitting; what arrived stays readable.
ConnectionDies ==
  /\ sr # "CLOSED"
  /\ sr' = "CLOSED"
  /\ UNCHANGED <<ring, base, arrived, freed, ss, pc, len, buf, result, got>>

-----------------------------------------------------------------------------
(* The library *)

\* Reads on past the end of the buffer, in another socket's memory (-2).
ReadData_NoWrap(src, n) ==
  [i \in 1..n |-> LET a == (src % SSIZE) + i IN IF a <= SSIZE THEN ring[a - 1] ELSE -2]

\* read_data: one piece if the chip maps offsets or the data does not wrap,
\* two pieces otherwise.
ReadData(src, n) ==
  LET mask == src % SSIZE
      size == SSIZE - mask
  IN [i \in 1..n |->
        IF HasOffsetAddressMapping THEN ring[(mask + i - 1) % SSIZE]
        ELSE IF mask + n <= SSIZE \/ i <= size THEN ring[mask + i - 1]
        ELSE ring[i - size - 1]]

\* ret = rsr - socketState[s].RX_inc
Unread(rsr, inc) == rsr - inc

\* Trusts a cached zero.
NeedsRefresh_NotWhenEmpty(rsr, n) == 0 < rsr /\ rsr < n

NeedsRefresh(rsr, n) == rsr < n

\* client.read(buf, n), client.read(): socketRecv looks at the cached count.
\* n > 0, so a count of zero is refreshed before it is acted on.
RecvCall ==
  /\ pc = "idle"
  /\ \E n \in RecvLens :
       /\ len' = n
       /\ pc' = IF NeedsRefresh(ss.RX_RSR, n) THEN "refresh"
                ELSE IF ss.RX_RSR = 0 THEN "status" ELSE "copy"
  /\ UNCHANGED <<chipVars, ss, buf, result, got>>

RecvRefresh ==
  /\ pc = "refresh"
  /\ LET ret == Unread(RsrRegister, ss.RX_inc) IN
       /\ ss' = [ss EXCEPT !.RX_RSR = ret]
       /\ pc' = IF ret = 0 THEN "status" ELSE "copy"
  /\ UNCHANGED <<chipVars, len, buf, result, got>>

\* No data: the status, read after the count, tells end of file from
\* nothing yet.
RecvStatus ==
  /\ pc = "status"
  /\ result' = IF sr \in {"LISTEN", "CLOSED", "CLOSE_WAIT"} THEN "eof" ELSE "nodata"
  /\ pc' = "idle"
  /\ UNCHANGED <<chipVars, ss, len, buf, got>>

CommitNow(inc, rsr) == inc >= IncThreshold \/ rsr = 0

\* ptr += ret; socketState[s].RX_RD = ptr, in 16 bits
NextRead(rd, n) == (rd + n) % PtrMod

\* The data leaves the chip, and the library's own pointer and counts move.
RecvCopy ==
  /\ pc = "copy"
  /\ LET ret == IF ss.RX_RSR > len THEN len ELSE ss.RX_RSR
         rsr == ss.RX_RSR - ret
         inc == ss.RX_inc + ret
     IN /\ buf' = ReadData(ss.RX_RD, ret)
        /\ got' = got + ret
        /\ ss' = [RX_RSR |-> rsr,
                  RX_RD  |-> NextRead(ss.RX_RD, ret),
                  RX_inc |-> IF CommitNow(inc, rsr) THEN 0 ELSE inc % IncMod]
        /\ pc' = IF CommitNow(inc, rsr) THEN "commit" ELSE "idle"
        /\ result' = "data"
  /\ UNCHANGED <<chipVars, len>>

\* RX_RD is written and RECV given: the chip frees everything up to RX_RD,
\* a distance it computes in its own 16-bit pointers.
RecvCommit ==
  /\ pc = "commit"
  /\ freed' = freed + Distance(base + freed, ss.RX_RD)
  /\ pc' = "idle"
  /\ UNCHANGED <<sr, ring, base, arrived, ss, len, buf, result, got>>

\* Answers from the cache alone.
Available_Cached == ss.RX_RSR

\* socketRecvAvailable: the cached count, refreshed if it is zero.
Available ==
  IF ss.RX_RSR = 0 THEN Unread(RsrRegister, ss.RX_inc) ELSE ss.RX_RSR

\* client.available()
AvailableCall ==
  /\ pc = "idle"
  /\ ss' = [ss EXCEPT !.RX_RSR = Available]
  /\ result' = "available"
  /\ UNCHANGED <<chipVars, pc, len, buf, got>>

\* client.peek(): available(), then socketPeek reads one byte at RX_RD.
PeekCall ==
  /\ pc = "idle"
  /\ ss' = [ss EXCEPT !.RX_RSR = Available]
  /\ IF Available = 0
     THEN result' = "nodata" /\ UNCHANGED buf
     ELSE result' = "data" /\ buf' = <<ring[ss.RX_RD % SSIZE]>>
  /\ UNCHANGED <<chipVars, pc, len, got>>

\* client.connected(): the status first,
ConnectedCall ==
  /\ pc = "idle"
  /\ IF sr = "CLOSE_WAIT"
     THEN pc' = "connected" /\ UNCHANGED result
     ELSE /\ result' = IF sr \in {"LISTEN", "CLOSED", "FIN_WAIT"}
                       THEN "disconnected" ELSE "connected"
          /\ UNCHANGED pc
  /\ UNCHANGED <<chipVars, ss, len, buf, got>>

\* and, if the peer has closed, whether data is left.
ConnectedAvailable ==
  /\ pc = "connected"
  /\ ss' = [ss EXCEPT !.RX_RSR = Available]
  /\ result' = IF Available = 0 THEN "disconnected" ELSE "connected"
  /\ pc' = "idle"
  /\ UNCHANGED <<chipVars, len, buf, got>>

\* socketBegin takes the closed socket for another connection, which is
\* established (connect() or a listening server) before data arrives.
Reopen ==
  /\ pc = "idle" /\ sr = "CLOSED"
  /\ sr' = "ESTABLISHED"
  /\ base' = 0 /\ arrived' = 0 /\ freed' = 0 /\ got' = 0
  /\ ss' = OpenedSocket(base')
  /\ buf' = <<>> /\ result' = "none" /\ len' = 0
  /\ UNCHANGED <<ring, pc>>

Chip == SegmentArrives \/ FinArrives \/ ConnectionDies

\* What a call that has begun does next.
CallStep ==
  RecvRefresh \/ RecvStatus \/ RecvCopy \/ RecvCommit \/ ConnectedAvailable

Application == RecvCall \/ AvailableCall \/ PeekCall \/ ConnectedCall \/ Reopen

Next == Chip \/ CallStep \/ Application

(* A call that has begun goes on, and the sketch's loop() reads again and  *)
(* again, whatever else it asks in between.  Nothing is asked of the chip. *)
Spec == Init /\ [][Next]_vars /\ WF_vars(CallStep) /\ SF_vars(RecvCall)

-----------------------------------------------------------------------------
TypeOK ==
  /\ sr \in {"ESTABLISHED", "CLOSE_WAIT", "CLOSED"}
  /\ ring \in [Slots -> Int]
  /\ base \in Nat /\ base < PtrMod
  /\ arrived \in Nat /\ freed \in Nat /\ got \in Nat
  /\ ss \in [RX_RSR : Nat, RX_RD : Nat, RX_inc : Nat]
  /\ ss.RX_RD < PtrMod
  /\ pc \in {"idle", "refresh", "status", "copy", "commit", "connected"}
  /\ len \in Nat
  /\ buf \in Seq(Int)
  /\ result \in {"none", "data", "eof", "nodata", "available", "connected", "disconnected"}

(* The two sides agree on the buffer: what the library has read and not    *)
(* given back is exactly RX_inc, what it believes to be left has arrived,  *)
(* the chip never holds more than the buffer, and RX_inc stays below the   *)
(* threshold, so that it fits the uint8_t it is kept in.                   *)
Accounting ==
  /\ freed <= got
  /\ pc # "commit" => got = freed + ss.RX_inc
  /\ got + ss.RX_RSR <= arrived
  /\ arrived - freed <= SSIZE
  /\ ss.RX_RD = (base + got) % PtrMod
  /\ ss.RX_inc < IncThreshold

(* Space is withheld from the peer only while the cache still promises     *)
(* data: once the application has drained the cache, all of it has been    *)
(* given back, and a peer waiting for window is not kept waiting.          *)
NoWithheldWindow == ss.RX_RSR = 0 => ss.RX_inc = 0

(* New segments never overwrite a byte the application has not read.       *)
UnreadIntact == \A k \in got .. arrived - 1 : ring[SlotOf(k)] = k

(* The application is handed the bytes of the connection in order, each    *)
(* once (socketRecv, socketPeek over the chip's circular buffer).          *)
Stream == INSTANCE ByteStream WITH last <- buf
DeliversTheStream == Stream!Spec

(* After the peer's FIN, connected() becomes false only when every byte    *)
(* has been read: the status is read before the count, so no data can slip *)
(* in between.                                                             *)
DisconnectedMeansDrained ==
  [][ConnectedAvailable /\ result' = "disconnected" => got = arrived]_vars

(* A byte that arrived is handed to an application that keeps reading,     *)
(* unless the application gives the connection up.                         *)
EveryByteDelivered ==
  \A k \in 1 .. MaxBytes : arrived >= k ~> (got >= k \/ arrived < k)

(* What the steps of a call in progress rely on.                           *)
CallInv ==
  /\ pc \in {"refresh", "copy"} => 0 < len
  /\ pc = "copy" => 0 < ss.RX_RSR
  /\ pc = "commit" => ss.RX_inc = 0

(* The inductive invariant behind all of these.                            *)
RxInv == TypeOK /\ Accounting /\ NoWithheldWindow /\ UnreadIntact /\ CallInv

-----------------------------------------------------------------------------
(* Statements of the documentation that the code does not keep.            *)

(* socket.cpp:285: a return of 0 from socketRecv "is the eof state".       *)
EofMeansDrained == [][RecvStatus /\ result' = "eof" => got = arrived]_vars
=============================================================================
