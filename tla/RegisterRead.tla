---------------------------- MODULE RegisterRead ----------------------------
(***************************************************************************)
(* Reading a 16-bit size register of a WIZnet chip while the chip changes  *)
(* it: getSnRX_RSR and getSnTX_FSR (src/src/socket.cpp:228-245, 345-358).  *)
(*                                                                         *)
(* A 16-bit register is read as two bytes, high byte first (W5x00.h:261);  *)
(* the W5100 even deselects the chip between the bytes (W5100.cpp:107).    *)
(* The chip may move the register between any two byte reads, so one       *)
(* 16-bit read can combine the halves of two different values.  The        *)
(* library therefore reads until two consecutive reads agree.              *)
(*                                                                         *)
(* During one call the register only grows: RX_RSR grows when data arrive, *)
(* TX_FSR when the peer acknowledges; what lowers them is a command of the *)
(* library itself (RECV, SEND, OPEN), which the call does not issue.       *)
(***************************************************************************)
EXTENDS Integers

CONSTANT Levels      \* the values the register may take

ASSUME LevelsAssumption == \A v \in Levels : v \in Nat /\ v < 65536

VARIABLES
  reg,     \* the chip's register
  seen,    \* ghost: every value the register held during this call
  stage,   \* "idle", the byte read that comes next, or "done"
  hi,      \* the high byte just read
  prev,    \* the local prev of getSnRX_RSR
  val      \* the local val of getSnRX_RSR, which the call returns

readVars == <<reg, seen, stage, hi, prev, val>>

Byte == 256
HighByte(w) == w \div Byte
LowByte(w)  == w % Byte

\* The word a __SOCKET_REGISTER16 read assembles: (buf[0] << 8) | buf[1].
Word(h, w) == h * Byte + LowByte(w)

ReadInit ==
  /\ reg \in Levels
  /\ seen = {} /\ stage = "idle" /\ hi = 0 /\ prev = 0 /\ val = 0

-----------------------------------------------------------------------------
\* The chip: data or acknowledgements arrive at any moment.
Grow ==
  \E v \in Levels :
    /\ v > reg
    /\ reg' = v
    /\ seen' = IF stage = "idle" THEN seen ELSE seen \cup {v}
    /\ UNCHANGED <<stage, hi, prev, val>>

\* Between two calls the library's own command lowered the register.
Consume ==
  /\ stage = "idle"
  /\ \E v \in Levels : v < reg /\ reg' = v
  /\ UNCHANGED <<seen, stage, hi, prev, val>>

Call ==
  /\ stage = "idle"
  /\ stage' = "hi1"
  /\ seen' = {reg} /\ hi' = 0 /\ prev' = 0 /\ val' = 0
  /\ UNCHANGED reg

ReadHigh ==
  /\ stage \in {"hi1", "hi2"}
  /\ hi' = HighByte(reg)
  /\ stage' = IF stage = "hi1" THEN "lo1" ELSE "lo2"
  /\ UNCHANGED <<reg, seen, prev, val>>

\* prev = readSnRX_RSR(s), its second byte.
ReadLowFirst ==
  /\ stage = "lo1"
  /\ prev' = Word(hi, reg)
  /\ stage' = "hi2"
  /\ UNCHANGED <<reg, seen, hi, val>>

\* As if the loop returned after its first pair of reads.
Agrees_Unchecked(v, p) == TRUE

\* As if the test of the loop were inverted.
Agrees_Inverted(v, p) == v # p

\* if (val == prev): the loop stops when a read agrees with the one before it.
Agrees(v, p) == v = p

\* val = readSnRX_RSR(s), its second byte, and the test of the loop.
ReadLowAgain ==
  /\ stage = "lo2"
  /\ LET v == Word(hi, reg) IN
       IF Agrees(v, prev)
       THEN /\ val' = v /\ stage' = "done"
            /\ UNCHANGED prev
       ELSE /\ prev' = v /\ stage' = "hi2"
            /\ UNCHANGED val
  /\ UNCHANGED <<reg, seen, hi>>

Return ==
  /\ stage = "done"
  /\ stage' = "idle"
  /\ seen' = {} /\ hi' = 0 /\ prev' = 0 /\ val' = 0
  /\ UNCHANGED reg

Library == Call \/ ReadHigh \/ ReadLowFirst \/ ReadLowAgain \/ Return

ReadNext == Grow \/ Consume \/ Library

(* The sketch runs: a call that started takes its next byte read.  The     *)
(* chip owes nothing.                                                      *)
ReadSpec == ReadInit /\ [][ReadNext]_readVars /\ WF_readVars(Library)

-----------------------------------------------------------------------------
ReadTypeOK ==
  /\ reg \in Levels
  /\ seen \subseteq Levels
  /\ stage \in {"idle", "hi1", "lo1", "hi2", "lo2", "done"}
  /\ hi \in Nat /\ hi < 256
  /\ prev \in Nat /\ prev < 65536
  /\ val \in Nat /\ val < 65536

(* The value a call returns is one the register really held during the     *)
(* call, although none of the four byte reads behind it was atomic with    *)
(* another: so the receive buffer holds that many bytes, or the transmit   *)
(* buffer has room for that many, and the caller may rely on it.           *)
ReturnIsExact == stage = "done" => val \in seen

(* A call returns: the loop of getSnRX_RSR ends because the register, which*)
(* only grows until the next command, cannot change for ever.              *)
CallReturns == (stage = "hi1") ~> (stage = "done")

-----------------------------------------------------------------------------
(* What makes the double read exact.  v is the value the register held     *)
(* when the low byte of the word in prev was read: the high byte read      *)
(* before it can only be behind that of v, the one read after it only      *)
(* ahead, so if the two agree both are the high byte of v.                 *)
Witness(v) ==
  /\ v \in seen
  /\ v <= reg
  /\ LowByte(v) = LowByte(prev)
  /\ HighByte(prev) <= HighByte(v)
  /\ stage = "lo2" => HighByte(v) <= hi

RegisterInv ==
  /\ stage # "idle" => reg \in seen
  /\ stage \in {"lo1", "lo2"} => hi <= HighByte(reg)
  /\ stage \in {"hi2", "lo2"} => \E v \in seen : Witness(v)
  /\ stage = "done" => val \in seen /\ val <= reg
=============================================================================
