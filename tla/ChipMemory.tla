----------------------------- MODULE ChipMemory -----------------------------
(***************************************************************************)
(* How the three drivers divide a chip's packet memory among the sockets   *)
(* and reach it over SPI: the constructors, init, SBASE, RBASE, softReset  *)
(* and the addresses that read and write put on the bus                    *)
(* (src/src/utility/W5100, W5200, W5500 and W5x00).                        *)
(*                                                                         *)
(* The sketch may give a driver fewer sockets than the chip has; each then *)
(* gets a larger buffer.  The size is chosen twice, once as the library's  *)
(* SSIZE and once in the registers that tell the chip, and on the W5500    *)
(* every address is turned into a block select by a shift that has to fit  *)
(* the same size.                                                          *)
(***************************************************************************)
EXTENDS Integers

CONSTANTS
  Chips,      \* the drivers to consider
  Requests,   \* the numbers of sockets a sketch may ask for
  MaxPolls,   \* polls before softReset gives up: 20
  Edges,      \* transfers begin so many bytes from either end of a buffer
  Bytes,      \* the bytes of a transfer considered, counted from its first
  Registers   \* the registers of a socket, the first of a pair of bytes

ASSUME ParameterAssumption ==
  /\ Chips \subseteq {"W5100", "W5200", "W5500"}
  /\ \A n \in Requests : n \in Nat
  /\ MaxPolls \in Nat /\ 0 < MaxPolls
  /\ \A n \in Edges : n \in Nat
  /\ \A n \in Bytes : n \in Nat
  /\ \A a \in Registers : a \in Nat /\ a < 255

VARIABLES
  chip,         \* which driver and chip
  maxSock,      \* _maxSockNum
  SSIZE,        \* the library's buffer size
  initialized,  \* _initialized
  txKB, rxKB,   \* chip: kilobytes of transmit and receive memory per socket
  pc,           \* "idle", or "reset" while softReset polls
  count,        \* its counter
  want,         \* the byte of a socket's memory the library means to reach
  hit           \* the byte of a socket's memory the chip reaches

vars == <<chip, maxSock, SSIZE, initialized, txKB, rxKB, pc, count, want, hit>>

KB == 1024
SocketsOf(c) == IF c = "W5100" THEN 4 ELSE 8
MemoryKB(c) == IF c = "W5100" THEN 8 ELSE 16
Sockets == 0 .. SocketsOf(chip) - 1

Nowhere == [mem |-> "none", s |-> 0, at |-> 0]

\* The constructors: a request beyond the chip's sockets is cut down.
Init ==
  /\ chip \in Chips
  /\ \E n \in Requests :
       maxSock = IF n < SocketsOf(chip) THEN n ELSE SocketsOf(chip)
  /\ SSIZE = 2 * KB
  /\ initialized = FALSE
  /\ txKB = [s \in Sockets |-> 2] /\ rxKB = [s \in Sockets |-> 2]
  /\ pc = "idle" /\ count = 0
  /\ want = Nowhere /\ hit = Nowhere

-----------------------------------------------------------------------------
(* init()                                                                  *)

InitCall ==
  /\ pc = "idle" /\ ~initialized
  /\ pc' = "reset" /\ count' = 0
  /\ UNCHANGED <<chip, maxSock, SSIZE, initialized, txKB, rxKB, want, hit>>

\* The size each driver takes for SSIZE.
SizeKB(c, n) ==
  IF c = "W5100"
  THEN IF n <= 1 THEN 8 ELSE IF n <= 2 THEN 4 ELSE 2
  ELSE IF n <= 1 THEN 16 ELSE IF n <= 2 THEN 8 ELSE IF n <= 4 THEN 4 ELSE 2

\* The W5100's TMSR and RMSR: 0x03, 0x0A or 0x55, two bits for each socket.
MemorySizeRegister(n) == IF n <= 1 THEN 3 ELSE IF n <= 2 THEN 10 ELSE 85

\* The chip allots 1, 2, 4 or 8 KB by a socket's two bits.
Allotted(reg, s) == 2 ^ ((reg \div 4 ^ s) % 4)

\* As if the sockets that are not used kept their memory.
UnusedKB_Default == 2

\* writeSnRX_SIZE(i, 0), writeSnTX_SIZE(i, 0)
UnusedKB == 0

\* What the chip is told.
ProgrammedKB ==
  [s \in Sockets |->
     IF chip = "W5100" THEN Allotted(MemorySizeRegister(maxSock), s)
     ELSE IF s < maxSock THEN SizeKB(chip, maxSock) ELSE UnusedKB]

\* softReset found the mode register zero: a chip is there.
ResetAnswered ==
  /\ pc = "reset"
  /\ SSIZE' = SizeKB(chip, maxSock) * KB
  /\ txKB' = ProgrammedKB /\ rxKB' = ProgrammedKB
  /\ initialized' = TRUE
  /\ pc' = "idle"
  /\ UNCHANGED <<chip, maxSock, count, want, hit>>

\* As if the polls were not counted.
Counted_Not(n) == n

\* ++count
Counted(n) == n + 1

\* while (++count < 20)
PollsAgain(n) == n < MaxPolls

ResetUnanswered ==
  /\ pc = "reset"
  /\ count' = Counted(count)
  /\ pc' = IF PollsAgain(count') THEN "reset" ELSE "idle"
  /\ UNCHANGED <<chip, maxSock, SSIZE, initialized, txKB, rxKB, want, hit>>

-----------------------------------------------------------------------------
(* Addresses                                                               *)

Word(a) == a % 65536

TxBase == IF chip = "W5100" THEN 16384 ELSE 32768    \* 0x4000, 0x8000
RxBase == IF chip = "W5100" THEN 24576 ELSE 49152    \* 0x6000, 0xC000
RegBase == IF chip = "W5100" THEN 1024               \* CH_BASE: 0x0400,
           ELSE IF chip = "W5200" THEN 16384 ELSE 4096  \* 0x4000, 0x1000

SBASE(s) == Word(s * SSIZE + TxBase)
RBASE(s) == Word(s * SSIZE + RxBase)
RegisterOf(s, a) == Word(RegBase + s * 256 + a)

HasOffsetAddressMapping == chip = "W5500"

\* As if every buffer were of 2 KB.
BufferBlock_2K(addr) == 32 * ((addr \div 2048) % 8)

\* ((addr >> 8) & 0x20), ((addr >> 7) & 0x60) or ((addr >> 6) & 0xE0)
BufferBlock(addr) ==
  IF maxSock <= 1 THEN 0
  ELSE IF maxSock <= 2 THEN 32 * ((addr \div 8192) % 2)
  ELSE IF maxSock <= 4 THEN 32 * ((addr \div 4096) % 4)
  ELSE 32 * ((addr \div 2048) % 8)

\* cmd[2] of a W5500 frame without its write bit: the block in five bits.
Control(addr) ==
  IF addr < 256 THEN 0
  ELSE IF addr < 32768 THEN 32 * ((addr \div 256) % 8) + 8
  ELSE IF addr < 49152 THEN BufferBlock(addr) + 16
  ELSE BufferBlock(addr) + 24

\* The memory areas of a chip's sockets lie one behind the other.
KBBefore(kb) ==
  LET sum[s \in 0 .. SocketsOf(chip)] == IF s = 0 THEN 0 ELSE sum[s - 1] + kb[s - 1]
  IN sum
Start(kb, s) == KB * KBBefore(kb)[s]

InArea(a, first, kb, s) ==
  /\ first + Start(kb, s) <= a
  /\ a < first + Start(kb, s) + KB * kb[s]
  /\ a < first + KB * MemoryKB(chip)

AreaByte(mem, a, first, kb) ==
  IF \E s \in Sockets : InArea(a, first, kb, s)
  THEN LET s == CHOOSE t \in Sockets : InArea(a, first, kb, t)
       IN [mem |-> mem, s |-> s, at |-> a - first - Start(kb, s)]
  ELSE Nowhere

\* W5100 and W5200: one address space.
ReachedByAddress(a) ==
  IF a >= RxBase THEN AreaByte("rx", a, RxBase, rxKB)
  ELSE IF a >= TxBase THEN AreaByte("tx", a, TxBase, txKB)
  ELSE IF RegBase <= a /\ a < RegBase + 256 * SocketsOf(chip)
       THEN [mem |-> "reg", s |-> (a - RegBase) \div 256, at |-> a % 256]
       ELSE Nowhere

BlockByte(mem, s, a, kb) ==
  IF kb[s] = 0 THEN Nowhere ELSE [mem |-> mem, s |-> s, at |-> a % (KB * kb[s])]

\* W5500: a block and an offset that the chip wraps within the block.
ReachedByBlock(block, a) ==
  LET s == block \div 4 IN
    CASE block % 4 = 1 -> [mem |-> "reg", s |-> s, at |-> a % 256]
      [] block % 4 = 2 -> BlockByte("tx", s, a, txKB)
      [] block % 4 = 3 -> BlockByte("rx", s, a, rxKB)
      [] OTHER -> Nowhere

\* Byte i of a transfer that starts at addr.
Reached(addr, i) ==
  IF chip = "W5500"
  THEN ReachedByBlock(Control(addr) \div 8, Word(addr + i))
  ELSE ReachedByAddress(Word(addr + i))

\* A byte of socket s's buffers: read_data and write_data cross the end of
\* the buffer in one transfer only where the chip wraps.
BufferAccess ==
  \E s \in 0 .. maxSock - 1, mem \in {"tx", "rx"},
     off \in Edges \cup {SSIZE - 1 - n : n \in Edges}, i \in Bytes :
       /\ 0 <= off /\ off < SSIZE
       /\ off + i < SSIZE \/ HasOffsetAddressMapping
       /\ want' = [mem |-> mem, s |-> s, at |-> (off + i) % SSIZE]
       /\ hit' = Reached((IF mem = "tx" THEN SBASE(s) ELSE RBASE(s)) + off, i)

\* A byte of socket s's registers, the second of a pair among them.
RegisterAccess ==
  \E s \in 0 .. maxSock - 1, a \in Registers, i \in 0 .. 1 :
       /\ want' = [mem |-> "reg", s |-> s, at |-> a + i]
       /\ hit' = Reached(RegisterOf(s, a), i)

Access ==
  /\ pc = "idle" /\ initialized
  /\ BufferAccess \/ RegisterAccess
  /\ UNCHANGED <<chip, maxSock, SSIZE, initialized, txKB, rxKB, pc, count>>

Next == InitCall \/ ResetAnswered \/ ResetUnanswered \/ Access

(* softReset goes on polling; no chip is obliged to answer.                *)
Spec == Init /\ [][Next]_vars /\ WF_vars(ResetUnanswered)

-----------------------------------------------------------------------------
\* Offsets of 16 bits.
Offsets == 0 .. 65535
Target == [mem : {"none", "tx", "rx", "reg"}, s : Sockets, at : Offsets]

TypeOK ==
  /\ chip \in Chips
  /\ maxSock \in 0 .. SocketsOf(chip)
  /\ SSIZE \in {2 * KB, 4 * KB, 8 * KB, 16 * KB}
  /\ initialized \in BOOLEAN
  /\ txKB \in [Sockets -> {0, 1, 2, 4, 8, 16}] /\ rxKB \in [Sockets -> {0, 1, 2, 4, 8, 16}]
  /\ pc \in {"idle", "reset"}
  /\ count \in 0 .. MaxPolls
  /\ want \in Target

(* Every access reaches the byte it is meant for, in the memory of its own *)
(* socket: the base addresses, the block select and the sizes in the chip  *)
(* fit together for every number of sockets a sketch may ask for.          *)
HitsOwnMemory == hit = want

\* softReset is polling for the first chip that answers.
ResetInv == pc = "reset" => ~initialized /\ count < MaxPolls

\* init() tells the chip the sizes that it takes for the library's.
ToldTheChip ==
  initialized =>
    /\ SSIZE = SizeKB(chip, maxSock) * KB
    /\ txKB = ProgrammedKB /\ rxKB = ProgrammedKB

AccessInv == TypeOK /\ ResetInv /\ ToldTheChip /\ HitsOwnMemory

(* The library's SSIZE is the size the chip gives to each socket in use,   *)
ChipAgreesOnSize ==
  \A s \in 0 .. maxSock - 1 : KB * txKB[s] = SSIZE /\ KB * rxKB[s] = SSIZE

(* and the chip is not asked for more memory than it has: the sockets not  *)
(* in use are given none where that can be said.                           *)
MemoryNotOvercommitted ==
  LET counted == IF chip = "W5100" THEN maxSock ELSE SocketsOf(chip)
  IN /\ Start(txKB, counted) <= KB * MemoryKB(chip)
     /\ Start(rxKB, counted) <= KB * MemoryKB(chip)

(* After init() the library and the chip divide the memory the same way,   *)
(* for every number of sockets.                                            *)
MemoryDivided ==
  initialized /\ maxSock > 0 => ChipAgreesOnSize /\ MemoryNotOvercommitted

(* init() returns, whether or not a chip answers.                          *)
InitReturns == (pc = "reset") ~> (pc = "idle")
=============================================================================
