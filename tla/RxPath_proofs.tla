--------------------------- MODULE RxPath_proofs ----------------------------
(***************************************************************************)
(* Machine-checked proofs about the receive path, for every buffer size    *)
(* that divides 65536, every threshold, every place of the RX pointer when *)
(* the connection begins, and both ways a chip wraps addresses; and before *)
(* them about the reading of a size register, in two bytes twice over,     *)
(* which lets RxPath (and TxPath) take such a read for one access.         *)
(***************************************************************************)
EXTENDS RxPath, RegisterRead, ModularArithmetic, TLAPS

(***************************************************************************)
(* Reading a size register                                                 *)
(***************************************************************************)

(* A word is determined by its two bytes, and its high byte is a byte.     *)
LEMMA BytesOfWord ==
  ASSUME NEW w \in Nat, w < 65536
  PROVE  /\ HighByte(w) \in Nat /\ HighByte(w) < 256
         /\ LowByte(w) \in Nat /\ LowByte(w) < 256
         /\ w = HighByte(w) * Byte + LowByte(w)
  BY DEF HighByte, LowByte, Byte

(* Assembling a word from a high byte and the low byte of a register gives *)
(* a word with just these bytes.                                           *)
LEMMA BytesOfAssembledWord ==
  ASSUME NEW h \in Nat, h < 256, NEW w \in Nat, w < 65536
  PROVE  /\ Word(h, w) \in Nat /\ Word(h, w) < 65536
         /\ HighByte(Word(h, w)) = h
         /\ LowByte(Word(h, w)) = LowByte(w)
<1>0. LowByte(w) \in Nat /\ LowByte(w) < 256
  BY BytesOfWord
<1>1. Word(h, w) \in Nat /\ Word(h, w) < 65536
  BY <1>0 DEF Word, Byte
<1>2. HighByte(Word(h, w)) = h
  BY <1>0 DEF Word, HighByte, Byte
<1>3. Word(h, w) % Byte = LowByte(w)
  BY <1>0 DEF Word, Byte
<1> QED BY <1>1, <1>2, <1>3 DEF LowByte

(* The high byte is monotone in the word.                                  *)
LEMMA HighByteMonotone ==
  ASSUME NEW v \in Nat, NEW w \in Nat, v <= w
  PROVE  HighByte(v) <= HighByte(w)
  BY DEF HighByte, Byte

(* The variables of getSnRX_RSR and of the register keep their types.      *)
THEOREM ReadTypeCorrect == ReadSpec => []ReadTypeOK
<1>1. ReadInit => ReadTypeOK
  BY DEF ReadInit, ReadTypeOK
<1>2. ReadTypeOK /\ [ReadNext]_readVars => ReadTypeOK'
  <2> SUFFICES ASSUME ReadTypeOK, [ReadNext]_readVars PROVE ReadTypeOK'
    OBVIOUS
  <2> USE DEF ReadTypeOK
  <2>0. reg \in Nat /\ reg < 65536
    BY LevelsAssumption
  <2>1. CASE Grow
    BY <2>1 DEF Grow
  <2>2. CASE Consume
    BY <2>2 DEF Consume
  <2>3. CASE Call
    BY <2>3 DEF Call
  <2>4. CASE ReadHigh
    BY <2>4, <2>0, BytesOfWord DEF ReadHigh
  <2>5. CASE ReadLowFirst
    BY <2>5, <2>0, BytesOfAssembledWord DEF ReadLowFirst
  <2>6. CASE ReadLowAgain
    BY <2>6, <2>0, BytesOfAssembledWord DEF ReadLowAgain
  <2>7. CASE Return
    BY <2>7 DEF Return
  <2>8. CASE UNCHANGED readVars
    BY <2>8 DEF readVars
  <2> QED BY <2>1, <2>2, <2>3, <2>4, <2>5, <2>6, <2>7, <2>8 DEF ReadNext, Library
<1> QED BY <1>1, <1>2, PTL DEF ReadSpec

(* The inductive step of the argument that the double read is exact.       *)
LEMMA RegisterInvStep ==
  ReadTypeOK /\ RegisterInv /\ [ReadNext]_readVars => RegisterInv'
<1> SUFFICES ASSUME ReadTypeOK, RegisterInv, [ReadNext]_readVars PROVE RegisterInv'
  OBVIOUS
<1>0. /\ reg \in Nat /\ reg < 65536
      /\ \A u \in seen : u \in Nat /\ u < 65536
  BY LevelsAssumption DEF ReadTypeOK
<1>1. CASE Grow
  <2>1. PICK v \in Levels :
          /\ v > reg /\ reg' = v
          /\ seen' = IF stage = "idle" THEN seen ELSE seen \cup {v}
          /\ UNCHANGED <<stage, hi, prev, val>>
    BY <1>1 DEF Grow
  <2>2. v \in Nat /\ v < 65536
    BY LevelsAssumption
  <2>3. stage # "idle" => reg' \in seen'
    BY <2>1
  <2>4. HighByte(reg) <= HighByte(reg')
    BY <1>0, <2>1, <2>2, HighByteMonotone
  <2>5. stage \in {"lo1", "lo2"} => hi <= HighByte(reg')
    BY <1>0, <2>1, <2>2, <2>4, BytesOfWord DEF RegisterInv, ReadTypeOK
  <2>6. ASSUME stage \in {"hi2", "lo2"} PROVE \E u \in seen' : Witness(u)'
    <3>1. PICK u \in seen : Witness(u)
      BY <2>6 DEF RegisterInv
    <3>2. u <= reg'
      BY <1>0, <2>1, <2>2, <3>1 DEF Witness
    <3>3. Witness(u)'
      BY <2>1, <3>1, <3>2 DEF Witness
    <3> QED BY <2>1, <3>1, <3>3
  <2>7. stage = "done" => val \in seen' /\ val <= reg'
    BY <1>0, <2>1, <2>2 DEF RegisterInv, ReadTypeOK
  <2> QED BY <2>1, <2>3, <2>5, <2>6, <2>7 DEF RegisterInv
<1>2. CASE Consume
  BY <1>2 DEF Consume, RegisterInv
<1>3. CASE Call
  BY <1>3 DEF Call, RegisterInv
<1>4. CASE ReadHigh
  <2>1. hi' = HighByte(reg) /\ UNCHANGED <<reg, seen, prev, val>>
    BY <1>4 DEF ReadHigh
  <2>2. hi' <= HighByte(reg')
    BY <2>1, <1>0, BytesOfWord
  <2>3. stage \in {"hi1", "hi2"} /\ stage' = IF stage = "hi1" THEN "lo1" ELSE "lo2"
    BY <1>4 DEF ReadHigh
  <2>4. ASSUME stage = "hi2" PROVE \E u \in seen' : Witness(u)'
    <3>1. PICK u \in seen : Witness(u)
      BY <2>4 DEF RegisterInv
    <3>2. u \in Nat /\ u < 65536 /\ u <= reg
      BY <1>0, <3>1 DEF Witness
    <3>3. HighByte(u) <= hi'
      BY <2>1, <3>2, <1>0, HighByteMonotone
    <3> QED BY <2>1, <3>1, <3>3 DEF Witness
  <2> QED BY <2>1, <2>2, <2>3, <2>4 DEF RegisterInv
<1>5. CASE ReadLowFirst
  <2>1. stage = "lo1" /\ stage' = "hi2" /\ prev' = Word(hi, reg)
          /\ UNCHANGED <<reg, seen, hi, val>>
    BY <1>5 DEF ReadLowFirst
  <2>2. hi \in Nat /\ hi < 256 /\ hi <= HighByte(reg) /\ reg \in seen
    BY <2>1 DEF RegisterInv, ReadTypeOK
  <2>3. HighByte(prev') = hi /\ LowByte(prev') = LowByte(reg)
    BY <1>0, <2>1, <2>2, BytesOfAssembledWord
  <2>4. Witness(reg)'
    BY <1>0, <2>1, <2>2, <2>3 DEF Witness
  <2> QED BY <2>1, <2>2, <2>4 DEF RegisterInv
<1>6. CASE ReadLowAgain
  <2> DEFINE v == Word(hi, reg)
  <2>1. stage = "lo2" /\ UNCHANGED <<reg, seen, hi>>
    BY <1>6 DEF ReadLowAgain
  <2>2. hi \in Nat /\ hi < 256 /\ hi <= HighByte(reg) /\ reg \in seen
    BY <2>1 DEF RegisterInv, ReadTypeOK
  <2>3. v \in Nat /\ v < 65536 /\ HighByte(v) = hi /\ LowByte(v) = LowByte(reg)
    BY <1>0, <2>2, BytesOfAssembledWord
  <2>4. CASE v = prev
    <3>1. stage' = "done" /\ val' = v
      BY <2>4, <1>6 DEF ReadLowAgain, Agrees
    <3>2. PICK u \in seen : Witness(u)
      BY <2>1 DEF RegisterInv
    <3>3. u \in Nat /\ u < 65536 /\ u <= reg
      BY <1>0, <3>2 DEF Witness
    <3>4. LowByte(u) = LowByte(v) /\ HighByte(v) <= HighByte(u) /\ HighByte(u) <= hi
      BY <2>1, <2>4, <3>2 DEF Witness
    <3>5. HighByte(u) = HighByte(v)
      BY <2>3, <3>3, <3>4, BytesOfWord
    <3>6. u = v
      BY <2>3, <3>3, <3>4, <3>5, BytesOfWord
    <3>7. val' \in seen' /\ val' <= reg'
      BY <2>1, <3>1, <3>2, <3>3, <3>6
    <3> QED BY <2>1, <2>2, <3>1, <3>7 DEF RegisterInv
  <2>5. CASE v # prev
    <3>1. stage' = "hi2" /\ prev' = v /\ UNCHANGED val
      BY <2>5, <1>6 DEF ReadLowAgain, Agrees
    <3>2. Witness(reg)'
      BY <1>0, <2>1, <2>2, <2>3, <3>1 DEF Witness
    <3> QED BY <2>1, <2>2, <3>1, <3>2 DEF RegisterInv
  <2> QED BY <2>4, <2>5
<1>7. CASE Return
  BY <1>7 DEF Return, RegisterInv
<1>8. CASE UNCHANGED readVars
  <2>1. \A u : Witness(u)' <=> Witness(u)
    BY <1>8 DEF readVars, Witness
  <2> QED BY <1>8, <2>1 DEF readVars, RegisterInv
<1> QED
  BY <1>1, <1>2, <1>3, <1>4, <1>5, <1>6, <1>7, <1>8 DEF ReadNext, Library

(* getSnRX_RSR and getSnTX_FSR return a value the register held during the *)
(* call, for every set of register values and however the chip moves it.   *)
THEOREM DoubleReadIsExact == ReadSpec => []ReturnIsExact
<1>1. ReadInit => RegisterInv
  BY DEF ReadInit, RegisterInv
<1>2. RegisterInv => ReturnIsExact
  BY DEF RegisterInv, ReturnIsExact
<1> QED BY <1>1, <1>2, ReadTypeCorrect, RegisterInvStep, PTL DEF ReadSpec

(***************************************************************************)
(* The receive path                                                        *)
(***************************************************************************)

LEMMA Sizes ==
  /\ SSIZE \in Nat /\ 0 < SSIZE /\ SSIZE < PtrMod /\ PtrMod % SSIZE = 0
  /\ PtrMod \in Nat /\ 0 < PtrMod
  BY SizeAssumption DEF PtrMod

(* The chip keeps a byte in one of the slots of the buffer.                *)
LEMMA SlotOfType ==
  ASSUME NEW k \in Nat, base \in Nat
  PROVE  SlotOf(k) \in Slots
<1>1. base + k \in Nat
  OBVIOUS
<1>2. (base + k) % SSIZE \in Nat /\ (base + k) % SSIZE < SSIZE
  BY <1>1, Sizes, DivMod
<1> QED BY <1>2, Sizes DEF SlotOf, Slots

(* Two bytes of the connection share a slot only if a whole buffer lies    *)
(* between them.                                                           *)
LEMMA SlotOfInjective ==
  ASSUME NEW j \in Nat, NEW k \in Nat, base \in Nat,
         j < k, k < j + SSIZE
  PROVE  SlotOf(j) # SlotOf(k)
<1>1. base + j \in Nat /\ base + k \in Nat
      /\ base + j < base + k /\ base + k < base + j + SSIZE
  BY Sizes
<1> QED BY <1>1, Sizes, SlotsDiffer DEF SlotOf

(* The pointer RX_RD + i, masked, is the slot of the byte i places on from *)
(* the next one to be read.                                                *)
LEMMA PointerToSlot ==
  ASSUME NEW n \in Nat, base \in Nat, got \in Nat
  PROVE  ((((base + got) % PtrMod) % SSIZE) + n) % SSIZE = SlotOf(got + n)
<1>1. base + got \in Nat
  OBVIOUS
<1>2. ((base + got) % PtrMod) % SSIZE = (base + got) % SSIZE
  BY <1>1, Sizes, RemainderOfRemainder
<1>3. (((base + got) % SSIZE) + n) % SSIZE = ((base + got) + n) % SSIZE
  BY <1>1, Sizes, RemainderOfSum
<1>4. (base + got) + n = base + (got + n)
  OBVIOUS
<1> QED BY <1>2, <1>3, <1>4 DEF SlotOf

(* read_data returns exactly the next n bytes of the connection, whether   *)
(* the chip wraps addresses or the library splits the read.                *)
LEMMA ReadDataIsSlice ==
  ASSUME TypeOK, Accounting, UnreadIntact,
         NEW n \in Nat, 0 < n, got + n <= arrived
  PROVE  ReadData(ss.RX_RD, n) = Stream!Slice(got, n)
<1>0. base \in Nat /\ got \in Nat /\ arrived \in Nat /\ freed \in Nat
  BY DEF TypeOK
<1> DEFINE mask == ss.RX_RD % SSIZE
           size == SSIZE - mask
<1>1. ss.RX_RD = (base + got) % PtrMod
  BY DEF Accounting
<1>2. mask \in Nat /\ mask < SSIZE
  <2>1. ss.RX_RD \in Nat
    BY DEF TypeOK
  <2> QED BY <2>1, Sizes, DivMod
<1>3. n <= SSIZE
  BY <1>0, Sizes DEF Accounting
<1>4. \A i \in Nat : (mask + i) % SSIZE = SlotOf(got + i)
  BY <1>0, <1>1, PointerToSlot
<1> HIDE DEF mask
<1>5. ASSUME NEW i \in 1..n
      PROVE  (IF HasOffsetAddressMapping THEN ring[(mask + i - 1) % SSIZE]
              ELSE IF mask + n <= SSIZE \/ i <= size THEN ring[mask + i - 1]
              ELSE ring[i - size - 1]) = got + i - 1
  <2> DEFINE k == got + (i - 1)
  <2>1. i - 1 \in Nat /\ k \in got .. arrived - 1
    BY <1>0
  <2>2. ring[SlotOf(k)] = k
    BY <2>1 DEF UnreadIntact
  <2>3. (mask + (i - 1)) % SSIZE = SlotOf(k)
    BY <1>4, <2>1
  <2>4. CASE HasOffsetAddressMapping
    <3>1. mask + i - 1 = mask + (i - 1)
      BY <1>2
    <3> QED BY <2>2, <2>3, <2>4, <3>1, <1>0
  <2>5. CASE ~HasOffsetAddressMapping /\ (mask + n <= SSIZE \/ i <= size)
    <3>1. mask + i - 1 \in Nat /\ mask + i - 1 < SSIZE
      BY <1>2, <2>5, Sizes
    <3>2. (mask + i - 1) % SSIZE = mask + i - 1
      BY <3>1, Sizes, RemainderOfSmall
    <3>3. mask + i - 1 = mask + (i - 1)
      BY <1>2
    <3> QED BY <2>2, <2>3, <2>5, <3>2, <3>3, <1>0
  <2>6. CASE ~HasOffsetAddressMapping /\ ~(mask + n <= SSIZE \/ i <= size)
    <3>1. i - size - 1 \in Nat /\ i - size - 1 < SSIZE
      BY <1>2, <1>3, <2>6, Sizes
    <3>2. mask + (i - 1) = SSIZE * 1 + (i - size - 1) /\ mask + (i - 1) \in Nat
      BY <1>2, <2>1, Sizes
    <3>3. (mask + (i - 1)) % SSIZE = i - size - 1
      BY <3>1, <3>2, Sizes, RemainderUnique
    <3> QED BY <2>2, <2>3, <2>6, <3>3, <1>0
  <2> QED BY <2>4, <2>5, <2>6
<1>6. ReadData(ss.RX_RD, n) = [i \in 1..n |-> got + i - 1]
  BY <1>5 DEF ReadData, mask
<1> QED BY <1>6 DEF Stream!Slice

(***************************************************************************)
(* The inductive invariant                                                 *)
(***************************************************************************)

LEMMA RxInvInit == Init => RxInv
<1> SUFFICES ASSUME Init PROVE RxInv
  OBVIOUS
<1> USE DEF Init
<1>1. TypeOK
  BY ParameterAssumption DEF TypeOK
<1>2. Accounting
  <2>1. StartPtr % PtrMod = StartPtr
    BY ParameterAssumption, Sizes, RemainderOfSmall
  <2> QED BY <2>1, ParameterAssumption, Sizes DEF Accounting
<1> QED BY <1>1, <1>2 DEF RxInv, NoWithheldWindow, UnreadIntact, CallInv

(* A segment is written into slots that hold no unread byte.               *)
LEMMA SegmentStep == RxInv /\ SegmentArrives => RxInv'
<1> SUFFICES ASSUME RxInv, SegmentArrives PROVE RxInv'
  OBVIOUS
<1> USE DEF RxInv
<1>0. base \in Nat /\ got \in Nat /\ arrived \in Nat /\ freed \in Nat
      /\ freed <= got /\ got + ss.RX_RSR <= arrived /\ ss.RX_RSR \in Nat
  BY DEF TypeOK, Accounting
<1>p. PICK n \in 1 .. SSIZE - RsrRegister :
       /\ arrived' = arrived + n
       /\ ring' = [i \in Slots |->
                     IF \E k \in arrived .. arrived + n - 1 : SlotOf(k) = i
                     THEN CHOOSE k \in arrived .. arrived + n - 1 : SlotOf(k) = i
                     ELSE ring[i]]
  BY DEF SegmentArrives
<1> DEFINE new == arrived .. arrived + n - 1
<1>1. UNCHANGED <<sr, base, freed, ss, pc, len, buf, result, got>>
  BY DEF SegmentArrives
<1>2. n \in Nat /\ 0 < n /\ arrived + n - freed <= SSIZE /\ arrived' = arrived + n
  BY <1>p, <1>0, Sizes DEF RsrRegister
<1>3. ring' \in [Slots -> Int]
  <2>1. ASSUME NEW i \in Slots, \E k \in new : SlotOf(k) = i
        PROVE  (CHOOSE k \in new : SlotOf(k) = i) \in Int
    <3>1. (CHOOSE k \in new : SlotOf(k) = i) \in new
      BY <2>1
    <3> QED BY <3>1, <1>0, <1>2
  <2> QED BY <1>p, <2>1 DEF TypeOK
<1>4. TypeOK'
  BY <1>0, <1>1, <1>2, <1>3 DEF TypeOK, Slots
<1>5. Accounting'
  BY <1>0, <1>1, <1>2 DEF Accounting
<1>6. ASSUME NEW k \in got .. arrived + n - 1
      PROVE  ring'[SlotOf(k)] = k
  <2>1. k \in Nat /\ SlotOf(k) \in Slots
    BY <1>0, <1>2, SlotOfType
  <2>2. ASSUME NEW j \in new, SlotOf(j) = SlotOf(k) PROVE j = k
    <3>1. j \in Nat /\ j < k + SSIZE /\ k < j + SSIZE
      BY <1>0, <1>2, <2>1, Sizes
    <3> QED BY <2>1, <2>2, <3>1, <1>0, SlotOfInjective
  <2>3. CASE k \in new
    <3> DEFINE c == CHOOSE j \in new : SlotOf(j) = SlotOf(k)
    <3>1. c \in new /\ SlotOf(c) = SlotOf(k)
      BY <2>3
    <3>2. c = k
      BY <2>2, <3>1
    <3> QED BY <1>p, <2>1, <2>3, <3>2
  <2>4. CASE k \notin new
    <3>1. k \in got .. arrived - 1
      BY <1>0, <1>2, <2>1, <2>4
    <3>2. ~ \E j \in new : SlotOf(j) = SlotOf(k)
      BY <2>2, <2>4
    <3>3. ring[SlotOf(k)] = k
      BY <3>1 DEF UnreadIntact
    <3> QED BY <1>p, <2>1, <3>2, <3>3
  <2> QED BY <2>3, <2>4
<1>7. UnreadIntact'
  <2>1. got' = got /\ base' = base /\ arrived' = arrived + n
    BY <1>1, <1>2
  <2> SUFFICES ASSUME NEW k \in got' .. arrived' - 1
               PROVE  ring'[(base' + k) % SSIZE] = k
    BY DEF UnreadIntact, SlotOf
  <2>2. k \in got .. arrived + n - 1
    BY <1>0, <1>2, <2>1
  <2>3. ring'[SlotOf(k)] = k
    BY <1>6, <2>2
  <2> QED BY <2>1, <2>3 DEF SlotOf
<1>8. NoWithheldWindow' /\ CallInv'
  BY <1>1 DEF NoWithheldWindow, CallInv
<1> QED BY <1>4, <1>5, <1>7, <1>8

(* Refreshing the cached count: the register minus what is owed is what    *)
(* has arrived and not been read.                                          *)
LEMMA RefreshedCount ==
  ASSUME TypeOK, Accounting, NoWithheldWindow, pc # "commit"
  PROVE  /\ Unread(RsrRegister, ss.RX_inc) = arrived - got
         /\ Unread(RsrRegister, ss.RX_inc) \in Nat
         /\ Unread(RsrRegister, ss.RX_inc) = 0 => ss.RX_inc = 0
<1>1. ss.RX_RSR \in Nat /\ ss.RX_inc \in Nat
      /\ arrived \in Nat /\ freed \in Nat /\ got \in Nat
  BY DEF TypeOK
<1>2. Unread(RsrRegister, ss.RX_inc) = (arrived - freed) - ss.RX_inc
  BY DEF Unread, RsrRegister
<1>3. got = freed + ss.RX_inc /\ got + ss.RX_RSR <= arrived
  BY DEF Accounting
<1>4. Unread(RsrRegister, ss.RX_inc) = arrived - got
  BY <1>1, <1>2, <1>3
<1>5. arrived - got = 0 => ss.RX_RSR = 0
  BY <1>1, <1>3
<1> QED BY <1>1, <1>3, <1>4, <1>5 DEF NoWithheldWindow

LEMMA AvailableCount ==
  ASSUME TypeOK, Accounting, NoWithheldWindow, pc # "commit"
  PROVE  /\ Available \in Nat
         /\ got + Available <= arrived
         /\ Available = 0 => got = arrived /\ ss.RX_inc = 0
<1> DEFINE u == Unread(RsrRegister, ss.RX_inc)
<1>1. u = arrived - got /\ u \in Nat /\ (u = 0 => ss.RX_inc = 0)
  BY RefreshedCount
<1> HIDE DEF u
<1>2. got \in Nat /\ arrived \in Nat /\ ss.RX_RSR \in Nat
  BY DEF TypeOK
<1>3. Available = IF ss.RX_RSR = 0 THEN u ELSE ss.RX_RSR
  BY DEF Available, u
<1> QED BY <1>1, <1>2, <1>3 DEF Accounting

(* A step that only stores a new cached count, as every refresh does.      *)
LEMMA CacheStep ==
  ASSUME RxInv, NEW c \in Nat, got + c <= arrived, c = 0 => ss.RX_inc = 0,
         ss' = [ss EXCEPT !.RX_RSR = c],
         UNCHANGED <<chipVars, len, got>>,
         pc # "commit", pc' # "commit"
  PROVE  Accounting' /\ NoWithheldWindow' /\ UnreadIntact'
<1>1. /\ ss'.RX_RSR = c /\ ss'.RX_RD = ss.RX_RD /\ ss'.RX_inc = ss.RX_inc
      /\ ss' \in [RX_RSR : Nat, RX_RD : Nat, RX_inc : Nat]
  BY DEF RxInv, TypeOK
<1>2. Accounting'
  BY <1>1 DEF RxInv, TypeOK, Accounting, chipVars
<1>3. NoWithheldWindow'
  BY <1>1 DEF NoWithheldWindow
<1>4. UnreadIntact'
  BY DEF RxInv, UnreadIntact, SlotOf, chipVars
<1> QED BY <1>2, <1>3, <1>4

(* The data leaves the chip and the pointer of the library moves on.       *)
LEMMA CopyStep == RxInv /\ RecvCopy => RxInv'
<1> SUFFICES ASSUME RxInv, RecvCopy PROVE RxInv'
  OBVIOUS
<1> USE DEF RxInv
<1> DEFINE ret == IF ss.RX_RSR > len THEN len ELSE ss.RX_RSR
           rsr == ss.RX_RSR - ret
           inc == ss.RX_inc + ret
<1>0. base \in Nat /\ got \in Nat /\ arrived \in Nat /\ freed \in Nat
      /\ ss.RX_RSR \in Nat /\ ss.RX_inc \in Nat /\ ss.RX_RD \in Nat /\ len \in Nat
  BY DEF TypeOK
<1>1. ret \in Nat /\ 0 < ret /\ ret <= ss.RX_RSR /\ got + ret <= arrived
      /\ rsr \in Nat /\ inc \in Nat
  BY <1>0 DEF CallInv, RecvCopy, NextRead, Accounting
<1>2. /\ pc = "copy" /\ UNCHANGED <<chipVars, len>>
      /\ buf' = ReadData(ss.RX_RD, ret) /\ got' = got + ret
      /\ ss'.RX_RSR = rsr /\ ss'.RX_RD = (ss.RX_RD + ret) % PtrMod
      /\ ss'.RX_inc = (IF CommitNow(inc, rsr) THEN 0 ELSE inc % IncMod)
      /\ ss' = [RX_RSR |-> ss'.RX_RSR, RX_RD |-> ss'.RX_RD, RX_inc |-> ss'.RX_inc]
      /\ pc' = (IF CommitNow(inc, rsr) THEN "commit" ELSE "idle")
      /\ result' = "data"
  BY DEF RecvCopy, NextRead
<1>a. ss'.RX_inc = (IF CommitNow(inc, rsr) THEN 0 ELSE inc)
  <2>1. ASSUME ~CommitNow(inc, rsr) PROVE inc % IncMod = inc
    <3>1. inc < IncMod /\ IncMod \in Nat \ {0}
      BY <1>1, <2>1, ParameterAssumption DEF CommitNow
    <3> HIDE DEF inc
    <3> QED BY <1>1, <3>1, RemainderOfSmall
  <2> QED BY <1>2, <2>1
<1> HIDE DEF ret
<1>3. ss'.RX_RD = (base + got') % PtrMod /\ ss'.RX_RD \in Nat /\ ss'.RX_RD < PtrMod
  <2>0. base + got \in Nat /\ ss.RX_RD = (base + got) % PtrMod
    BY <1>0 DEF Accounting
  <2>1. (ss.RX_RD + ret) % PtrMod = ((base + got) + ret) % PtrMod
    <3>1. ret \in Nat
      BY <1>1
    <3>2. (((base + got) % PtrMod) + ret) % PtrMod = ((base + got) + ret) % PtrMod
      BY <2>0, <3>1, Sizes, RemainderOfSum
    <3> QED BY <2>0, <3>2
  <2>2. (base + got) + ret = base + got' /\ base + got' \in Nat
    BY <1>0, <1>1, <1>2
  <2> QED BY <1>2, <2>1, <2>2, Sizes, DivMod
<1>4. ss'.RX_inc \in Nat
  BY <1>1, <1>a
<1>5. ss' \in [RX_RSR : Nat, RX_RD : Nat, RX_inc : Nat]
  BY <1>1, <1>2, <1>3, <1>4
<1>6. buf' \in Seq(Int)
  <2>1. buf' = Stream!Slice(got, ret)
    BY <1>1, <1>2, ReadDataIsSlice
  <2> QED BY <2>1, <1>0, <1>1 DEF Stream!Slice
<1>7. TypeOK'
  <2>1. got' \in Nat
    BY <1>0, <1>1, <1>2
  <2> QED BY <1>2, <1>3, <1>5, <1>6, <2>1 DEF TypeOK, chipVars, Slots
<1>8. Accounting'
  <2>1. freed <= got' /\ got' + ss'.RX_RSR <= arrived
    BY <1>0, <1>1, <1>2 DEF Accounting
  <2>2. pc' # "commit" => got' = freed + ss'.RX_inc /\ ss'.RX_inc < IncThreshold
    BY <1>0, <1>1, <1>2, <1>a, ParameterAssumption DEF Accounting, CommitNow
  <2>3. ss'.RX_inc < IncThreshold
    BY <1>2, <1>a, <2>2, ParameterAssumption
  <2> QED BY <1>2, <1>3, <2>1, <2>2, <2>3 DEF Accounting, chipVars
<1>9. NoWithheldWindow' /\ CallInv'
  BY <1>1, <1>2, <1>a DEF NoWithheldWindow, CallInv, CommitNow
<1>10. UnreadIntact'
  <2>1. \A k \in got' .. arrived - 1 : k \in got .. arrived - 1
    BY <1>0, <1>1, <1>2
  <2> QED BY <1>2, <2>1 DEF UnreadIntact, SlotOf, chipVars
<1> QED BY <1>7, <1>8, <1>9, <1>10

(* RECV gives back exactly what has been read.                             *)
LEMMA CommitFrees ==
  ASSUME TypeOK, Accounting
  PROVE  freed + Distance(base + freed, ss.RX_RD) = got
<1>1. base \in Nat /\ got \in Nat /\ freed \in Nat /\ arrived \in Nat /\ ss.RX_RSR \in Nat
  BY DEF TypeOK
<1>2. base + freed \in Nat /\ base + got \in Nat
      /\ base + freed <= base + got /\ base + got < (base + freed) + PtrMod
  BY <1>1, Sizes DEF Accounting
<1>3. (((base + got) % PtrMod) - (base + freed)) % PtrMod = (base + got) - (base + freed)
  BY <1>1, <1>2, Sizes, DistanceIsExact
<1> QED BY <1>1, <1>3 DEF Distance, Accounting

LEMMA CommitStep == RxInv /\ RecvCommit => RxInv'
<1> SUFFICES ASSUME RxInv, RecvCommit PROVE RxInv'
  OBVIOUS
<1> USE DEF RxInv
<1>1. freed' = got /\ pc = "commit" /\ pc' = "idle" /\ ss.RX_inc = 0
      /\ UNCHANGED <<sr, ring, base, arrived, ss, len, buf, result, got>>
  BY CommitFrees DEF RecvCommit, CallInv
<1>2. TypeOK'
  BY <1>1 DEF TypeOK
<1>3. Accounting'
  BY <1>1, Sizes DEF TypeOK, Accounting
<1>4. NoWithheldWindow' /\ UnreadIntact' /\ CallInv'
  BY <1>1 DEF NoWithheldWindow, UnreadIntact, CallInv, SlotOf
<1> QED BY <1>2, <1>3, <1>4

LEMMA ReopenStep == RxInv /\ Reopen => RxInv'
<1> SUFFICES ASSUME RxInv, Reopen PROVE RxInv'
  OBVIOUS
<1> USE DEF RxInv
<1>1. /\ sr' = "ESTABLISHED" /\ base' = 0 /\ arrived' = 0 /\ freed' = 0 /\ got' = 0
      /\ ss' = [RX_RSR |-> 0, RX_RD |-> 0, RX_inc |-> 0]
      /\ pc = "idle" /\ pc' = "idle" /\ len' = 0 /\ ring' = ring
      /\ buf' = <<>> /\ result' = "none"
  BY DEF Reopen, OpenedSocket
<1>2. TypeOK'
  BY <1>1, Sizes DEF TypeOK, Slots
<1>3. 0 % PtrMod = 0
  BY Sizes, RemainderOfSmall
<1>4. Accounting'
  BY <1>1, <1>3, Sizes, ParameterAssumption DEF Accounting
<1> QED BY <1>1, <1>2, <1>4 DEF NoWithheldWindow, UnreadIntact, CallInv

LEMMA RxInvStep == RxInv /\ [Next]_vars => RxInv'
<1> SUFFICES ASSUME RxInv, [Next]_vars PROVE RxInv'
  OBVIOUS
<1>1. CASE SegmentArrives
  BY <1>1, SegmentStep
<1>2. CASE FinArrives
  BY <1>2 DEF FinArrives, RxInv, TypeOK, Accounting, NoWithheldWindow, UnreadIntact,
              CallInv, SlotOf, Slots
<1>3. CASE ConnectionDies
  BY <1>3 DEF ConnectionDies, RxInv, TypeOK, Accounting, NoWithheldWindow, UnreadIntact,
              CallInv, SlotOf, Slots
<1>4. CASE RecvCall
  <2>1. PICK n \in RecvLens :
          /\ len' = n
          /\ pc' = IF NeedsRefresh(ss.RX_RSR, n) THEN "refresh"
                   ELSE IF ss.RX_RSR = 0 THEN "status" ELSE "copy"
    BY <1>4 DEF RecvCall
  <2>2. n \in Nat /\ 0 < n
    BY ParameterAssumption
  <2>3. pc = "idle" /\ UNCHANGED <<chipVars, ss, buf, result, got>>
    BY <1>4 DEF RecvCall
  <2>4. CallInv'
    BY <2>1, <2>2, <2>3 DEF CallInv, RxInv, TypeOK
  <2> QED BY <2>1, <2>2, <2>3, <2>4 DEF RxInv, TypeOK, Accounting, NoWithheldWindow,
              UnreadIntact, SlotOf, Slots, chipVars
<1>5. CASE RecvRefresh
  <2> DEFINE c == Unread(RsrRegister, ss.RX_inc)
  <2>1. /\ pc = "refresh" /\ pc' = (IF c = 0 THEN "status" ELSE "copy")
        /\ ss' = [ss EXCEPT !.RX_RSR = c] /\ UNCHANGED <<chipVars, len, buf, result, got>>
    BY <1>5 DEF RecvRefresh
  <2>2. c = arrived - got /\ c \in Nat /\ (c = 0 => ss.RX_inc = 0)
    BY <2>1, RefreshedCount DEF RxInv
  <2> HIDE DEF c
  <2>3. got + c <= arrived
    BY <2>2 DEF RxInv, TypeOK
  <2>4. Accounting' /\ NoWithheldWindow' /\ UnreadIntact'
    BY <2>1, <2>2, <2>3, CacheStep
  <2>5. TypeOK'
    BY <2>1, <2>2 DEF RxInv, TypeOK, Slots, chipVars
  <2>6. 0 < len
    BY <2>1 DEF RxInv, CallInv
  <2>7. CallInv'
    BY <2>1, <2>2, <2>6 DEF RxInv, TypeOK, CallInv
  <2> QED BY <2>4, <2>5, <2>7 DEF RxInv
<1>6. CASE RecvStatus
  BY <1>6 DEF RecvStatus, RxInv, TypeOK, Accounting, NoWithheldWindow, UnreadIntact,
              CallInv, SlotOf, Slots, chipVars
<1>7. CASE RecvCopy
  BY <1>7, CopyStep
<1>8. CASE RecvCommit
  BY <1>8, CommitStep
<1>9. CASE AvailableCall \/ PeekCall \/ ConnectedAvailable
  <2>1. /\ pc \in {"idle", "connected"} /\ pc' = "idle"
        /\ ss' = [ss EXCEPT !.RX_RSR = Available] /\ UNCHANGED <<chipVars, len, got>>
    BY <1>9 DEF AvailableCall, PeekCall, ConnectedAvailable
  <2>2. Available \in Nat /\ got + Available <= arrived /\ (Available = 0 => ss.RX_inc = 0)
    BY <2>1, AvailableCount DEF RxInv
  <2>3. Accounting' /\ NoWithheldWindow' /\ UnreadIntact'
    BY <2>1, <2>2, CacheStep
  <2>4. buf' \in Seq(Int)
    <3>1. CASE UNCHANGED buf
      BY <3>1 DEF RxInv, TypeOK
    <3>2. CASE buf' = <<ring[ss.RX_RD % SSIZE]>>
      <4>1. ss.RX_RD % SSIZE \in Slots
        BY Sizes, DivMod DEF RxInv, TypeOK, Slots
      <4> QED BY <3>2, <4>1 DEF RxInv, TypeOK
    <3> QED BY <1>9, <3>1, <3>2 DEF AvailableCall, PeekCall, ConnectedAvailable
  <2>5. result' \in {"nodata", "data", "available", "connected", "disconnected"}
    BY <1>9 DEF AvailableCall, PeekCall, ConnectedAvailable
  <2>6. ss' \in [RX_RSR : Nat, RX_RD : Nat, RX_inc : Nat] /\ ss'.RX_RD = ss.RX_RD
    BY <2>1, <2>2 DEF RxInv, TypeOK
  <2>7. TypeOK'
    BY <2>1, <2>4, <2>5, <2>6 DEF RxInv, TypeOK, Slots, chipVars
  <2> QED BY <2>1, <2>3, <2>7 DEF RxInv, CallInv
<1>10. CASE ConnectedCall
  BY <1>10 DEF ConnectedCall, RxInv, TypeOK, Accounting, NoWithheldWindow, UnreadIntact,
               CallInv, SlotOf, Slots, chipVars
<1>11. CASE Reopen
  BY <1>11, ReopenStep
<1>12. CASE UNCHANGED vars
  BY <1>12 DEF vars, RxInv, TypeOK, Accounting, NoWithheldWindow, UnreadIntact,
               CallInv, SlotOf, Slots
<1> QED BY <1>1, <1>2, <1>3, <1>4, <1>5, <1>6, <1>7, <1>8, <1>9, <1>10, <1>11, <1>12
           DEF Next, Chip, CallStep, Application

(* The inductive invariant of the receive path, RxInv: the accounts of     *)
(* library and chip balance, nothing is withheld from an emptied buffer,   *)
(* no unread byte is overwritten, and each step of socketRecv finds what   *)
(* it relies on.                                                           *)
THEOREM RxInvariant == Spec => []RxInv
  BY RxInvInit, RxInvStep, PTL DEF Spec

(***************************************************************************)
(* The theorems                                                            *)
(***************************************************************************)

(* Every variable of the receive path keeps its type.                      *)
THEOREM TypeCorrect == Spec => []TypeOK
  BY RxInvariant, PTL DEF RxInv

(* What socketRecv has read, what it owes the chip and what it believes to *)
(* be left add up with what the chip holds, on every interleaving.         *)
THEOREM AccountsBalance == Spec => []Accounting
  BY RxInvariant, PTL DEF RxInv

(* A drained cache owes the chip nothing: no window is withheld.           *)
THEOREM WindowGivenBack == Spec => []NoWithheldWindow
  BY RxInvariant, PTL DEF RxInv

(* The peer never overwrites what the application has not read.            *)
THEOREM UnreadSafe == Spec => []UnreadIntact
  BY RxInvariant, PTL DEF RxInv

(* Every step of the receive path is a step of the byte stream it promises,*)
(* or leaves the stream alone.                                             *)
LEMMA StreamStep == RxInv /\ [Next]_vars => [Stream!Next]_(Stream!vars)
<1> SUFFICES ASSUME RxInv, [Next]_vars PROVE [Stream!Next]_(Stream!vars)
  OBVIOUS
<1>0. base \in Nat /\ got \in Nat /\ arrived \in Nat /\ freed \in Nat
      /\ ss.RX_RSR \in Nat /\ len \in Nat
  BY DEF RxInv, TypeOK
<1>1. CASE SegmentArrives
  <2>1. PICK n \in 1 .. SSIZE - RsrRegister : arrived' = arrived + n
    BY <1>1 DEF SegmentArrives
  <2>2. arrived' > arrived
    BY <1>0, <2>1, Sizes DEF RsrRegister
  <2>3. UNCHANGED <<got, buf>>
    BY <1>1 DEF SegmentArrives
  <2> QED BY <2>2, <2>3 DEF Stream!Next, Stream!Arrive
<1>2. CASE RecvCopy
  <2> DEFINE ret == IF ss.RX_RSR > len THEN len ELSE ss.RX_RSR
  <2>1. ret \in Nat /\ 0 < ret /\ got + ret <= arrived
    BY <1>0, <1>2 DEF RxInv, CallInv, RecvCopy, NextRead, Accounting
  <2>2. buf' = ReadData(ss.RX_RD, ret) /\ got' = got + ret /\ arrived' = arrived
    BY <1>2 DEF RecvCopy, NextRead, chipVars
  <2> HIDE DEF ret
  <2>3. buf' = Stream!Slice(got, ret)
    BY <2>1, <2>2, ReadDataIsSlice DEF RxInv
  <2>4. ret \in 1 .. (arrived - got)
    BY <1>0, <2>1
  <2> QED BY <2>2, <2>3, <2>4 DEF Stream!Next, Stream!Deliver
<1>3. CASE PeekCall
  <2>1. UNCHANGED <<arrived, got>> /\ pc = "idle"
    BY <1>3 DEF PeekCall, chipVars
  <2>2. CASE Available = 0
    <3>1. UNCHANGED buf
      BY <1>3, <2>2 DEF PeekCall
    <3> QED BY <2>1, <3>1 DEF Stream!vars
  <2>3. CASE Available # 0
    <3>1. got < arrived
      BY <1>0, <2>1, <2>3, AvailableCount DEF RxInv
    <3>2. ss.RX_RD % SSIZE = SlotOf(got)
      <4>1. ss.RX_RD = (base + got) % PtrMod /\ base + got \in Nat
        BY <1>0 DEF RxInv, Accounting
      <4> QED BY <4>1, Sizes, RemainderOfRemainder DEF SlotOf
    <3>3. ring[SlotOf(got)] = got
      BY <1>0, <3>1 DEF RxInv, UnreadIntact
    <3>4. buf' = <<got>>
      BY <1>3, <2>3, <3>2, <3>3 DEF PeekCall
    <3>5. Stream!Slice(got, 1) = <<got>>
      BY <1>0 DEF Stream!Slice
    <3> QED BY <2>1, <3>1, <3>4, <3>5 DEF Stream!Next, Stream!Peek
  <2> QED BY <2>2, <2>3
<1>4. CASE Reopen
  BY <1>4 DEF Reopen, Stream!Next, Stream!Restart
<1>5. CASE \/ FinArrives \/ ConnectionDies \/ RecvCall \/ RecvRefresh \/ RecvStatus
           \/ RecvCommit \/ AvailableCall \/ ConnectedAvailable \/ ConnectedCall
           \/ UNCHANGED vars
  <2>1. UNCHANGED <<arrived, got, buf>>
    BY <1>5 DEF FinArrives, ConnectionDies, RecvCall, RecvRefresh, RecvStatus, RecvCommit,
                AvailableCall, ConnectedAvailable, ConnectedCall, vars, chipVars
  <2> QED BY <2>1 DEF Stream!vars
<1> QED BY <1>1, <1>2, <1>3, <1>4, <1>5 DEF Next, Chip, CallStep, Application

(* socketRecv and socketPeek implement the byte stream of module           *)
(* ByteStream: the application is handed the bytes of the connection in    *)
(* order, each once, whatever the chip does between two register accesses. *)
THEOREM ImplementsByteStream == Spec => DeliversTheStream
<1>1. Init => Stream!Init
  BY DEF Init, Stream!Init
<1> QED BY <1>1, StreamStep, RxInvariant, PTL DEF Spec, DeliversTheStream, Stream!Spec

(* connected() denies the connection after the peer's FIN only when the    *)
(* application has read everything that arrived.                           *)
THEOREM DisconnectedIsDrained == Spec => DisconnectedMeansDrained
<1>1. RxInv /\ [Next]_vars
        => [ConnectedAvailable /\ result' = "disconnected" => got = arrived]_vars
  <2> SUFFICES ASSUME RxInv, ConnectedAvailable, result' = "disconnected"
               PROVE  got = arrived
    OBVIOUS
  <2>1. pc = "connected" /\ Available = 0
    BY DEF ConnectedAvailable
  <2> QED BY <2>1, AvailableCount DEF RxInv
<1> QED BY <1>1, RxInvariant, PTL DEF Spec, DisconnectedMeansDrained
=============================================================================
