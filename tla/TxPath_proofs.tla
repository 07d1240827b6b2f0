--------------------------- MODULE TxPath_proofs ----------------------------
(***************************************************************************)
(* Machine-checked proofs about the transmit path, for every buffer size   *)
(* that divides 65536, every place of the TX pointer when the connection   *)
(* begins, writes of every length, and both ways a chip wraps addresses.   *)
(***************************************************************************)
EXTENDS TxPath, ModularArithmetic, TLAPS

LEMMA Sizes ==
  /\ SSIZE \in Nat /\ 0 < SSIZE /\ SSIZE < PtrMod /\ PtrMod % SSIZE = 0
  /\ PtrMod \in Nat /\ 0 < PtrMod
  BY SizeAssumption DEF PtrMod

(* The chip keeps a byte in one of the slots of the buffer.                *)
LEMMA SlotOfType ==
  ASSUME NEW k \in Nat, base \in Nat
  PROVE  SlotOf(k) \in Slots
<1>1. base + k \in Nat
  OBVIOUS
<1>2. (base + k) % SSIZE \in Nat /\ (base + k) % SSIZE < SSIZE
  BY <1>1, Sizes, DivMod
<1> QED BY <1>2, Sizes DEF SlotOf, Slots

(* Two bytes of the connection share a slot only if a whole buffer lies    *)
(* between them.                                                           *)
LEMMA SlotOfInjective ==
  ASSUME NEW j \in Nat, NEW k \in Nat, base \in Nat,
         j < k, k < j + SSIZE
  PROVE  SlotOf(j) # SlotOf(k)
<1>1. base + j \in Nat /\ base + k \in Nat
      /\ base + j < base + k /\ base + k < base + j + SSIZE
  BY Sizes
<1> QED BY <1>1, Sizes, SlotsDiffer DEF SlotOf

(* TX_WR + n, masked, is the slot of the byte n places on from the next    *)
(* one to be queued.                                                       *)
LEMMA PointerToSlot ==
  ASSUME NEW n \in Nat, base \in Nat, queued \in Nat
  PROVE  ((((base + queued) % PtrMod) % SSIZE) + n) % SSIZE = SlotOf(queued + n)
<1>1. base + queued \in Nat
  OBVIOUS
<1>2. ((base + queued) % PtrMod) % SSIZE = (base + queued) % SSIZE
  BY <1>1, Sizes, RemainderOfRemainder
<1>3. (((base + queued) % SSIZE) + n) % SSIZE = ((base + queued) + n) % SSIZE
  BY <1>1, Sizes, RemainderOfSum
<1>4. (base + queued) + n = base + (queued + n)
  OBVIOUS
<1> QED BY <1>2, <1>3, <1>4 DEF SlotOf

(* The distance of a slot behind another, around the buffer.               *)
LEMMA AroundTheBuffer ==
  ASSUME NEW o \in Slots, NEW i \in Slots
  PROVE  /\ i >= o => (i - o) % SSIZE = i - o /\ (o + (i - o)) % SSIZE = i
         /\ i < o  => /\ (i - o) % SSIZE = SSIZE - o + i
                      /\ (o + (SSIZE - o + i)) % SSIZE = i
<1>0. o \in Nat /\ i \in Nat /\ o < SSIZE /\ i < SSIZE
  BY Sizes DEF Slots
<1>1. CASE i >= o
  <2>1. i - o \in Nat /\ i - o < SSIZE /\ o + (i - o) = i
    BY <1>0, <1>1, Sizes
  <2> QED BY <1>0, <1>1, <2>1, Sizes, RemainderOfSmall
<1>2. CASE i < o
  <2>1. /\ SSIZE - o + i \in Nat /\ SSIZE - o + i < SSIZE /\ i - o \in Int
        /\ i - o = SSIZE * (0 - 1) + (SSIZE - o + i)
        /\ o + (SSIZE - o + i) \in Nat
        /\ o + (SSIZE - o + i) = SSIZE * 1 + i
    BY <1>0, <1>2, Sizes
  <2>2. (i - o) % SSIZE = SSIZE - o + i
    BY <2>1, Sizes, IntRemainder
  <2>3. (o + (SSIZE - o + i)) % SSIZE = i
    BY <1>0, <2>1, Sizes, RemainderUnique
  <2> QED BY <1>0, <1>2, <2>2, <2>3
<1> QED BY <1>0, <1>1, <1>2

(* What write_data puts into a slot belongs there, whether the chip wraps  *)
(* addresses or the library splits the write.                              *)
LEMMA WrittenInItsSlot ==
  ASSUME NEW n \in Nat, n <= SSIZE, NEW dst \in Nat, NEW i \in Slots,
         0 <= IndexIn(dst, n, i), IndexIn(dst, n, i) < n
  PROVE  /\ IndexIn(dst, n, i) \in Nat
         /\ ((dst % SSIZE) + IndexIn(dst, n, i)) % SSIZE = i
<1> DEFINE o == dst % SSIZE
<1>1. o \in Slots
  BY Sizes, DivMod DEF Slots
<1>2. IndexIn(dst, n, i) = IF HasOffsetAddressMapping THEN (i - o) % SSIZE
                           ELSE IF o + n <= SSIZE \/ i >= o THEN i - o
                           ELSE SSIZE - o + i
  BY DEF IndexIn
<1> HIDE DEF o
<1>3. o \in Nat /\ i \in Nat /\ o < SSIZE /\ i < SSIZE
  BY <1>1, Sizes DEF Slots
<1>4. CASE i >= o
  <2>1. IndexIn(dst, n, i) = i - o
    BY <1>1, <1>2, <1>4, AroundTheBuffer
  <2> QED BY <1>1, <1>3, <1>4, <2>1, AroundTheBuffer DEF o
<1>5. CASE i < o
  <2>1. IndexIn(dst, n, i) = SSIZE - o + i
    <3>1. (i - o) % SSIZE = SSIZE - o + i
      BY <1>1, <1>5, AroundTheBuffer
    <3> QED BY <1>2, <1>3, <1>5, <3>1
  <2> QED BY <1>1, <1>3, <1>5, <2>1, Sizes, AroundTheBuffer DEF o
<1> QED BY <1>3, <1>4, <1>5

(* And every byte of the data is put into a slot.                          *)
LEMMA EveryByteWritten ==
  ASSUME NEW n \in Nat, n <= SSIZE, NEW dst \in Nat, NEW j \in 0 .. n - 1
  PROVE  /\ ((dst % SSIZE) + j) % SSIZE \in Slots
         /\ IndexIn(dst, n, ((dst % SSIZE) + j) % SSIZE) = j
<1> DEFINE o == dst % SSIZE
           i == (o + j) % SSIZE
<1>1. o \in Slots
  BY Sizes, DivMod DEF Slots
<1>2. IndexIn(dst, n, i) = IF HasOffsetAddressMapping THEN (i - o) % SSIZE
                           ELSE IF o + n <= SSIZE \/ i >= o THEN i - o
                           ELSE SSIZE - o + i
  BY DEF IndexIn
<1>a. j \in Nat /\ j < n /\ j < SSIZE
  BY Sizes
<1> HIDE DEF o
<1>3. o \in Nat /\ o < SSIZE
  BY <1>1, Sizes DEF Slots
<1>4. CASE o + j < SSIZE
  <2>1. i = o + j
    BY <1>3, <1>4, <1>a, Sizes, RemainderOfSmall
  <2> HIDE DEF i
  <2>2. i \in Slots /\ i >= o /\ i - o = j
    BY <1>3, <1>4, <1>a, <2>1, Sizes DEF Slots
  <2>3. IndexIn(dst, n, i) = j
    BY <1>1, <1>2, <2>2, AroundTheBuffer
  <2> QED BY <2>2, <2>3 DEF i, o
<1>5. CASE o + j >= SSIZE
  <2>1. o + j - SSIZE \in Nat /\ o + j - SSIZE < SSIZE /\ o + j \in Nat
        /\ o + j = SSIZE * 1 + (o + j - SSIZE)
    BY <1>3, <1>5, <1>a, Sizes
  <2>2. i = o + j - SSIZE
    BY <2>1, Sizes, RemainderUnique
  <2> HIDE DEF i
  <2>3. i \in Slots /\ i < o /\ SSIZE - o + i = j /\ ~(o + n <= SSIZE)
    BY <1>3, <1>5, <1>a, <2>1, <2>2, Sizes DEF Slots
  <2>4. (i - o) % SSIZE = j
    BY <1>1, <2>3, AroundTheBuffer
  <2>5. ~(i >= o)
    BY <1>3, <2>3 DEF Slots
  <2>6. IndexIn(dst, n, i) = j
    BY <1>2, <2>3, <2>4, <2>5
  <2> QED BY <2>3, <2>6 DEF i, o
<1> QED BY <1>3, <1>4, <1>5, <1>a, Sizes

(***************************************************************************)
(* The inductive invariant                                                 *)
(***************************************************************************)

LEMMA TxInvInit == Init => TxInv
<1> SUFFICES ASSUME Init PROVE TxInv
  OBVIOUS
<1> USE DEF Init
<1>0. SSIZE \in Nat /\ 0 <= SSIZE
  BY Sizes
<1>1. TypeOK
  <2>1. seg \in Seq(Int)
    OBVIOUS
  <2>2. ret \in Nat /\ ret <= SSIZE /\ free \in Nat /\ free <= SSIZE
    BY <1>0
  <2>3. ring \in [Slots -> Int]
    OBVIOUS
  <2>4. base \in Nat /\ base < PtrMod /\ wr \in Nat /\ wr < PtrMod
    BY ParameterAssumption
  <2>5. queued \in Nat /\ sent \in Nat /\ acked \in Nat
    OBVIOUS
  <2> QED BY <2>1, <2>2, <2>3, <2>4, <2>5 DEF TypeOK
<1>2. Accounting
  <2>1. StartPtr % PtrMod = StartPtr
    BY ParameterAssumption, Sizes, RemainderOfSmall
  <2> QED BY <2>1, ParameterAssumption, Sizes DEF Accounting
<1> QED BY <1>1, <1>2 DEF TxInv, UnackedIntact, CallInv

(* The numbers of the model, for the arithmetic of the steps.              *)
LEMMA Numbers ==
  ASSUME TypeOK
  PROVE  /\ base \in Nat /\ wr \in Nat /\ queued \in Nat /\ sent \in Nat /\ acked \in Nat
         /\ ret \in Nat /\ ret <= SSIZE /\ free \in Nat /\ free <= SSIZE
         /\ ring \in [Slots -> Int]
  BY DEF TypeOK

(* The data goes to slots that hold nothing the peer might still miss.     *)
LEMMA CopyStep == TxInv /\ WriteCopy => TxInv'
<1> SUFFICES ASSUME TxInv, WriteCopy PROVE TxInv'
  OBVIOUS
<1> USE DEF TxInv
<1> DEFINE ptr == (base + queued) % PtrMod
<1>0. /\ base \in Nat /\ queued \in Nat /\ sent \in Nat /\ acked \in Nat
      /\ ret \in Nat /\ ret <= SSIZE /\ ring \in [Slots -> Int]
      /\ acked <= queued /\ queued - acked + ret <= SSIZE /\ pc = "copy"
  BY Numbers, Sizes DEF Accounting, CallInv, FsrRegister, WriteCopy
<1>1. /\ ring' = WriteData(ptr, ret) /\ wr' = (ptr + ret) % PtrMod /\ pc' = "send"
      /\ UNCHANGED <<sr, base, queued, sent, acked, sendOk, seg, call, ret, free, result>>
  BY DEF WriteCopy
<1>2. base + queued \in Nat
  BY <1>0
<1>3. ptr \in Nat /\ ptr < PtrMod
  BY <1>2, Sizes, DivMod
<1>4. \A j \in Nat : ((ptr % SSIZE) + j) % SSIZE = SlotOf(queued + j)
  BY <1>0, PointerToSlot
<1>5. wr' = (base + queued + ret) % PtrMod
  BY <1>0, <1>1, <1>2, Sizes, RemainderOfSum
<1> HIDE DEF ptr
<1>6. \A i \in Slots : ring'[i] = IF IndexIn(ptr, ret, i) >= 0 /\ IndexIn(ptr, ret, i) < ret
                                  THEN queued + IndexIn(ptr, ret, i) ELSE ring[i]
  BY <1>1 DEF WriteData
<1>7. ring' \in [Slots -> Int]
  <2>1. ASSUME NEW i \in Slots, IndexIn(ptr, ret, i) >= 0, IndexIn(ptr, ret, i) < ret
        PROVE  queued + IndexIn(ptr, ret, i) \in Int
    BY <1>0, <1>3, <2>1, WrittenInItsSlot
  <2> QED BY <1>0, <1>1, <2>1 DEF WriteData
<1>8. \A k \in queued .. queued + ret - 1 : ring'[SlotOf(k)] = k
  <2> SUFFICES ASSUME NEW k \in queued .. queued + ret - 1 PROVE ring'[SlotOf(k)] = k
    OBVIOUS
  <2> DEFINE j == k - queued
  <2>1. j \in 0 .. ret - 1 /\ j \in Nat /\ j >= 0 /\ j < ret /\ queued + j = k
    BY <1>0
  <2> HIDE DEF j
  <2>2. /\ ((ptr % SSIZE) + j) % SSIZE \in Slots
        /\ IndexIn(ptr, ret, ((ptr % SSIZE) + j) % SSIZE) = j
    BY <1>0, <1>3, <2>1, EveryByteWritten
  <2>3. ((ptr % SSIZE) + j) % SSIZE = SlotOf(k)
    BY <1>4, <2>1
  <2> QED BY <1>6, <2>1, <2>2, <2>3
<1>9. \A k \in acked .. queued - 1 : ring'[SlotOf(k)] = k
  <2> SUFFICES ASSUME NEW k \in acked .. queued - 1 PROVE ring'[SlotOf(k)] = k
    OBVIOUS
  <2>1. k \in Nat /\ SlotOf(k) \in Slots /\ ring[SlotOf(k)] = k
    BY <1>0, SlotOfType DEF UnackedIntact
  <2> DEFINE t == IndexIn(ptr, ret, SlotOf(k))
  <2>2. ASSUME t >= 0, t < ret PROVE FALSE
    <3>1. t \in Nat /\ SlotOf(queued + t) = SlotOf(k)
      <4>1. t \in Nat /\ ((ptr % SSIZE) + t) % SSIZE = SlotOf(k)
        BY <1>0, <1>3, <2>1, <2>2, WrittenInItsSlot
      <4> QED BY <1>4, <4>1
    <3> HIDE DEF t
    <3>2. queued + t \in Nat /\ k < queued + t /\ queued + t < k + SSIZE
      BY <1>0, <2>1, <2>2, <3>1, Sizes
    <3> QED BY <1>0, <2>1, <3>1, <3>2, SlotOfInjective
  <2> HIDE DEF t
  <2>3. ~(t >= 0 /\ t < ret)
    BY <2>2
  <2> QED BY <1>6, <2>1, <2>3 DEF t
<1>10. TypeOK'
  <2>1. wr' \in Nat /\ wr' < PtrMod
    <3>1. ptr + ret \in Nat
      BY <1>0, <1>3
    <3> QED BY <1>1, <3>1, Sizes, DivMod
  <2> QED BY <1>1, <1>7, <2>1 DEF TypeOK, Slots
<1>11. Accounting'
  BY <1>1 DEF Accounting
<1>12. UnackedIntact'
  BY <1>1, <1>9 DEF UnackedIntact, SlotOf
<1>13. CallInv'
  <2>1. \A k \in queued' .. queued' + ret' - 1 : ring'[SlotOf(k)'] = k
    BY <1>1, <1>8 DEF SlotOf
  <2> QED BY <1>0, <1>1, <1>5, <2>1 DEF CallInv, FsrRegister
<1> QED BY <1>10, <1>11, <1>12, <1>13

(* SEND hands over exactly what was copied.                                *)
LEMMA SendTakes ==
  ASSUME TxInv, pc = "send"
  PROVE  Distance(base + queued, wr) = ret
<1>1. base + queued \in Nat /\ base + queued + ret \in Nat
      /\ base + queued <= base + queued + ret
      /\ base + queued + ret < (base + queued) + PtrMod
      /\ (base + queued + ret) - (base + queued) = ret
  BY Numbers, Sizes DEF TxInv
<1>2. wr = (base + queued + ret) % PtrMod
  BY DEF TxInv, CallInv
<1>3. (((base + queued + ret) % PtrMod) - (base + queued)) % PtrMod = ret
  BY <1>1, Sizes, DistanceIsExact
<1> QED BY <1>2, <1>3 DEF Distance

LEMMA SendStep == TxInv /\ WriteSend => TxInv'
<1> SUFFICES ASSUME TxInv, WriteSend PROVE TxInv'
  OBVIOUS
<1> USE DEF TxInv
<1>0. /\ base \in Nat /\ queued \in Nat /\ sent \in Nat /\ acked \in Nat
      /\ ret \in Nat /\ acked <= sent /\ sent <= queued /\ queued - acked + ret <= SSIZE
      /\ pc = "send"
  BY Numbers, Sizes DEF Accounting, CallInv, FsrRegister, WriteSend
<1>p. PICK n \in {0, ret} : /\ queued' = queued + n /\ (sr \in Open => n = ret)
                            /\ (sr \notin Open => n = 0)
  <2>1. queued' = IF sr \in Open THEN queued + ret ELSE queued + 0
    BY <1>0, SendTakes DEF WriteSend
  <2> QED BY <2>1
<1>1. /\ queued' = queued + n /\ pc' = "interrupt" /\ n \in Nat /\ n <= ret
      /\ UNCHANGED <<sr, ring, base, wr, sent, acked, sendOk, seg, call, ret, free, result>>
  BY <1>0, <1>p DEF WriteSend
<1>2. queued + n \in Nat
  BY <1>0, <1>1
<1>3. TypeOK'
  BY <1>1, <1>2 DEF TypeOK, Slots
<1>4. Accounting'
  <2>1. acked <= sent /\ sent <= queued + n /\ (queued + n) - acked <= SSIZE
    BY <1>0, <1>1, Sizes
  <2>2. sr \in Open => wr = (base + (queued + n)) % PtrMod
    BY <1>0, <1>p DEF CallInv
  <2> QED BY <1>1, <2>1, <2>2 DEF Accounting
<1>5. UnackedIntact'
  <2>1. ASSUME NEW k \in acked .. (queued + n) - 1 PROVE ring[SlotOf(k)] = k
    <3>1. k \in acked .. queued - 1 \/ k \in queued .. queued + ret - 1
      BY <1>0, <1>1, Sizes
    <3> QED BY <1>0, <3>1 DEF UnackedIntact, CallInv
  <2> QED BY <1>1, <2>1 DEF UnackedIntact, SlotOf
<1>6. CallInv'
  <2>1. sendOk => sent' = queued'
    BY <1>0, <1>1, <1>p DEF CallInv
  <2> QED BY <1>1, <2>1 DEF CallInv
<1> QED BY <1>3, <1>4, <1>5, <1>6

(* A segment leaves with the bytes that were written.                      *)
LEMMA SegmentIsSlice ==
  ASSUME TxInv, NEW n \in 1 .. queued - sent
  PROVE  [i \in 1..n |-> ring[SlotOf(sent + i - 1)]] = Stream!Slice(sent, n)
<1>0. queued \in Nat /\ sent \in Nat /\ acked \in Nat /\ acked <= sent
  BY Numbers DEF TxInv, Accounting
<1>1. ASSUME NEW i \in 1..n PROVE ring[SlotOf(sent + i - 1)] = sent + i - 1
  <2>1. sent + i - 1 \in acked .. queued - 1
    BY <1>0
  <2> QED BY <2>1 DEF TxInv, UnackedIntact
<1> QED BY <1>1 DEF Stream!Slice

LEMMA TransmitStep == TxInv /\ Transmit => TxInv'
<1> SUFFICES ASSUME TxInv, Transmit PROVE TxInv'
  OBVIOUS
<1> USE DEF TxInv
<1>p. PICK n \in 1 .. queued - sent :
        /\ seg' = [i \in 1..n |-> ring[SlotOf(sent + i - 1)]]
        /\ sent' = sent + n
  BY DEF Transmit
<1>0. /\ queued \in Nat /\ sent \in Nat /\ acked \in Nat /\ acked <= sent
      /\ n \in Nat /\ 0 < n /\ sent' \in Nat /\ sent < sent' /\ sent' <= queued
  BY <1>p, Numbers DEF Accounting
<1>1. /\ sr \in Open /\ sendOk' = (sendOk \/ sent' = queued)
      /\ UNCHANGED <<sr, ring, base, wr, queued, acked, pc, call, ret, free, result>>
  BY DEF Transmit, callVars
<1>2. seg' \in Seq(Int)
  <2>1. seg' = Stream!Slice(sent, n)
    BY <1>p, SegmentIsSlice
  <2> QED BY <1>0, <2>1 DEF Stream!Slice
<1>3. TypeOK'
  BY <1>0, <1>1, <1>2 DEF TypeOK, Slots
<1>4. Accounting' /\ UnackedIntact'
  BY <1>0, <1>1 DEF Accounting, UnackedIntact, SlotOf
<1>5. pc \in {"interrupt", "alive"}
  BY <1>0, <1>1 DEF CallInv, TypeOK
<1>6. CallInv'
  BY <1>0, <1>1, <1>5 DEF CallInv, FsrRegister, TypeOK
<1> QED BY <1>3, <1>4, <1>6

LEMMA ReopenStep == TxInv /\ Reopen => TxInv'
<1> SUFFICES ASSUME TxInv, Reopen PROVE TxInv'
  OBVIOUS
<1> USE DEF TxInv
<1>1. /\ sr' = "ESTABLISHED" /\ base' = 0 /\ wr' = 0 /\ queued' = 0 /\ sent' = 0
      /\ acked' = 0 /\ sendOk' = FALSE /\ seg' = <<>> /\ call' = "none" /\ ret' = 0
      /\ free' = 0 /\ result' = "none" /\ pc = "idle" /\ UNCHANGED <<ring, pc>>
  BY DEF Reopen, OpenedIr
<1>0. SSIZE \in Nat /\ 0 <= SSIZE /\ PtrMod \in Nat /\ 0 < PtrMod
  BY Sizes
<1>2. TypeOK'
  <2>1. ret' \in Nat /\ ret' <= SSIZE /\ free' \in Nat /\ free' <= SSIZE
    BY <1>0, <1>1
  <2>2. base' \in Nat /\ base' < PtrMod /\ wr' \in Nat /\ wr' < PtrMod
    BY <1>0, <1>1
  <2>3. ring' \in [Slots -> Int] /\ seg' \in Seq(Int)
    BY <1>1 DEF TypeOK
  <2> QED BY <1>1, <2>1, <2>2, <2>3 DEF TypeOK, Slots
<1>3. 0 % PtrMod = 0
  BY Sizes, RemainderOfSmall
<1>4. Accounting'
  BY <1>1, <1>3, Sizes DEF Accounting
<1> QED BY <1>1, <1>2, <1>4 DEF UnackedIntact, CallInv

LEMMA TxInvStep == TxInv /\ [Next]_vars => TxInv'
<1> SUFFICES ASSUME TxInv, [Next]_vars PROVE TxInv'
  OBVIOUS
<1> USE DEF TxInv
<1>0. /\ base \in Nat /\ queued \in Nat /\ sent \in Nat /\ acked \in Nat
      /\ ret \in Nat /\ ret <= SSIZE /\ free \in Nat /\ free <= SSIZE
      /\ acked <= sent /\ sent <= queued /\ queued - acked <= SSIZE
  BY Numbers DEF Accounting
<1>1. CASE Transmit
  BY <1>1, TransmitStep
<1>2. CASE AckArrives
  <2>1. PICK a \in acked + 1 .. sent : acked' = a
    BY <1>2 DEF AckArrives
  <2>2. UNCHANGED <<sr, ring, base, wr, queued, sent, sendOk, seg, callVars>>
    BY <1>2 DEF AckArrives
  <2>3. a \in Nat /\ acked < a /\ a <= sent /\ SSIZE \in Nat
    BY <1>0, Sizes
  <2>4. TypeOK'
    BY <2>1, <2>2, <2>3 DEF TypeOK, Slots, callVars
  <2>5. Accounting'
    BY <1>0, <2>1, <2>2, <2>3 DEF Accounting, callVars
  <2>6. UnackedIntact'
    <3>1. \A k \in a .. queued - 1 : k \in acked .. queued - 1
      BY <1>0, <2>3
    <3> QED BY <2>1, <2>2, <3>1 DEF UnackedIntact, SlotOf
  <2>7. free <= FsrRegister => free <= FsrRegister'
    BY <1>0, <2>1, <2>2, <2>3 DEF FsrRegister
  <2>8. ret <= FsrRegister => ret <= FsrRegister'
    BY <1>0, <2>1, <2>2, <2>3 DEF FsrRegister
  <2>9. CallInv'
    BY <2>2, <2>7, <2>8 DEF CallInv, callVars, SlotOf
  <2> QED BY <2>4, <2>5, <2>6, <2>9
<1>3. CASE FinArrives \/ ConnectionDies
  <2>1. /\ sr' \in {"CLOSE_WAIT", "CLOSED"} /\ (sr' \in Open => sr \in Open)
        /\ UNCHANGED <<ring, base, wr, queued, sent, acked, sendOk, seg, callVars>>
    BY <1>3 DEF FinArrives, ConnectionDies, Open
  <2>2. TypeOK'
    BY <2>1 DEF TypeOK, Slots, callVars
  <2>3. Accounting' /\ UnackedIntact'
    BY <2>1 DEF Accounting, UnackedIntact, SlotOf, callVars
  <2>4. CallInv'
    BY <2>1 DEF CallInv, FsrRegister, callVars, SlotOf
  <2> QED BY <2>2, <2>3, <2>4
<1>4. CASE WriteCall
  <2>1. PICK n \in WriteLens : ret' = Capped(n)
    BY <1>4 DEF WriteCall
  <2>2. ret' \in Nat /\ ret' <= SSIZE
    BY <2>1, ParameterAssumption, Sizes DEF Capped
  <2>3. /\ pc = "idle" /\ pc' = "room" /\ call' = "write"
        /\ UNCHANGED <<chipVars, free, result>>
    BY <1>4 DEF WriteCall
  <2>4. TypeOK'
    BY <2>2, <2>3 DEF TypeOK, Slots, chipVars
  <2>5. Accounting' /\ UnackedIntact' /\ CallInv'
    BY <2>3 DEF Accounting, UnackedIntact, CallInv, SlotOf, chipVars
  <2> QED BY <2>4, <2>5
<1>5. CASE ReadRoom
  <2>1. /\ pc = "room" /\ pc' = "status" /\ free' = FsrRegister
        /\ UNCHANGED <<chipVars, call, ret, result>>
    BY <1>5 DEF ReadRoom
  <2>2. free' \in Nat /\ free' <= SSIZE
    BY <1>0, <2>1, Sizes DEF FsrRegister
  <2>3. TypeOK'
    BY <2>1, <2>2 DEF TypeOK, Slots, chipVars
  <2>4. Accounting' /\ UnackedIntact'
    BY <2>1 DEF Accounting, UnackedIntact, SlotOf, chipVars
  <2>5. free' <= FsrRegister'
    BY <2>1, <2>2 DEF FsrRegister, chipVars
  <2>6. CallInv'
    BY <2>1, <2>5 DEF CallInv, chipVars
  <2> QED BY <2>3, <2>4, <2>6
<1>6. CASE WriteStatus
  <2>1. /\ pc = "status" /\ pc' \in {"copy", "room"}
        /\ ret' \in {0, ret} /\ (pc' = "copy" => ret' = 0 \/ ret <= free)
        /\ UNCHANGED <<chipVars, call, free, result>>
    BY <1>6 DEF WriteStatus, HasRoom
  <2>2. TypeOK'
    BY <1>0, <2>1, Sizes DEF TypeOK, Slots, chipVars
  <2>3. Accounting' /\ UnackedIntact'
    BY <2>1 DEF Accounting, UnackedIntact, SlotOf, chipVars
  <2>4. free <= FsrRegister /\ FsrRegister \in Nat
    BY <1>0, <2>1, Sizes DEF CallInv, FsrRegister
  <2>5. pc' = "copy" => ret' <= FsrRegister'
    <3>1. FsrRegister' = FsrRegister
      BY <2>1 DEF FsrRegister, chipVars
    <3> QED BY <1>0, <2>1, <2>4, <3>1
  <2>6. CallInv'
    BY <2>1, <2>5 DEF CallInv, chipVars
  <2> QED BY <2>2, <2>3, <2>6
<1>7. CASE WriteCopy
  BY <1>7, CopyStep
<1>8. CASE WriteSend
  BY <1>8, SendStep
<1>9. CASE WriteInterrupt \/ WriteAlive \/ FlushStatus \/ SendAvailableStatus
           \/ AvailableForWriteCall \/ FlushCall
  <2>1. /\ UNCHANGED <<chipVars, ret, free>>
        /\ call' \in {call, "available", "flush"}
        /\ result' \in {result, "failed", "gone", "available", "flushed"}
        /\ pc' \in {"clear", "alive", "idle", "interrupt", "room", "flush"}
        /\ pc # "send"
        /\ pc' = "clear" => sendOk
        /\ pc' \in {"idle", "room", "flush"} /\ sr \in Open
             => pc \notin {"interrupt", "alive", "clear"}
    BY <1>9 DEF WriteInterrupt, WriteAlive, FlushStatus, SendAvailableStatus,
                AvailableForWriteCall, FlushCall, Hopeless, Open
  <2>2. TypeOK'
    BY <2>1 DEF TypeOK, Slots, chipVars
  <2>3. Accounting' /\ UnackedIntact'
    BY <2>1 DEF Accounting, UnackedIntact, SlotOf, chipVars
  <2>4. CallInv'
    BY <2>1 DEF CallInv, chipVars
  <2> QED BY <2>2, <2>3, <2>4
<1>10. CASE WriteClear
  <2>1. /\ pc = "clear" /\ pc' = "idle" /\ sendOk' = FALSE /\ result' \in {"written", "failed"}
        /\ UNCHANGED <<sr, ring, base, wr, queued, sent, acked, seg, call, ret, free>>
    BY <1>10 DEF WriteClear
  <2>2. TypeOK'
    BY <2>1 DEF TypeOK, Slots
  <2>3. Accounting' /\ UnackedIntact' /\ CallInv'
    BY <2>1 DEF Accounting, UnackedIntact, CallInv, SlotOf
  <2> QED BY <2>2, <2>3
<1>11. CASE Reopen
  BY <1>11, ReopenStep
<1>12. CASE UNCHANGED vars
  BY <1>12 DEF vars, chipVars, callVars, TypeOK, Accounting, UnackedIntact, CallInv,
               SlotOf, Slots, FsrRegister
<1> QED BY <1>1, <1>2, <1>3, <1>4, <1>5, <1>6, <1>7, <1>8, <1>9, <1>10, <1>11, <1>12
           DEF Next, Chip, CallStep, Application

(* The inductive invariant of the transmit path, TxInv: the pointers keep  *)
(* their order, no unacknowledged byte is overwritten, and each step of    *)
(* socketSend finds what it relies on.                                     *)
THEOREM TxInvariant == Spec => []TxInv
  BY TxInvInit, TxInvStep, PTL DEF Spec

(***************************************************************************)
(* The theorems                                                            *)
(***************************************************************************)

(* Every variable of the transmit path keeps its type.                     *)
THEOREM TypeCorrect == Spec => []TypeOK
  BY TxInvariant, PTL DEF TxInv

(* A write never overwrites what the chip may have to send again.          *)
THEOREM UnackedSafe == Spec => []UnackedIntact
  BY TxInvariant, PTL DEF TxInv

(* Every step of the transmit path is a step of the byte stream it feeds,  *)
(* or leaves the stream alone: SEND is the arrival of bytes, a segment     *)
(* their delivery.                                                         *)
LEMMA StreamStep == TxInv /\ [Next]_vars => [Stream!Next]_(Stream!vars)
<1> SUFFICES ASSUME TxInv, [Next]_vars PROVE [Stream!Next]_(Stream!vars)
  OBVIOUS
<1>0. queued \in Nat /\ sent \in Nat /\ ret \in Nat
  BY Numbers DEF TxInv
<1>1. CASE Transmit
  <2>1. PICK n \in 1 .. queued - sent :
          /\ seg' = [i \in 1..n |-> ring[SlotOf(sent + i - 1)]]
          /\ sent' = sent + n
    BY <1>1 DEF Transmit
  <2>2. seg' = Stream!Slice(sent, n)
    BY <2>1, SegmentIsSlice
  <2>3. UNCHANGED queued
    BY <1>1 DEF Transmit
  <2> QED BY <2>1, <2>2, <2>3 DEF Stream!Next, Stream!Deliver
<1>2. CASE WriteSend
  <2>1. UNCHANGED <<sent, seg>>
    BY <1>2 DEF WriteSend
  <2>2. queued' = queued + ret \/ queued' = queued
    BY <1>2, SendTakes DEF WriteSend
  <2>3. CASE queued' = queued \/ ret = 0
    BY <1>0, <2>1, <2>2, <2>3 DEF Stream!vars
  <2>4. CASE queued' = queued + ret /\ ret # 0
    <3>1. queued' > queued
      BY <1>0, <2>4
    <3> QED BY <2>1, <3>1 DEF Stream!Next, Stream!Arrive
  <2> QED BY <2>2, <2>3, <2>4
<1>3. CASE Reopen
  BY <1>3 DEF Reopen, Stream!Next, Stream!Restart
<1>4. CASE \/ AckArrives \/ FinArrives \/ ConnectionDies \/ WriteCall \/ ReadRoom
           \/ WriteStatus \/ WriteCopy \/ WriteInterrupt \/ WriteAlive \/ WriteClear
           \/ FlushStatus \/ SendAvailableStatus \/ AvailableForWriteCall \/ FlushCall
           \/ UNCHANGED vars
  <2>1. UNCHANGED <<queued, sent, seg>>
    BY <1>4 DEF AckArrives, FinArrives, ConnectionDies, WriteCall, ReadRoom, WriteStatus,
                WriteCopy, WriteInterrupt, WriteAlive, WriteClear, FlushStatus,
                SendAvailableStatus, AvailableForWriteCall, FlushCall, vars, chipVars
  <2> QED BY <2>1 DEF Stream!vars
<1> QED BY <1>1, <1>2, <1>3, <1>4 DEF Next, Chip, CallStep, Application

(* client.write() over the chip's circular buffer implements the byte      *)
(* stream of module ByteStream: what leaves is what was written, in order, *)
(* each byte once, whatever the chip does between two register accesses.   *)
THEOREM ImplementsByteStream == Spec => SendsTheStream
<1>1. Init => Stream!Init
  BY DEF Init, Stream!Init
<1> QED BY <1>1, StreamStep, TxInvariant, PTL DEF Spec, SendsTheStream, Stream!Spec

(* The SEND_OK on which write() returns is its own: all it handed over has *)
(* been transmitted.                                                       *)
THEOREM WrittenIsSent == Spec => WrittenMeansSent
<1>1. TxInv /\ [Next]_vars => [WriteClear /\ result' = "written" => sent = queued]_vars
  BY DEF TxInv, CallInv, WriteClear
<1> QED BY <1>1, TxInvariant, PTL DEF Spec, WrittenMeansSent

(* flush() returns on a live connection only when everything written has   *)
(* been acknowledged: the room it saw can only have grown since.           *)
THEOREM FlushedIsAcked == Spec => FlushedMeansAcked
<1>1. TxInv /\ [Next]_vars
        => [SendAvailableStatus /\ pc' = "idle" /\ result' = "flushed" => acked = queued]_vars
  <2> SUFFICES ASSUME TxInv, SendAvailableStatus, pc' = "idle", result' = "flushed"
               PROVE  acked = queued
    OBVIOUS
  <2>1. pc = "status" /\ Flushed(SendAvailable(sr, free))
    BY DEF SendAvailableStatus
  <2>2. /\ queued \in Nat /\ acked \in Nat /\ free \in Nat /\ acked <= queued
        /\ SSIZE \in Nat /\ 0 < SSIZE /\ free <= SSIZE - (queued - acked)
    BY <2>1, Numbers, Sizes DEF TxInv, Accounting, CallInv, FsrRegister
  <2>3. free >= SSIZE
    BY <2>1, <2>2 DEF Flushed, SendAvailable
  <2> QED BY <2>2, <2>3
<1> QED BY <1>1, TxInvariant, PTL DEF Spec, FlushedMeansAcked
=============================================================================
