------------------------- MODULE ChipMemory_proofs --------------------------
(***************************************************************************)
(* Machine-checked proofs about the memory of the three chips: for every   *)
(* number of sockets a sketch may ask for, every byte of every buffer,     *)
(* every length of a transfer and every register of a socket.              *)
(***************************************************************************)
EXTENDS ChipMemory, TLAPS

LEMMA Types ==
  ASSUME TypeOK
  PROVE  /\ chip \in {"W5100", "W5200", "W5500"}
         /\ SocketsOf(chip) \in {4, 8} /\ maxSock \in 0 .. SocketsOf(chip)
         /\ SocketsOf(chip) = 4 <=> chip = "W5100"
         /\ Sockets = 0 .. SocketsOf(chip) - 1
         /\ txKB \in [Sockets -> Nat] /\ rxKB \in [Sockets -> Nat]
<1>1. chip \in Chips /\ Chips \subseteq {"W5100", "W5200", "W5500"}
  BY ParameterAssumption DEF TypeOK
<1>2. chip \in {"W5100", "W5200", "W5500"}
  BY <1>1
<1>3. /\ SocketsOf(chip) \in {4, 8} /\ (SocketsOf(chip) = 4 <=> chip = "W5100")
      /\ Sockets = 0 .. SocketsOf(chip) - 1
  BY DEF SocketsOf, Sockets
<1>4. maxSock \in 0 .. SocketsOf(chip)
  BY DEF TypeOK
<1>5. txKB \in [Sockets -> Nat] /\ rxKB \in [Sockets -> Nat]
  <2>1. /\ txKB \in [Sockets -> {0, 1, 2, 4, 8, 16}] /\ rxKB \in [Sockets -> {0, 1, 2, 4, 8, 16}]
    BY DEF TypeOK
  <2>2. {0, 1, 2, 4, 8, 16} \subseteq Nat
    OBVIOUS
  <2> QED BY <2>1, <2>2
<1> QED BY <1>2, <1>3, <1>4, <1>5

(***************************************************************************)
(* How init() divides the memory                                           *)
(***************************************************************************)

LEMMA SizeClasses ==
  ASSUME TypeOK
  PROVE  \/ maxSock <= 1 /\ SizeKB(chip, maxSock) = IF chip = "W5100" THEN 8 ELSE 16
         \/ ~(maxSock <= 1) /\ maxSock <= 2 /\ SizeKB(chip, maxSock) = IF chip = "W5100" THEN 4 ELSE 8
         \/ ~(maxSock <= 1) /\ ~(maxSock <= 2) /\ maxSock <= 4
              /\ SizeKB(chip, maxSock) = IF chip = "W5100" THEN 2 ELSE 4
         \/ /\ ~(maxSock <= 1) /\ ~(maxSock <= 2) /\ ~(maxSock <= 4) /\ maxSock <= 8
            /\ chip # "W5100" /\ SizeKB(chip, maxSock) = 2
<1>1. maxSock \in Nat /\ (maxSock <= 4 \/ (chip # "W5100" /\ maxSock <= 8))
  BY Types
<1> QED BY <1>1 DEF SizeKB

(* The sockets in use get SSIZE each, the others nothing where that can be *)
(* said; the W5100's get what its register leaves them.                    *)
LEMMA ProgrammedSizes ==
  ASSUME TypeOK
  PROVE  /\ ProgrammedKB \in [Sockets -> {0, 1, 2, 4, 8, 16}]
         /\ \A s \in 0 .. maxSock - 1 : s \in Sockets /\ ProgrammedKB[s] = SizeKB(chip, maxSock)
         /\ chip # "W5100" => \A s \in Sockets : s >= maxSock => ProgrammedKB[s] = 0
<1>1. CASE chip = "W5100"
  <2>1. /\ Sockets = 0 .. 3 /\ maxSock \in 0 .. 4
        /\ ProgrammedKB = [s \in Sockets |-> Allotted(MemorySizeRegister(maxSock), s)]
    BY <1>1, Types DEF ProgrammedKB
  <2>2. \A s \in 0 .. 3 : /\ Allotted(3, s) = IF s = 0 THEN 8 ELSE 1
                          /\ Allotted(10, s) = IF s <= 1 THEN 4 ELSE 1
                          /\ Allotted(85, s) = 2
    <3>1. 4^0 = 1 /\ 4^1 = 4 /\ 4^2 = 16 /\ 4^3 = 64 /\ 2^0 = 1 /\ 2^1 = 2 /\ 2^2 = 4 /\ 2^3 = 8
      OBVIOUS
    <3>2. /\ (3 \div 1) % 4 = 3 /\ (3 \div 4) % 4 = 0 /\ (3 \div 16) % 4 = 0 /\ (3 \div 64) % 4 = 0
          /\ (10 \div 1) % 4 = 2 /\ (10 \div 4) % 4 = 2 /\ (10 \div 16) % 4 = 0 /\ (10 \div 64) % 4 = 0
          /\ (85 \div 1) % 4 = 1 /\ (85 \div 4) % 4 = 1 /\ (85 \div 16) % 4 = 1 /\ (85 \div 64) % 4 = 1
      OBVIOUS
    <3> SUFFICES ASSUME NEW s \in 0 .. 3
                 PROVE  /\ Allotted(3, s) = IF s = 0 THEN 8 ELSE 1
                        /\ Allotted(10, s) = IF s <= 1 THEN 4 ELSE 1
                        /\ Allotted(85, s) = 2
      OBVIOUS
    <3>3. CASE s = 0
      BY <3>1, <3>2, <3>3 DEF Allotted
    <3>4. CASE s = 1
      BY <3>1, <3>2, <3>4 DEF Allotted
    <3>5. CASE s = 2
      BY <3>1, <3>2, <3>5 DEF Allotted
    <3>6. CASE s = 3
      BY <3>1, <3>2, <3>6 DEF Allotted
    <3> QED BY <3>3, <3>4, <3>5, <3>6
  <2>3. MemorySizeRegister(maxSock) = IF maxSock <= 1 THEN 3 ELSE IF maxSock <= 2 THEN 10 ELSE 85
    BY DEF MemorySizeRegister
  <2>4. CASE maxSock <= 1
    <3>1. SizeKB(chip, maxSock) = 8 /\ ProgrammedKB = [s \in 0 .. 3 |-> Allotted(3, s)]
      BY <1>1, <2>1, <2>3, <2>4 DEF SizeKB
    <3> QED BY <1>1, <2>1, <2>2, <2>4, <3>1
  <2>5. CASE ~(maxSock <= 1) /\ maxSock <= 2
    <3>1. SizeKB(chip, maxSock) = 4 /\ ProgrammedKB = [s \in 0 .. 3 |-> Allotted(10, s)]
      BY <1>1, <2>1, <2>3, <2>5 DEF SizeKB
    <3> QED BY <1>1, <2>1, <2>2, <2>5, <3>1
  <2>6. CASE ~(maxSock <= 1) /\ ~(maxSock <= 2)
    <3>1. SizeKB(chip, maxSock) = 2 /\ ProgrammedKB = [s \in 0 .. 3 |-> Allotted(85, s)]
      BY <1>1, <2>1, <2>3, <2>6 DEF SizeKB
    <3> QED BY <1>1, <2>1, <2>2, <2>6, <3>1
  <2> QED BY <2>4, <2>5, <2>6
<1>2. CASE chip # "W5100"
  <2>1. /\ Sockets = 0 .. 7 /\ maxSock \in 0 .. 8
        /\ ProgrammedKB = [s \in 0 .. 7 |-> IF s < maxSock THEN SizeKB(chip, maxSock) ELSE 0]
    BY <1>2, Types DEF ProgrammedKB, UnusedKB
  <2>2. SizeKB(chip, maxSock) \in {2, 4, 8, 16}
    BY <1>2, SizeClasses
  <2> HIDE DEF SizeKB
  <2> QED BY <1>2, <2>1, <2>2
<1> QED BY <1>1, <1>2

(* The areas lie one behind the other.                                     *)
LEMMA AreasInARow ==
  ASSUME TypeOK, NEW kb \in [Sockets -> Nat]
  PROVE  /\ KBBefore(kb)[0] = 0
         /\ \A s \in Sockets : KBBefore(kb)[s + 1] = KBBefore(kb)[s] + kb[s]
<1> DEFINE N == SocketsOf(chip)
           P(h) == h = [s \in 0 .. N |-> IF s = 0 THEN 0 ELSE h[s - 1] + kb[s - 1]]
           Of(s, t) == IF t < s THEN kb[t] ELSE 0
           g == [s \in 0 .. N |->
                   IF chip = "W5100" THEN Of(s, 0) + Of(s, 1) + Of(s, 2) + Of(s, 3)
                   ELSE Of(s, 0) + Of(s, 1) + Of(s, 2) + Of(s, 3)
                        + Of(s, 4) + Of(s, 5) + Of(s, 6) + Of(s, 7)]
<1>1. N \in {4, 8} /\ (N = 4 <=> chip = "W5100") /\ Sockets = 0 .. N - 1
  BY Types
<1>2. P(g)
  <2>1. ASSUME NEW s \in 0 .. N
        PROVE  g[s] = IF s = 0 THEN 0 ELSE g[s - 1] + kb[s - 1]
    <3>1. CASE N = 4
      <4>1. \A t \in 0 .. 3 : kb[t] \in Nat
        BY <1>1, <3>1
      <4>2. g = [n \in 0 .. 4 |-> Of(n, 0) + Of(n, 1) + Of(n, 2) + Of(n, 3)]
        BY <1>1, <3>1
      <4> HIDE DEF g, N
      <4>3. s = 0 \/ s = 1 \/ s = 2 \/ s = 3 \/ s = 4
        BY <3>1
      <4> QED BY <4>1, <4>2, <4>3
    <3>2. CASE N = 8
      <4>1. \A t \in 0 .. 7 : kb[t] \in Nat
        BY <1>1, <3>2
      <4>2. g = [n \in 0 .. 8 |-> Of(n, 0) + Of(n, 1) + Of(n, 2) + Of(n, 3)
                                   + Of(n, 4) + Of(n, 5) + Of(n, 6) + Of(n, 7)]
        BY <1>1, <3>2
      <4> HIDE DEF g, N
      <4>3. s = 0 \/ s = 1 \/ s = 2 \/ s = 3 \/ s = 4 \/ s = 5 \/ s = 6 \/ s = 7 \/ s = 8
        BY <3>2
      <4> QED BY <4>1, <4>2, <4>3
    <3> QED BY <1>1, <3>1, <3>2
  <2> QED BY <2>1
<1>3. KBBefore(kb) = CHOOSE h : P(h)
  BY DEF KBBefore
<1> HIDE DEF P, g
<1>4. P(CHOOSE h : P(h))
  BY <1>2
<1>5. P(KBBefore(kb))
  BY <1>3, <1>4
<1>6. KBBefore(kb) = [s \in 0 .. N |-> IF s = 0 THEN 0 ELSE KBBefore(kb)[s - 1] + kb[s - 1]]
  BY <1>5 DEF P
<1>7. 0 \in 0 .. N /\ \A s \in Sockets : s + 1 \in 0 .. N /\ s + 1 # 0 /\ (s + 1) - 1 = s
  BY <1>1
<1> QED BY <1>6, <1>7

(* The sockets in use share the memory in pieces of SSIZE, and what the    *)
(* others get lies behind.                                                 *)
LEMMA StartOfAreas ==
  ASSUME TypeOK, 0 < maxSock, NEW K \in Nat, K = SizeKB(chip, maxSock)
  PROVE  /\ \A s \in 0 .. maxSock : KBBefore(ProgrammedKB)[s] = K * s
         /\ \A s \in maxSock .. SocketsOf(chip) :
              KBBefore(ProgrammedKB)[s] \in Nat /\ K * maxSock <= KBBefore(ProgrammedKB)[s]
         /\ chip # "W5100" => KBBefore(ProgrammedKB)[SocketsOf(chip)] = K * maxSock
         /\ K * maxSock <= MemoryKB(chip)
<1>1. PICK kb : kb = ProgrammedKB
  OBVIOUS
<1>2. PICK B : B = KBBefore(kb)
  OBVIOUS
<1>3. /\ kb \in [Sockets -> Nat]
      /\ \A s \in 0 .. maxSock - 1 : s \in Sockets /\ kb[s] = K
      /\ chip # "W5100" => \A s \in Sockets : s >= maxSock => kb[s] = 0
  <2>1. {0, 1, 2, 4, 8, 16} \subseteq Nat
    OBVIOUS
  <2> QED BY <1>1, <2>1, ProgrammedSizes
<1>4. B[0] = 0 /\ \A s \in Sockets : B[s + 1] = B[s] + kb[s]
  BY <1>2, <1>3, AreasInARow
<1>5. /\ maxSock \in Nat /\ 0 < maxSock
      /\ MemoryKB(chip) = IF chip = "W5100" THEN 8 ELSE 16
  BY Types DEF MemoryKB
<1>6. K * maxSock <= MemoryKB(chip)
  BY <1>5, SizeClasses
<1>7. /\ \A s \in 0 .. maxSock : B[s] = K * s
      /\ \A s \in maxSock .. SocketsOf(chip) : B[s] \in Nat /\ K * maxSock <= B[s]
      /\ chip # "W5100" => B[SocketsOf(chip)] = K * maxSock
  <2>1. CASE chip = "W5100"
    <3>1. /\ SocketsOf(chip) = 4 /\ Sockets = 0 .. 3 /\ maxSock <= 4
          /\ kb[0] \in Nat /\ kb[1] \in Nat /\ kb[2] \in Nat /\ kb[3] \in Nat
      BY <1>3, <2>1, Types
    <3>2. /\ B[0] = 0 /\ B[1] = B[0] + kb[0] /\ B[2] = B[1] + kb[1]
          /\ B[3] = B[2] + kb[2] /\ B[4] = B[3] + kb[3]
      BY <1>4, <3>1
    <3>3. \A s \in 0 .. 3 : s < maxSock => kb[s] = K
      BY <1>3, <1>5
    <3>4. CASE maxSock = 1
      BY <2>1, <3>1, <3>2, <3>3, <3>4
    <3>5. CASE maxSock = 2
      BY <2>1, <3>1, <3>2, <3>3, <3>5
    <3>6. CASE maxSock = 3
      <4>1. kb[0] = K /\ kb[1] = K /\ kb[2] = K
        BY <3>3, <3>6
      <4>2. /\ B[0] = K * 0 /\ B[1] = K * 1 /\ B[2] = K * 2 /\ B[3] = K * 3
            /\ B[4] = K * 3 + kb[3]
        BY <3>2, <4>1
      <4> QED BY <2>1, <3>1, <3>6, <4>2
    <3>7. CASE maxSock = 4
      BY <2>1, <3>1, <3>2, <3>3, <3>7
    <3> QED BY <1>5, <3>1, <3>4, <3>5, <3>6, <3>7
  <2>2. CASE chip # "W5100"
    <3>1. SocketsOf(chip) = 8 /\ Sockets = 0 .. 7 /\ maxSock <= 8
      BY <2>2, Types
    <3>2. /\ B[0] = 0 /\ B[1] = B[0] + kb[0] /\ B[2] = B[1] + kb[1]
          /\ B[3] = B[2] + kb[2] /\ B[4] = B[3] + kb[3] /\ B[5] = B[4] + kb[4]
          /\ B[6] = B[5] + kb[5] /\ B[7] = B[6] + kb[6] /\ B[8] = B[7] + kb[7]
      BY <1>4, <3>1
    <3>3. \A s \in 0 .. 7 : kb[s] = IF s < maxSock THEN K ELSE 0
      BY <1>3, <1>5, <2>2, <3>1
    <3>4. CASE maxSock = 1
      BY <3>1, <3>2, <3>3, <3>4
    <3>5. CASE maxSock = 2
      BY <3>1, <3>2, <3>3, <3>5
    <3>6. CASE maxSock = 3
      BY <3>1, <3>2, <3>3, <3>6
    <3>7. CASE maxSock = 4
      BY <3>1, <3>2, <3>3, <3>7
    <3>8. CASE maxSock = 5
      BY <3>1, <3>2, <3>3, <3>8
    <3>9. CASE maxSock = 6
      BY <3>1, <3>2, <3>3, <3>9
    <3>10. CASE maxSock = 7
      BY <3>1, <3>2, <3>3, <3>10
    <3>11. CASE maxSock = 8
      BY <3>1, <3>2, <3>3, <3>11
    <3> QED BY <1>5, <3>1, <3>4, <3>5, <3>6, <3>7, <3>8, <3>9, <3>10, <3>11
  <2> QED BY <2>1, <2>2
<1> QED BY <1>1, <1>2, <1>6, <1>7

(***************************************************************************)
(* Where an access ends up                                                 *)
(***************************************************************************)

LEMMA SizeOfBuffers ==
  ASSUME TypeOK, 0 < maxSock
  PROVE  /\ SizeKB(chip, maxSock) \in {2, 4, 8, 16}
         /\ SizeKB(chip, maxSock) * maxSock <= MemoryKB(chip)
         /\ MemoryKB(chip) = IF chip = "W5100" THEN 8 ELSE 16
<1>1. SizeKB(chip, maxSock) \in {2, 4, 8, 16}
  BY SizeClasses
<1>2. SizeKB(chip, maxSock) \in Nat
  BY <1>1
<1> QED BY <1>1, <1>2, StartOfAreas DEF MemoryKB

(* Pieces of the memory, of one size, do not overlap.                      *)
PieceAt(K, s) == s * (K * KB)

LEMMA Pieces ==
  ASSUME NEW K \in {2, 4, 8, 16}, NEW s \in Nat, NEW t \in Nat
  PROVE  /\ K * KB \in Nat /\ KB * K = K * KB
         /\ PieceAt(K, s) \in Nat /\ KB * (K * s) = PieceAt(K, s)
         /\ t < s => PieceAt(K, t) + K * KB <= PieceAt(K, s)
<1> USE DEF PieceAt, KB
<1>1. CASE K = 2
  BY <1>1
<1>2. CASE K = 4
  BY <1>2
<1>3. CASE K = 8
  BY <1>3
<1>4. CASE K = 16
  BY <1>4
<1> QED BY <1>1, <1>2, <1>3, <1>4

(* W5100 and W5200: byte x of the area of a socket in use is found there   *)
(* and in no other socket's.                                               *)
LEMMA AreaReached ==
  ASSUME TypeOK, 0 < maxSock, NEW K \in Nat, K = SizeKB(chip, maxSock),
         NEW s \in 0 .. maxSock - 1, NEW x \in Nat, x < K * KB,
         NEW first \in Nat, NEW mem, NEW a \in Nat, a = first + PieceAt(K, s) + x
  PROVE  AreaByte(mem, a, first, ProgrammedKB) = [mem |-> mem, s |-> s, at |-> x]
<1>1. PICK kb : kb = ProgrammedKB
  OBVIOUS
<1>2. PICK B : B = KBBefore(kb)
  OBVIOUS
<1>3. /\ K \in {2, 4, 8, 16} /\ K * maxSock <= MemoryKB(chip) /\ MemoryKB(chip) \in {8, 16}
      /\ maxSock \in Nat /\ s \in Nat /\ s < maxSock /\ s \in Sockets
      /\ maxSock <= SocketsOf(chip) /\ SocketsOf(chip) \in {4, 8}
      /\ Sockets = 0 .. SocketsOf(chip) - 1
  BY SizeOfBuffers, Types
<1>4. /\ \A t \in 0 .. maxSock : KB * B[t] = PieceAt(K, t)
      /\ \A t \in maxSock .. SocketsOf(chip) : KB * B[t] \in Nat /\ PieceAt(K, maxSock) <= KB * B[t]
      /\ PieceAt(K, maxSock) <= KB * MemoryKB(chip)
  <2>1. ASSUME NEW t \in 0 .. maxSock PROVE KB * B[t] = PieceAt(K, t)
    <3>1. B[t] = K * t
      BY <1>1, <1>2, StartOfAreas
    <3>2. t \in Nat
      BY <1>3
    <3>3. KB * (K * t) = PieceAt(K, t)
      BY <1>3, <3>2, Pieces, Zenon
    <3> QED BY <3>1, <3>3
  <2>2. PICK k \in Nat : k = K * maxSock /\ KB * k = PieceAt(K, maxSock) /\ k <= MemoryKB(chip)
    <3>1. K * maxSock \in Nat
      BY <1>3
    <3>2. KB * (K * maxSock) = PieceAt(K, maxSock)
      BY <1>3, Pieces, Zenon
    <3> QED BY <1>3, <3>1, <3>2, Zenon
  <2>3. KB * k <= KB * MemoryKB(chip)
    BY <1>3, <2>2 DEF KB
  <2>4. ASSUME NEW t \in maxSock .. SocketsOf(chip)
        PROVE  KB * B[t] \in Nat /\ PieceAt(K, maxSock) <= KB * B[t]
    <3>1. PICK b \in Nat : b = B[t] /\ k <= b
      BY <1>1, <1>2, <2>2, StartOfAreas
    <3>2. KB * b \in Nat /\ KB * k <= KB * b
      BY <2>2, <3>1 DEF KB
    <3> QED BY <2>2, <3>1, <3>2
  <2> QED BY <2>1, <2>2, <2>3, <2>4
<1>5. \A t \in 0 .. maxSock - 1 : kb[t] = K
  BY <1>1, ProgrammedSizes
<1>6. \A t \in Sockets :
        InArea(a, first, kb, t) <=>
          /\ first + KB * B[t] <= a
          /\ a < first + KB * B[t] + KB * kb[t]
          /\ a < first + KB * MemoryKB(chip)
  BY <1>2 DEF InArea, Start
<1>7. PICK z, p, m, e \in Nat :
        /\ z = K * KB /\ p = PieceAt(K, s) /\ m = PieceAt(K, maxSock) /\ e = KB * MemoryKB(chip)
        /\ a = first + p + x /\ x < z /\ p + z <= m /\ m <= e
  <2>1. /\ K * KB \in Nat /\ PieceAt(K, s) \in Nat /\ PieceAt(K, maxSock) \in Nat
        /\ PieceAt(K, s) + K * KB <= PieceAt(K, maxSock)
    BY <1>3, Pieces
  <2>2. KB * MemoryKB(chip) \in Nat
    BY <1>3 DEF KB
  <2> QED BY <1>4, <2>1, <2>2
<1>8. ASSUME NEW t \in Sockets PROVE InArea(a, first, kb, t) <=> t = s
  <2>1. t \in Nat
    BY <1>3
  <2>2. CASE t < maxSock
    <3>1. KB * B[t] = PieceAt(K, t) /\ KB * kb[t] = K * KB
      <4>1. t \in 0 .. maxSock /\ t \in 0 .. maxSock - 1
        BY <1>3, <2>1, <2>2
      <4>2. KB * K = K * KB
        BY <1>3, Pieces, Zenon
      <4> QED BY <1>4, <1>5, <4>1, <4>2, Zenon
    <3>2. PICK q \in Nat : q = PieceAt(K, t)
      BY <1>3, <2>1, Pieces
    <3>3. InArea(a, first, kb, t) <=> first + q <= a /\ a < first + q + z /\ a < first + e
      BY <1>6, <1>7, <3>1, <3>2
    <3>4. CASE t = s
      BY <1>7, <3>2, <3>3, <3>4
    <3>5. CASE t < s
      <4>1. q + z <= p
        BY <1>3, <1>7, <2>1, <3>2, <3>5, Pieces
      <4> QED BY <1>7, <3>3, <3>5, <4>1
    <3>6. CASE s < t
      <4>1. p + z <= q
        BY <1>3, <1>7, <2>1, <3>2, <3>6, Pieces
      <4> QED BY <1>7, <3>3, <3>6, <4>1
    <3> QED BY <1>3, <2>1, <3>4, <3>5, <3>6
  <2>3. CASE ~(t < maxSock)
    <3>1. t \in maxSock .. SocketsOf(chip) /\ t # s
      BY <1>3, <2>1, <2>3
    <3>2. PICK q \in Nat : q = KB * B[t] /\ m <= q
      BY <1>4, <1>7, <3>1
    <3>3. ~(first + q <= a)
      BY <1>7, <3>2
    <3>4. ~InArea(a, first, kb, t)
      BY <1>6, <3>2, <3>3
    <3> QED BY <3>1, <3>4
  <2> QED BY <2>2, <2>3
<1>9. /\ \E t \in Sockets : InArea(a, first, kb, t)
      /\ (CHOOSE t \in Sockets : InArea(a, first, kb, t)) = s
  BY <1>3, <1>8
<1>10. Start(kb, s) = p
  <2>1. s \in 0 .. maxSock
    BY <1>3
  <2> QED BY <1>2, <1>4, <1>7, <2>1, Zenon DEF Start
<1>11. a - first - p = x
  BY <1>7
<1> QED BY <1>1, <1>9, <1>10, <1>11 DEF AreaByte

LEMMA PieceInMemory ==
  ASSUME TypeOK, 0 < maxSock, NEW s \in 0 .. maxSock - 1
  PROVE  /\ PieceAt(SizeKB(chip, maxSock), s) \in Nat
         /\ SizeKB(chip, maxSock) * KB \in Nat /\ 0 < SizeKB(chip, maxSock) * KB
         /\ PieceAt(SizeKB(chip, maxSock), s) + SizeKB(chip, maxSock) * KB <= KB * MemoryKB(chip)
<1>1. PICK K : K = SizeKB(chip, maxSock)
  OBVIOUS
<1>2. /\ K \in {2, 4, 8, 16} /\ K * maxSock <= MemoryKB(chip) /\ MemoryKB(chip) \in {8, 16}
      /\ maxSock \in Nat /\ s \in Nat /\ s < maxSock
  BY <1>1, SizeOfBuffers, Types
<1>3. PieceAt(K, s) \in Nat /\ PieceAt(K, s) + K * KB <= PieceAt(K, maxSock)
  BY <1>2, Pieces
<1>4. K * KB \in Nat /\ 0 < K * KB
  BY <1>2 DEF KB
<1>5. PieceAt(K, maxSock) <= KB * MemoryKB(chip)
  <2>1. KB * (K * maxSock) = PieceAt(K, maxSock)
    BY <1>2, Pieces, Zenon
  <2>2. PICK k \in Nat : k = K * maxSock /\ k <= MemoryKB(chip)
    BY <1>2
  <2>3. KB * k <= KB * MemoryKB(chip)
    BY <1>2, <2>2 DEF KB
  <2> QED BY <2>1, <2>2, <2>3
<1>6. PieceAt(K, maxSock) \in Nat /\ KB * MemoryKB(chip) \in Nat
  <2>1. PieceAt(K, maxSock) \in Nat
    BY <1>2, Pieces
  <2>2. KB * MemoryKB(chip) \in Nat
    BY <1>2 DEF KB
  <2> QED BY <2>1, <2>2
<1> QED BY <1>1, <1>3, <1>4, <1>5, <1>6

(* One address space: the bytes of a buffer follow upon each other there.  *)
LEMMA BufferReachedByAddress ==
  ASSUME TypeOK, ToldTheChip, initialized, chip # "W5500", 0 < maxSock,
         NEW s \in 0 .. maxSock - 1, NEW off \in Nat, NEW i \in Nat, off + i < SSIZE
  PROVE  /\ Reached(SBASE(s) + off, i) = [mem |-> "tx", s |-> s, at |-> (off + i) % SSIZE]
         /\ Reached(RBASE(s) + off, i) = [mem |-> "rx", s |-> s, at |-> (off + i) % SSIZE]
<1>1. PICK K : K = SizeKB(chip, maxSock)
  OBVIOUS
<1>2. /\ SSIZE = K * KB /\ txKB = ProgrammedKB /\ rxKB = ProgrammedKB
      /\ K \in Nat /\ s \in Nat
  <2>1. K \in {2, 4, 8, 16}
    BY <1>1, SizeOfBuffers
  <2> QED BY <1>1, <2>1, Types DEF ToldTheChip
<1>3. PICK p, z, e \in Nat :
        /\ p = PieceAt(K, s) /\ z = SSIZE /\ e = KB * MemoryKB(chip)
        /\ 0 < z /\ p + z <= e /\ s * SSIZE = p
  <2>1. KB * MemoryKB(chip) \in Nat
    BY DEF KB, MemoryKB
  <2> QED BY <1>1, <1>2, <2>1, PieceInMemory DEF PieceAt
<1>4. PICK x \in Nat : x = off + i /\ x < z
  BY <1>3
<1>5. (off + i) % SSIZE = x
  <2>1. \A u, v \in Nat : u < v => u % v = u
    OBVIOUS
  <2> QED BY <1>3, <1>4, <2>1
<1>6. PICK tx, rx \in Nat :
        /\ tx = TxBase /\ rx = RxBase /\ tx + e = rx /\ rx + e <= 65536
  <2>1. CASE chip = "W5100"
    <3>1. TxBase = 16384 /\ RxBase = 24576 /\ e = 8192
      BY <1>3, <2>1 DEF TxBase, RxBase, MemoryKB, KB
    <3> QED BY <3>1
  <2>2. CASE chip # "W5100"
    <3>1. TxBase = 32768 /\ RxBase = 49152 /\ e = 16384
      BY <1>3, <2>2 DEF TxBase, RxBase, MemoryKB, KB
    <3> QED BY <3>1
  <2> QED BY <2>1, <2>2
<1>7. /\ SBASE(s) = tx + p /\ RBASE(s) = rx + p
      /\ Word(SBASE(s) + off + i) = tx + p + x /\ Word(RBASE(s) + off + i) = rx + p + x
  <2>1. \A u \in Nat : u < 65536 => Word(u) = u
    BY DEF Word
  <2>2. SBASE(s) = tx + p /\ RBASE(s) = rx + p
    BY <1>3, <1>6, <2>1 DEF SBASE, RBASE
  <2>3. /\ SBASE(s) + off + i = tx + p + x /\ tx + p + x < 65536 /\ tx + p + x \in Nat
        /\ RBASE(s) + off + i = rx + p + x /\ rx + p + x < 65536 /\ rx + p + x \in Nat
    BY <1>3, <1>4, <1>6, <2>2
  <2> QED BY <2>1, <2>2, <2>3
<1>8. /\ AreaByte("tx", tx + p + x, tx, ProgrammedKB) = [mem |-> "tx", s |-> s, at |-> x]
      /\ AreaByte("rx", rx + p + x, rx, ProgrammedKB) = [mem |-> "rx", s |-> s, at |-> x]
  <2>1. x < K * KB /\ p = PieceAt(K, s)
    BY <1>2, <1>3, <1>4
  <2>2. ASSUME NEW mem, NEW first \in Nat
        PROVE  AreaByte(mem, first + p + x, first, ProgrammedKB) = [mem |-> mem, s |-> s, at |-> x]
    <3>1. PICK a \in Nat : a = first + p + x
      OBVIOUS
    <3>2. a = first + PieceAt(K, s) + x
      BY <2>1, <3>1
    <3>3. AreaByte(mem, a, first, ProgrammedKB) = [mem |-> mem, s |-> s, at |-> x]
      BY <1>1, <1>2, <2>1, <3>2, AreaReached
    <3> QED BY <3>1, <3>3
  <2> QED BY <2>2
<1>9. /\ ReachedByAddress(tx + p + x) = AreaByte("tx", tx + p + x, tx, ProgrammedKB)
      /\ ReachedByAddress(rx + p + x) = AreaByte("rx", rx + p + x, rx, ProgrammedKB)
  <2>1. /\ tx + p + x >= tx /\ ~(tx + p + x >= rx) /\ rx + p + x >= rx
    BY <1>3, <1>4, <1>6
  <2> QED BY <1>2, <1>6, <2>1 DEF ReachedByAddress
<1>10. \A u : Reached(u, i) = ReachedByAddress(Word(u + i))
  BY DEF Reached
<1> QED BY <1>5, <1>7, <1>8, <1>9, <1>10

(* The W5500: the block select is the socket's, and the offset within the  *)
(* block wraps where the buffer does.                                      *)
LEMMA BufferReachedByBlock ==
  ASSUME TypeOK, ToldTheChip, initialized, chip = "W5500", 0 < maxSock,
         NEW s \in 0 .. maxSock - 1, NEW off \in Nat, off < SSIZE, NEW i \in Nat
  PROVE  /\ Reached(SBASE(s) + off, i) = [mem |-> "tx", s |-> s, at |-> (off + i) % SSIZE]
         /\ Reached(RBASE(s) + off, i) = [mem |-> "rx", s |-> s, at |-> (off + i) % SSIZE]
<1>1. PICK K : K = SizeKB(chip, maxSock)
  OBVIOUS
<1>2. /\ SSIZE = K * 1024 /\ txKB = ProgrammedKB /\ rxKB = ProgrammedKB
      /\ K \in {2, 4, 8, 16} /\ s \in Nat /\ s < maxSock /\ maxSock \in Nat
      /\ ProgrammedKB[s] = K
  BY <1>1, SizeOfBuffers, ProgrammedSizes, Types DEF ToldTheChip, KB
<1>3. \/ maxSock <= 1 /\ K = 16
      \/ ~(maxSock <= 1) /\ maxSock <= 2 /\ K = 8
      \/ ~(maxSock <= 1) /\ ~(maxSock <= 2) /\ maxSock <= 4 /\ K = 4
      \/ ~(maxSock <= 1) /\ ~(maxSock <= 2) /\ ~(maxSock <= 4) /\ maxSock <= 8 /\ K = 2
  BY <1>1, SizeClasses
<1>0. TxBase = 32768 /\ RxBase = 49152
  BY DEF TxBase, RxBase
<1>4. ASSUME NEW base \in {TxBase, RxBase}, NEW w, w = Word(s * SSIZE + base) + off
      PROVE  /\ w \in base .. base + 16383
             /\ BufferBlock(w) = 32 * s
             /\ Word(w + i) % (KB * K) = (off + i) % SSIZE
  <2>0. base \in {32768, 49152}
    BY <1>0
  <2>1. CASE maxSock <= 1 /\ K = 16
    <3>1. s = 0 /\ SSIZE = 16384 /\ KB * K = 16384 /\ base \in Nat
      BY <1>2, <2>0, <2>1 DEF KB
    <3>2. s * SSIZE + base = base
      BY <3>1
    <3>3. Word(base) = base
      BY <2>0 DEF Word
    <3>4. Word(s * SSIZE + base) = base
      BY <3>2, <3>3
    <3>5. ((base + off + i) % 65536) % 16384 = (off + i) % 16384
      BY <2>0
    <3> QED BY <1>4, <2>0, <2>1, <3>1, <3>4, <3>5 DEF BufferBlock, Word
  <2>2. CASE ~(maxSock <= 1) /\ maxSock <= 2 /\ K = 8
    <3>1. s <= 1 /\ SSIZE = 8192 /\ KB * K = 8192
      BY <1>2, <2>2 DEF KB
    <3>2. Word(s * SSIZE + base) = s * 8192 + base
      BY <1>2, <2>0, <3>1 DEF Word
    <3>3. ((s * 8192 + base + off) \div 8192) % 2 = s
      BY <1>2, <2>0, <3>1
    <3>4. ((s * 8192 + base + off + i) % 65536) % 8192 = (off + i) % 8192
      BY <1>2, <2>0
    <3>5. BufferBlock(s * 8192 + base + off) = 32 * s
      BY <2>2, <3>3 DEF BufferBlock
    <3>6. s * 8192 + base + off \in base .. base + 16383
      BY <1>2, <2>0, <3>1
    <3> QED BY <1>4, <2>0, <3>1, <3>2, <3>4, <3>5, <3>6 DEF Word
  <2>3. CASE ~(maxSock <= 1) /\ ~(maxSock <= 2) /\ maxSock <= 4 /\ K = 4
    <3>1. s <= 3 /\ SSIZE = 4096 /\ KB * K = 4096
      BY <1>2, <2>3 DEF KB
    <3>2. Word(s * SSIZE + base) = s * 4096 + base
      BY <1>2, <2>0, <3>1 DEF Word
    <3>3. ((s * 4096 + base + off) \div 4096) % 4 = s
      BY <1>2, <2>0, <3>1
    <3>4. ((s * 4096 + base + off + i) % 65536) % 4096 = (off + i) % 4096
      BY <1>2, <2>0
    <3>5. BufferBlock(s * 4096 + base + off) = 32 * s
      BY <2>3, <3>3 DEF BufferBlock
    <3>6. s * 4096 + base + off \in base .. base + 16383
      BY <1>2, <2>0, <3>1
    <3> QED BY <1>4, <2>0, <3>1, <3>2, <3>4, <3>5, <3>6 DEF Word
  <2>4. CASE ~(maxSock <= 1) /\ ~(maxSock <= 2) /\ ~(maxSock <= 4) /\ maxSock <= 8 /\ K = 2
    <3>1. s <= 7 /\ SSIZE = 2048 /\ KB * K = 2048
      BY <1>2, <2>4 DEF KB
    <3>2. Word(s * SSIZE + base) = s * 2048 + base
      BY <1>2, <2>0, <3>1 DEF Word
    <3>3. ((s * 2048 + base + off) \div 2048) % 8 = s
      BY <1>2, <2>0, <3>1
    <3>4. ((s * 2048 + base + off + i) % 65536) % 2048 = (off + i) % 2048
      BY <1>2, <2>0
    <3>5. BufferBlock(s * 2048 + base + off) = 32 * s
      BY <2>4, <3>3 DEF BufferBlock
    <3>6. s * 2048 + base + off \in base .. base + 16383
      BY <1>2, <2>0, <3>1
    <3> QED BY <1>4, <2>0, <3>1, <3>2, <3>4, <3>5, <3>6 DEF Word
  <2> QED BY <1>3, <2>1, <2>2, <2>3, <2>4
<1>5. PICK u, v : u = SBASE(s) + off /\ v = RBASE(s) + off
  OBVIOUS
<1>6. u = Word(s * SSIZE + TxBase) + off /\ v = Word(s * SSIZE + RxBase) + off
  BY <1>5 DEF SBASE, RBASE
<1>7. /\ u \in 32768 .. 49151 /\ BufferBlock(u) = 32 * s
      /\ Word(u + i) % (KB * K) = (off + i) % SSIZE
  <2>1. /\ u \in TxBase .. TxBase + 16383 /\ BufferBlock(u) = 32 * s
        /\ Word(u + i) % (KB * K) = (off + i) % SSIZE
    BY <1>4, <1>6
  <2> QED BY <1>0, <2>1
<1>8. /\ v \in 49152 .. 65535 /\ BufferBlock(v) = 32 * s
      /\ Word(v + i) % (KB * K) = (off + i) % SSIZE
  <2>1. /\ v \in RxBase .. RxBase + 16383 /\ BufferBlock(v) = 32 * s
        /\ Word(v + i) % (KB * K) = (off + i) % SSIZE
    BY <1>4, <1>6
  <2> QED BY <1>0, <2>1
<1>9. Control(u) = 32 * s + 16 /\ Control(v) = 32 * s + 24
  <2>1. /\ ~(u < 256) /\ ~(u < 32768) /\ u < 49152
        /\ ~(v < 256) /\ ~(v < 32768) /\ ~(v < 49152)
    BY <1>7, <1>8
  <2> QED BY <1>7, <1>8, <2>1 DEF Control
<1>10. /\ (32 * s + 16) \div 8 = 4 * s + 2 /\ (4 * s + 2) \div 4 = s /\ (4 * s + 2) % 4 = 2
       /\ (32 * s + 24) \div 8 = 4 * s + 3 /\ (4 * s + 3) \div 4 = s /\ (4 * s + 3) % 4 = 3
  BY <1>2
<1>11. /\ Reached(u, i) = BlockByte("tx", s, Word(u + i), txKB)
       /\ Reached(v, i) = BlockByte("rx", s, Word(v + i), rxKB)
  BY <1>9, <1>10 DEF Reached, ReachedByBlock
<1>12. \A mem, a : BlockByte(mem, s, a, ProgrammedKB) = [mem |-> mem, s |-> s, at |-> a % (KB * K)]
  BY <1>2 DEF BlockByte
<1>13. /\ Reached(u, i) = [mem |-> "tx", s |-> s, at |-> (off + i) % SSIZE]
       /\ Reached(v, i) = [mem |-> "rx", s |-> s, at |-> (off + i) % SSIZE]
  BY <1>2, <1>7, <1>8, <1>11, <1>12
<1> QED BY <1>5, <1>13

(* A socket's registers, on all three chips.                               *)
LEMMA RegisterReached ==
  ASSUME TypeOK, 0 < maxSock, NEW s \in 0 .. maxSock - 1,
         NEW a \in Nat, a < 255, NEW i \in 0 .. 1
  PROVE  Reached(RegisterOf(s, a), i) = [mem |-> "reg", s |-> s, at |-> a + i]
<1>1. /\ chip \in {"W5100", "W5200", "W5500"} /\ s \in Nat /\ s < SocketsOf(chip) /\ s < 8
      /\ SocketsOf(chip) \in {4, 8} /\ (SocketsOf(chip) = 4 <=> chip = "W5100")
  BY Types
<1>2. PICK b \in {1024, 4096, 16384} : b = RegBase /\ RegisterOf(s, a) = b + s * 256 + a
  BY <1>1 DEF RegBase, RegisterOf, Word
<1>3. Word(RegisterOf(s, a) + i) = b + s * 256 + (a + i)
  BY <1>1, <1>2 DEF Word
<1>4. /\ (b + s * 256 + (a + i)) % 256 = a + i
      /\ ((b + s * 256 + (a + i)) - b) \div 256 = s
  BY <1>1, <1>2
<1>5. CASE chip = "W5500"
  <2>1. b = 4096
    BY <1>2, <1>5 DEF RegBase
  <2>2. Control(RegisterOf(s, a)) = 32 * s + 8
    <3>1. /\ ~(4096 + s * 256 + a < 256) /\ 4096 + s * 256 + a < 32768
          /\ ((4096 + s * 256 + a) \div 256) % 8 = s
      BY <1>1
    <3> QED BY <1>2, <2>1, <3>1 DEF Control
  <2>3. (32 * s + 8) \div 8 = 4 * s + 1 /\ (4 * s + 1) \div 4 = s /\ (4 * s + 1) % 4 = 1
    BY <1>1
  <2> QED BY <1>3, <1>4, <1>5, <2>1, <2>2, <2>3 DEF Reached, ReachedByBlock
<1>6. CASE chip # "W5500"
  <2>1. b = IF chip = "W5100" THEN 1024 ELSE 16384
    BY <1>1, <1>2, <1>6 DEF RegBase
  <2>2. PICK w \in Nat : w = b + s * 256 + (a + i)
    BY <1>1, <1>2
  <2>3. /\ ~(w >= RxBase) /\ ~(w >= TxBase) /\ b <= w /\ w < b + 256 * SocketsOf(chip)
    BY <1>1, <1>6, <2>1, <2>2 DEF RxBase, TxBase
  <2>4. ReachedByAddress(w) = [mem |-> "reg", s |-> s, at |-> a + i]
    BY <1>2, <1>4, <2>2, <2>3 DEF ReachedByAddress
  <2> QED BY <1>3, <1>6, <2>2, <2>4 DEF Reached
<1> QED BY <1>5, <1>6

(***************************************************************************)
(* The inductive invariant                                                 *)
(***************************************************************************)

LEMMA AccessInvInit ==
  ASSUME Init
  PROVE  AccessInv
<1>1. /\ \E n \in Nat : maxSock = IF n < SocketsOf(chip) THEN n ELSE SocketsOf(chip)
      /\ SocketsOf(chip) \in {4, 8} /\ Sockets = 0 .. SocketsOf(chip) - 1
  BY ParameterAssumption DEF Init, SocketsOf, Sockets
<1>2. maxSock \in 0 .. SocketsOf(chip) /\ 0 \in Sockets
  BY <1>1
<1>3. /\ txKB \in [Sockets -> {0, 1, 2, 4, 8, 16}] /\ rxKB \in [Sockets -> {0, 1, 2, 4, 8, 16}]
  BY DEF Init
<1>4. want \in Target
  BY <1>2 DEF Init, Nowhere, Target, Offsets
<1>5. TypeOK
  <2>1. chip \in Chips /\ SSIZE = 2 * KB /\ initialized = FALSE /\ pc = "idle" /\ count = 0
    BY DEF Init
  <2>2. 0 \in 0 .. MaxPolls
    BY ParameterAssumption
  <2> QED BY <1>2, <1>3, <1>4, <2>1, <2>2 DEF TypeOK
<1> QED BY <1>5 DEF Init, AccessInv, ResetInv, ToldTheChip, HitsOwnMemory

LEMMA ResetStep ==
  ASSUME AccessInv, InitCall \/ ResetAnswered \/ ResetUnanswered
  PROVE  AccessInv'
<1>1. TypeOK /\ ResetInv /\ ToldTheChip /\ HitsOwnMemory
  BY DEF AccessInv
<1>2. /\ chip' = chip /\ maxSock' = maxSock /\ want' = want /\ hit' = hit
  BY DEF InitCall, ResetAnswered, ResetUnanswered
<1>3. Sockets' = Sockets /\ ProgrammedKB' = ProgrammedKB /\ Target' = Target
  BY <1>2 DEF Sockets, ProgrammedKB, Target
<1>4. HitsOwnMemory'
  BY <1>1, <1>2 DEF HitsOwnMemory
<1>5. CASE InitCall
  <2>1. TypeOK'
    BY <1>1, <1>2, <1>3, <1>5, ParameterAssumption DEF TypeOK, InitCall
  <2>2. ResetInv' /\ ToldTheChip'
    BY <1>5, ParameterAssumption DEF InitCall, ResetInv, ToldTheChip
  <2> QED BY <1>4, <2>1, <2>2 DEF AccessInv
<1>6. CASE ResetAnswered
  <2>1. SizeKB(chip, maxSock) * KB \in {2 * KB, 4 * KB, 8 * KB, 16 * KB}
    <3>1. SizeKB(chip, maxSock) \in {2, 4, 8, 16}
      BY <1>1, SizeClasses
    <3> QED BY <3>1
  <2>2. ProgrammedKB \in [Sockets -> {0, 1, 2, 4, 8, 16}]
    BY <1>1, ProgrammedSizes
  <2>3. TypeOK'
    BY <1>1, <1>2, <1>3, <1>6, <2>1, <2>2 DEF TypeOK, ResetAnswered
  <2>4. ResetInv'
    BY <1>6 DEF ResetAnswered, ResetInv
  <2>5. ToldTheChip'
    BY <1>2, <1>3, <1>6 DEF ResetAnswered, ToldTheChip
  <2> QED BY <1>4, <2>3, <2>4, <2>5 DEF AccessInv
<1>7. CASE ResetUnanswered
  <2>1. /\ count \in 0 .. MaxPolls /\ count < MaxPolls /\ MaxPolls \in Nat /\ count' = count + 1
        /\ pc' = IF count' < MaxPolls THEN "reset" ELSE "idle"
    BY <1>1, <1>7, ParameterAssumption
    DEF TypeOK, ResetInv, ResetUnanswered, Counted, PollsAgain
  <2>2. count' \in 0 .. MaxPolls /\ pc' \in {"idle", "reset"}
        /\ (pc' = "reset" => count' < MaxPolls)
    BY <2>1
  <2>3. TypeOK'
    BY <1>1, <1>2, <1>3, <1>7, <2>2 DEF TypeOK, ResetUnanswered
  <2>4. ResetInv'
    BY <1>1, <1>7, <2>2 DEF ResetUnanswered, ResetInv
  <2>5. ToldTheChip'
    BY <1>1, <1>2, <1>3, <1>7 DEF ResetUnanswered, ToldTheChip
  <2> QED BY <1>4, <2>3, <2>4, <2>5 DEF AccessInv
<1> QED BY <1>5, <1>6, <1>7

(* Every byte the library means to reach is a socket's, and is reached.    *)
LEMMA AccessStep ==
  ASSUME AccessInv, Access
  PROVE  AccessInv'
<1>1. TypeOK /\ ResetInv /\ ToldTheChip /\ HitsOwnMemory /\ initialized
  BY DEF AccessInv, Access
<1>2. /\ chip' = chip /\ maxSock' = maxSock /\ SSIZE' = SSIZE /\ initialized' = initialized
      /\ txKB' = txKB /\ rxKB' = rxKB /\ pc' = pc /\ count' = count
  BY DEF Access
<1>3. Sockets' = Sockets /\ ProgrammedKB' = ProgrammedKB /\ Target' = Target
  BY <1>2 DEF Sockets, ProgrammedKB, Target
<1>4. ASSUME NEW s \in 0 .. maxSock - 1
      PROVE  0 < maxSock /\ s \in Sockets
  BY <1>1, Types
<1>0. ASSUME NEW mem \in {"tx", "rx", "reg"}, NEW s \in Sockets, NEW n \in Offsets
      PROVE  [mem |-> mem, s |-> s, at |-> n] \in Target
  BY DEF Target
<1>5. SSIZE \in Nat /\ 0 < SSIZE /\ SSIZE <= 65536
  BY <1>1 DEF TypeOK, KB
<1>6. /\ hit' = want'
      /\ want' \in Target
  <2>1. CASE BufferAccess
    <3>1. PICK s \in 0 .. maxSock - 1, mem \in {"tx", "rx"},
               off \in Edges \cup {SSIZE - 1 - n : n \in Edges}, i \in Bytes :
            /\ 0 <= off /\ off < SSIZE
            /\ off + i < SSIZE \/ HasOffsetAddressMapping
            /\ want' = [mem |-> mem, s |-> s, at |-> (off + i) % SSIZE]
            /\ hit' = Reached((IF mem = "tx" THEN SBASE(s) ELSE RBASE(s)) + off, i)
      BY <2>1 DEF BufferAccess
    <3>2. off \in Nat /\ i \in Nat
      <4>1. off \in Int
        BY <1>5, ParameterAssumption
      <4> QED BY <3>1, <4>1, ParameterAssumption
    <3>3. 0 < maxSock /\ s \in Sockets
      BY <1>4
    <3>4. (off + i) % SSIZE \in Offsets
      BY <1>5, <3>2 DEF Offsets
    <3>5. /\ Reached(SBASE(s) + off, i) = [mem |-> "tx", s |-> s, at |-> (off + i) % SSIZE]
          /\ Reached(RBASE(s) + off, i) = [mem |-> "rx", s |-> s, at |-> (off + i) % SSIZE]
      <4>1. CASE chip = "W5500"
        BY <1>1, <3>1, <3>2, <3>3, <4>1, BufferReachedByBlock
      <4>2. CASE chip # "W5500"
        BY <1>1, <3>1, <3>2, <3>3, <4>2, BufferReachedByAddress DEF HasOffsetAddressMapping
      <4> QED BY <4>1, <4>2
    <3>6. hit' = [mem |-> mem, s |-> s, at |-> (off + i) % SSIZE]
      <4>1. CASE mem = "tx"
        BY <3>1, <3>5, <4>1
      <4>2. CASE mem = "rx"
        BY <3>1, <3>5, <4>2
      <4> QED BY <4>1, <4>2
    <3>7. want' \in Target
      <4>1. PICK n \in Offsets : want' = [mem |-> mem, s |-> s, at |-> n]
        BY <3>1, <3>4, Zenon
      <4>2. [mem |-> mem, s |-> s, at |-> n] \in Target
        BY <1>0, <3>3, Zenon
      <4> QED BY <4>1, <4>2
    <3> QED BY <3>1, <3>6, <3>7
  <2>2. CASE RegisterAccess
    <3>1. PICK s \in 0 .. maxSock - 1, a \in Registers, i \in 0 .. 1 :
            /\ want' = [mem |-> "reg", s |-> s, at |-> a + i]
            /\ hit' = Reached(RegisterOf(s, a), i)
      BY <2>2 DEF RegisterAccess
    <3>2. a \in Nat /\ a < 255 /\ 0 < maxSock /\ s \in Sockets
      BY <1>4, ParameterAssumption
    <3>3. Reached(RegisterOf(s, a), i) = [mem |-> "reg", s |-> s, at |-> a + i]
      BY <1>1, <3>2, RegisterReached
    <3>4. a + i \in Offsets
      BY <3>2 DEF Offsets
    <3>5. want' \in Target
      <4>1. PICK n \in Offsets : want' = [mem |-> "reg", s |-> s, at |-> n]
        BY <3>1, <3>4, Zenon
      <4>2. [mem |-> "reg", s |-> s, at |-> n] \in Target
        BY <1>0, <3>2, Zenon
      <4> QED BY <4>1, <4>2
    <3> QED BY <3>1, <3>3, <3>5
  <2> QED BY <2>1, <2>2 DEF Access
<1>7. TypeOK'
  BY <1>1, <1>2, <1>3, <1>6 DEF TypeOK
<1>8. ResetInv' /\ ToldTheChip' /\ HitsOwnMemory'
  BY <1>1, <1>2, <1>3, <1>6 DEF ResetInv, ToldTheChip, HitsOwnMemory
<1> QED BY <1>7, <1>8 DEF AccessInv

LEMMA AccessInvStep ==
  ASSUME AccessInv, [Next]_vars
  PROVE  AccessInv'
<1>1. CASE Next
  BY <1>1, ResetStep, AccessStep DEF Next
<1>2. CASE UNCHANGED vars
  <2>1. Sockets' = Sockets /\ ProgrammedKB' = ProgrammedKB /\ Target' = Target
    BY <1>2 DEF vars, Sockets, ProgrammedKB, Target
  <2> QED BY <1>2, <2>1 DEF vars, AccessInv, TypeOK, ResetInv, ToldTheChip, HitsOwnMemory
<1> QED BY <1>1, <1>2

(* Every access to a socket's buffers or registers reaches the byte it is  *)
(* meant for: for the three chips and every number of sockets, the base    *)
(* addresses, the block select of W5500Class::read and write and the sizes *)
(* init() chose fit together, at any offset and for any length.            *)
THEOREM AccessInvariant == Spec => []AccessInv
<1>1. Init => AccessInv
  BY AccessInvInit
<1>2. AccessInv /\ [Next]_vars => AccessInv'
  BY AccessInvStep
<1> QED BY <1>1, <1>2, PTL DEF Spec

LEMMA Divided ==
  ASSUME AccessInv
  PROVE  MemoryDivided
<1> SUFFICES ASSUME initialized, 0 < maxSock
             PROVE  ChipAgreesOnSize /\ MemoryNotOvercommitted
  <2>1. maxSock \in Nat
    BY Types DEF AccessInv
  <2> QED BY <2>1 DEF MemoryDivided
<1>1. PICK K : K = SizeKB(chip, maxSock)
  OBVIOUS
<1>2. /\ TypeOK /\ SSIZE = K * KB /\ txKB = ProgrammedKB /\ rxKB = ProgrammedKB
  BY <1>1 DEF AccessInv, ToldTheChip
<1>3. K \in {2, 4, 8, 16}
  BY <1>1, <1>2, SizeOfBuffers
<1>4. ChipAgreesOnSize
  <2>1. KB * K = K * KB
    BY <1>3 DEF KB
  <2> QED BY <1>1, <1>2, <2>1, ProgrammedSizes DEF ChipAgreesOnSize
<1>5. MemoryNotOvercommitted
  <2>1. PICK c : c = IF chip = "W5100" THEN maxSock ELSE SocketsOf(chip)
    OBVIOUS
  <2>2. PICK k \in Nat : k = KBBefore(ProgrammedKB)[c] /\ k <= MemoryKB(chip)
    <3>1. /\ KBBefore(ProgrammedKB)[c] = K * maxSock /\ K * maxSock <= MemoryKB(chip)
      <4>1. maxSock \in 0 .. maxSock
        BY <1>2, Types
      <4> QED BY <1>1, <1>2, <1>3, <2>1, <4>1, StartOfAreas
    <3>2. K * maxSock \in Nat
      BY <1>2, <1>3, Types
    <3> QED BY <3>1, <3>2
  <2>3. KB * k <= KB * MemoryKB(chip)
    BY <2>2 DEF KB, MemoryKB
  <2>4. Start(ProgrammedKB, c) <= KB * MemoryKB(chip)
    BY <2>2, <2>3 DEF Start
  <2> QED BY <1>2, <2>1, <2>4 DEF MemoryNotOvercommitted
<1> QED BY <1>4, <1>5

(* After init() the library's SSIZE is what the chip gives to each socket  *)
(* in use, and the chip is not asked for more memory than it has.          *)
THEOREM MemoryIsDivided == Spec => []MemoryDivided
<1>1. AccessInv => MemoryDivided
  BY Divided
<1> QED BY <1>1, AccessInvariant, PTL
=============================================================================
