------------------------- MODULE EthernetUdp_proofs -------------------------
(***************************************************************************)
(* Machine-checked proofs about an EthernetUDP object, for every size of   *)
(* the buffers, of the header, of the datagrams and of the reads and       *)
(* writes, every threshold and any number of datagrams.                    *)
(***************************************************************************)
EXTENDS EthernetUdp, SequenceTheorems, TLAPS

ReceiveInv == ReceiveTypeOK /\ InSync /\ NoWithheldRoom /\ Framed /\ ParseInv
SendingInv == SendTypeOK /\ PacketInv /\ SendInv
PlaceTypeOK == pc \in {"idle", "discard", "available", "header", "sendok", "timeout", "clear"}

LEMMA Halves == UdpInv <=> ReceiveInv /\ SendingInv /\ PlaceTypeOK
  BY DEF UdpInv, ReceiveInv, SendingInv, PlaceTypeOK, TypeOK

LEMMA HalvesNext == ReceiveInv' /\ SendingInv' /\ PlaceTypeOK' => UdpInv'
  BY DEF UdpInv, ReceiveInv, SendingInv, PlaceTypeOK, TypeOK

LEMMA Sizes ==
  /\ SSIZE \in Nat /\ Header \in Nat /\ 0 < Header
  /\ IncThreshold \in Nat /\ 0 < IncThreshold
  /\ IncMod \in Nat /\ IncThreshold <= IncMod
  BY ReceiveAssumption

(***************************************************************************)
(* The framing of the receive buffer                                       *)
(***************************************************************************)

LEMMA EndTypes ==
  ASSUME ends \in Seq(Nat)
  PROVE  /\ Len(ends) \in Nat /\ Arrived \in Nat
         /\ \A i \in 0 .. Len(ends) : End(i) \in Nat
  BY DEF End, Arrived

(* A datagram is queued behind the others, which stay where they are.      *)
LEMMA Queued ==
  ASSUME ends \in Seq(Nat), NEW e \in Nat, ends' = Append(ends, e)
  PROVE  /\ ends' \in Seq(Nat) /\ Len(ends') = Len(ends) + 1
         /\ \A i \in 0 .. Len(ends) : End(i)' = End(i)
         /\ \A i \in Nat : i = Len(ends) + 1 => End(i)' = e
         /\ Arrived' = e
<1>1. /\ Len(ends) \in Nat /\ ends' \in Seq(Nat) /\ Len(ends') = Len(ends) + 1
      /\ \A i \in 1 .. Len(ends) : ends'[i] = ends[i]
      /\ ends'[Len(ends) + 1] = e
  OBVIOUS
<1>2. Len(ends) + 1 # 0
  BY <1>1
<1>3. \A i \in 0 .. Len(ends) : i # 0 => i \in 1 .. Len(ends)
  BY <1>1
<1>4. \A i \in 0 .. Len(ends) : End(i)' = End(i)
  BY <1>1, <1>3 DEF End
<1>5. \A i \in Nat : i = Len(ends) + 1 => End(i)' = e
  BY <1>1, <1>2 DEF End
<1>6. Arrived' = e
  BY <1>1, <1>2 DEF Arrived, End
<1> QED BY <1>1, <1>4, <1>5, <1>6

(* A datagram lies behind the bytes read so far whole or not at all: the   *)
(* next header is there if anything is.                                    *)
LEMMA NextDatagram ==
  ASSUME ReceiveTypeOK, InSync, Framed, sock = "open", remaining = 0, got < Arrived
  PROVE  /\ parsed + 1 \in 1 .. Len(ends)
         /\ got = End(parsed) /\ got + Header <= End(parsed + 1)
         /\ End(parsed + 1) <= Arrived
         /\ Payload(parsed + 1) \in Nat
         /\ Announced(got) = {Payload(parsed + 1)}
<1>1. /\ got \in Nat /\ parsed \in Nat /\ Len(ends) \in Nat /\ ends \in Seq(Nat)
      /\ parsed <= Len(ends) /\ got = End(parsed)
  BY DEF ReceiveTypeOK, InSync
<1>2. \A i \in 0 .. Len(ends) : End(i) \in Nat
  BY <1>1, EndTypes
<1>3. parsed # Len(ends)
  BY <1>1 DEF Arrived
<1>4. parsed + 1 \in 1 .. Len(ends) /\ parsed \in 0 .. Len(ends) /\ parsed + 1 \in 0 .. Len(ends)
  BY <1>1, <1>3
<1>5. End(parsed) + Header <= End(parsed + 1)
  BY <1>1, <1>4 DEF Framed
<1>6. End(parsed + 1) <= Arrived
  <2>1. CASE parsed + 1 = Len(ends)
    BY <1>2, <1>4, <2>1 DEF Arrived
  <2>2. CASE parsed + 1 # Len(ends)
    <3>1. parsed + 1 < Len(ends) /\ Len(ends) \in 0 .. Len(ends)
      BY <1>1, <1>4, <2>2
    <3>2. End(parsed + 1) + Header <= End(Len(ends))
      BY <1>4, <3>1 DEF Framed
    <3> QED BY <1>2, <1>4, <3>1, <3>2, Sizes DEF Arrived
  <2> QED BY <2>1, <2>2
<1>7. Payload(parsed + 1) = End(parsed + 1) - End(parsed) - Header
  BY <1>1 DEF Payload
<1>8. Payload(parsed + 1) \in Nat
  BY <1>2, <1>4, <1>5, <1>7, Sizes
<1>9. \A i \in 1 .. Len(ends) : End(i - 1) = got <=> i = parsed + 1
  <2> SUFFICES ASSUME NEW i \in 1 .. Len(ends) PROVE End(i - 1) = got <=> i = parsed + 1
    OBVIOUS
  <2>1. i - 1 \in 0 .. Len(ends) /\ i - 1 \in Nat
    BY <1>1
  <2>2. CASE i - 1 < parsed
    <3>1. End(i - 1) + Header <= End(parsed)
      BY <1>4, <2>1, <2>2 DEF Framed
    <3> QED BY <1>1, <1>2, <1>4, <2>1, <2>2, <3>1, Sizes
  <2>3. CASE parsed < i - 1
    <3>1. End(parsed) + Header <= End(i - 1)
      BY <1>4, <2>1, <2>3 DEF Framed
    <3> QED BY <1>1, <1>2, <1>4, <2>1, <2>3, <3>1, Sizes
  <2>4. CASE i - 1 = parsed
    BY <1>1, <2>4
  <2> QED BY <1>1, <2>1, <2>2, <2>3, <2>4
<1>10. Announced(got) = {Payload(parsed + 1)}
  BY <1>4, <1>9 DEF Announced
<1> QED BY <1>1, <1>4, <1>5, <1>6, <1>8, <1>10

(***************************************************************************)
(* socketRecv                                                              *)
(***************************************************************************)

(* What the library believes to be there never exceeds what is, and        *)
(* whenever the belief is short of what is asked for it is made exact.     *)
LEMMA ReadableBytes ==
  ASSUME ReceiveTypeOK, InSync, sock = "open", NEW n \in Nat, 0 < n
  PROVE  /\ Readable(n) \in Nat /\ got + Readable(n) <= Arrived
         /\ Readable(n) < n => Readable(n) = Arrived - got
         /\ Readable(n) = 0 => ss.RX_RSR = 0
         /\ Readable(n) = 0 => RecvReturns(n) = -1
         /\ Readable(n) # 0 => /\ RecvReturns(n) \in 1 .. n
                               /\ RecvReturns(n) <= Readable(n)
         /\ n <= Arrived - got => RecvReturns(n) = n
<1>1. /\ got \in Nat /\ freed \in Nat /\ Arrived \in Nat
      /\ ss.RX_RSR \in Nat /\ ss.RX_inc \in Nat
      /\ got + ss.RX_RSR <= Arrived /\ got = freed + ss.RX_inc
  BY EndTypes DEF ReceiveTypeOK, InSync
<1> DEFINE m == Readable(n)
<1>2. m = IF ss.RX_RSR < n THEN Arrived - got ELSE ss.RX_RSR
  BY <1>1 DEF Readable, RsrRegister
<1>3. RecvReturns(n) = IF m = 0 THEN -1 ELSE IF m < n THEN m ELSE n
  BY DEF RecvReturns, MinOf
<1> HIDE DEF m
<1>4. /\ m \in Nat /\ got + m <= Arrived /\ (m < n => m = Arrived - got)
      /\ (m = 0 => ss.RX_RSR = 0)
  <2>1. CASE ss.RX_RSR < n
    <3>1. m = Arrived - got
      BY <1>2, <2>1
    <3>2. Arrived - got \in Nat /\ got + (Arrived - got) = Arrived
          /\ (Arrived - got = 0 => ss.RX_RSR = 0)
      BY <1>1
    <3> QED BY <3>1, <3>2, <1>1
  <2>2. CASE ~(ss.RX_RSR < n)
    <3>1. m = ss.RX_RSR
      BY <1>2, <2>2
    <3> QED BY <1>1, <2>2, <3>1
  <2> QED BY <2>1, <2>2
<1>5. /\ m = 0 => RecvReturns(n) = -1
      /\ m # 0 => RecvReturns(n) \in 1 .. n /\ RecvReturns(n) <= m
      /\ n <= Arrived - got => RecvReturns(n) = n
  BY <1>1, <1>3, <1>4
<1> QED BY <1>4, <1>5 DEF m

(* socketRecv takes out what it returns, and the accounts balance again.   *)
LEMMA RecvBalances ==
  ASSUME ReceiveTypeOK, InSync, NoWithheldRoom, sock = "open", NEW n \in Nat, 0 < n,
         Recv(n), ends' = ends
  PROVE  /\ got' \in Nat /\ freed' \in Nat /\ ss' \in [RX_RSR : Nat, RX_inc : Nat]
         /\ got' + ss'.RX_RSR <= Arrived' /\ got' = freed' + ss'.RX_inc
         /\ NoWithheldRoom'
         /\ got' = got + (IF RecvReturns(n) > 0 THEN RecvReturns(n) ELSE 0)
<1>1. /\ got \in Nat /\ freed \in Nat /\ Arrived \in Nat
      /\ ss \in [RX_RSR : Nat, RX_inc : Nat]
      /\ ss.RX_RSR \in Nat /\ ss.RX_inc \in Nat
      /\ got + ss.RX_RSR <= Arrived /\ got = freed + ss.RX_inc
  BY EndTypes DEF ReceiveTypeOK, InSync
<1>2. Arrived' = Arrived
  BY DEF Arrived, End
<1>3. /\ Readable(n) \in Nat /\ got + Readable(n) <= Arrived
      /\ Readable(n) = 0 => ss.RX_RSR = 0 /\ RecvReturns(n) = -1
      /\ Readable(n) # 0 => RecvReturns(n) \in 1 .. n /\ RecvReturns(n) <= Readable(n)
  BY ReadableBytes
<1>4. CASE Readable(n) = 0
  <2>1. ss' = [ss EXCEPT !.RX_RSR = 0] /\ got' = got /\ freed' = freed
    BY <1>4 DEF Recv
  <2>2. /\ ss' \in [RX_RSR : Nat, RX_inc : Nat] /\ ss'.RX_RSR = 0 /\ ss'.RX_inc = ss.RX_inc
        /\ ss.RX_inc = 0
    BY <1>1, <1>3, <1>4, <2>1 DEF NoWithheldRoom
  <2> QED BY <1>1, <1>2, <1>3, <1>4, <2>1, <2>2 DEF NoWithheldRoom
<1>5. CASE Readable(n) # 0
  <2> DEFINE r == RecvReturns(n)
             rsr == Readable(n) - r
             inc == ss.RX_inc + r
  <2>1. /\ got' = got + r
        /\ ss' = [RX_RSR |-> rsr, RX_inc |-> IF CommitNow(inc, rsr) THEN 0 ELSE inc % IncMod]
        /\ freed' = IF CommitNow(inc, rsr) THEN got' ELSE freed
    BY <1>5 DEF Recv
  <2>2. r \in Nat /\ 0 < r /\ rsr \in Nat /\ inc \in Nat /\ got + r \in Nat
    BY <1>1, <1>3, <1>5
  <2>3. got + r + rsr <= Arrived /\ got + r = freed + inc
    BY <1>1, <1>3, <1>5, <2>2
  <2>4. ~CommitNow(inc, rsr) => inc % IncMod = inc
    <3> HIDE DEF inc, rsr
    <3>1. ~CommitNow(inc, rsr) => inc < IncMod
      BY <2>2, Sizes DEF CommitNow
    <3>2. \A a, b \in Nat : a < b => a % b = a
      OBVIOUS
    <3> QED BY <2>2, <3>1, <3>2, Sizes
  <2>5. rsr = 0 => CommitNow(inc, rsr)
    BY DEF CommitNow
  <2>6. PICK k \in Nat : /\ k = IF CommitNow(inc, rsr) THEN 0 ELSE inc
                         /\ ss' = [RX_RSR |-> rsr, RX_inc |-> k]
    BY <2>1, <2>2, <2>4
  <2>7. PICK g \in Nat : g = got + r /\ got' = g
    BY <2>1, <2>2
  <2>8. freed' = IF CommitNow(inc, rsr) THEN g ELSE freed
    BY <2>1, <2>7
  <2> HIDE DEF inc, rsr, r
  <2>9. ss' \in [RX_RSR : Nat, RX_inc : Nat] /\ ss'.RX_RSR = rsr /\ ss'.RX_inc = k
    BY <2>2, <2>6
  <2>10. freed' \in Nat /\ got' = freed' + ss'.RX_inc /\ got' + ss'.RX_RSR <= Arrived'
    <3>1. CASE CommitNow(inc, rsr)
      BY <1>1, <1>2, <2>2, <2>3, <2>6, <2>7, <2>8, <2>9, <3>1
    <3>2. CASE ~CommitNow(inc, rsr)
      BY <1>1, <1>2, <2>2, <2>3, <2>6, <2>7, <2>8, <2>9, <3>2
    <3> QED BY <3>1, <3>2
  <2>11. NoWithheldRoom'
    BY <2>5, <2>6, <2>9 DEF NoWithheldRoom
  <2> QED BY <2>2, <2>7, <2>9, <2>10, <2>11 DEF r
<1> QED BY <1>4, <1>5

(***************************************************************************)
(* The receiving calls                                                     *)
(***************************************************************************)

LEMMA EndsKept ==
  ASSUME ends' = ends
  PROVE  /\ Arrived' = Arrived /\ Framed' = Framed
         /\ \A i \in Nat : End(i)' = End(i) /\ Payload(i)' = Payload(i)
  BY DEF Arrived, End, Payload, Framed

LEMMA NothingQueued ==
  ASSUME ends' = <<>>, got' = 0, freed' = 0, parsed' = 0, ss' = [RX_RSR |-> 0, RX_inc |-> 0]
  PROVE  /\ ends' \in Seq(Nat) /\ Len(ends') = 0 /\ Arrived' = 0 /\ Framed'
         /\ ss' \in [RX_RSR : Nat, RX_inc : Nat] /\ NoWithheldRoom'
         /\ sock' = "open" => (remaining' = 0 => InSync')
<1>1. Len(ends') = 0 /\ ends' \in Seq(Nat)
  OBVIOUS
<1>2. Arrived' = 0
  BY <1>1 DEF Arrived, End
<1>3. Framed'
  BY <1>1 DEF Framed
<1>4. ss' \in [RX_RSR : Nat, RX_inc : Nat] /\ NoWithheldRoom'
  BY DEF NoWithheldRoom
<1>5. End(0)' = 0
  BY DEF End
<1>6. remaining' = 0 => InSync'
  BY <1>1, <1>2 DEF InSync, End
<1> QED BY <1>1, <1>2, <1>3, <1>4, <1>6

LEMMA ReceiveStarts == ReceiveInit => ReceiveInv
<1> SUFFICES ASSUME ReceiveInit PROVE ReceiveInv
  OBVIOUS
<1> USE DEF ReceiveInit
<1>1. ends \in Seq(Nat) /\ Len(ends) = 0
  OBVIOUS
<1>2. Framed
  BY <1>1 DEF Framed
<1>3. ReceiveTypeOK
  BY <1>1, ReceiveAssumption DEF ReceiveTypeOK
<1> QED BY <1>2, <1>3 DEF ReceiveInv, InSync, NoWithheldRoom, ParseInv

LEMMA ReceiveBegins ==
  ASSUME ReceiveInv, BeginOpens PROVE ReceiveInv'
<1> USE DEF BeginOpens, BegunRemaining
<1>1. /\ ends' \in Seq(Nat) /\ Len(ends') = 0 /\ Framed'
      /\ ss' \in [RX_RSR : Nat, RX_inc : Nat] /\ NoWithheldRoom' /\ InSync'
  BY NothingQueued
<1>2. ReceiveTypeOK'
  BY <1>1, ReceiveAssumption DEF ReceiveTypeOK
<1> QED BY <1>1, <1>2 DEF ReceiveInv, ParseInv

LEMMA ReceiveGivesUp ==
  ASSUME ReceiveInv, Stop \/ BeginFails PROVE ReceiveInv'
<1> USE DEF Stop, BeginFails, GivesSocketUp
<1>1. /\ ends' \in Seq(Nat) /\ Len(ends') = 0 /\ Framed'
      /\ ss' \in [RX_RSR : Nat, RX_inc : Nat] /\ NoWithheldRoom'
  BY NothingQueued
<1>2. ReceiveTypeOK'
  BY <1>1, ReceiveAssumption DEF ReceiveTypeOK, ReceiveInv
<1>3. InSync' /\ ParseInv'
  BY DEF InSync, ParseInv
<1> QED BY <1>1, <1>2, <1>3 DEF ReceiveInv

LEMMA ReceiveArrives ==
  ASSUME ReceiveInv, DatagramArrives PROVE ReceiveInv'
<1> USE DEF ReceiveInv
<1>1. PICK n \in Payloads : ends' = Append(ends, Arrived + Header + n)
  BY DEF DatagramArrives
<1>2. /\ sock = "open" /\ Len(ends) < MaxDatagrams
      /\ UNCHANGED <<sock, freed, ss, got, remaining, pc, result, parsed>>
  BY DEF DatagramArrives
<1>3. n \in Nat /\ MaxDatagrams \in Nat
  BY ReceiveAssumption
<1>4. /\ Len(ends) \in Nat /\ ends \in Seq(Nat) /\ Arrived \in Nat
      /\ \A i \in 0 .. Len(ends) : End(i) \in Nat
  BY EndTypes DEF ReceiveTypeOK
<1>5. PICK e \in Nat : e = Arrived + Header + n
  BY <1>3, <1>4, Sizes
<1>6. /\ ends' \in Seq(Nat) /\ Len(ends') = Len(ends) + 1
      /\ \A i \in 0 .. Len(ends) : End(i)' = End(i)
      /\ \A i \in Nat : i = Len(ends) + 1 => End(i)' = e
      /\ Arrived' = e
  BY <1>1, <1>4, <1>5, Queued
<1>7. \A i \in 0 .. Len(ends) : End(i) + Header <= e
  <2> SUFFICES ASSUME NEW i \in 0 .. Len(ends) PROVE End(i) + Header <= e
    OBVIOUS
  <2>1. CASE i = Len(ends)
    BY <1>3, <1>4, <1>5, <2>1, Sizes DEF Arrived
  <2>2. CASE i # Len(ends)
    <3>1. i < Len(ends) /\ Len(ends) \in 0 .. Len(ends)
      BY <1>4, <2>2
    <3>2. End(i) + Header <= Arrived
      BY <3>1 DEF Framed, Arrived
    <3> QED BY <1>3, <1>4, <1>5, <3>2, Sizes
  <2> QED BY <2>1, <2>2
<1>8. Framed'
  <2> SUFFICES ASSUME NEW i \in 0 .. Len(ends) + 1, NEW j \in 0 .. Len(ends) + 1, i < j
               PROVE  End(i)' + Header <= End(j)'
    BY <1>6 DEF Framed
  <2>1. i \in 0 .. Len(ends)
    BY <1>4
  <2>2. CASE j = Len(ends) + 1
    BY <1>4, <1>6, <1>7, <2>1, <2>2
  <2>3. CASE j # Len(ends) + 1
    <3>1. j \in 0 .. Len(ends)
      BY <1>4, <2>3
    <3> QED BY <1>6, <2>1, <3>1 DEF Framed
  <2> QED BY <2>2, <2>3
<1>9. ReceiveTypeOK'
  BY <1>2, <1>3, <1>4, <1>6 DEF ReceiveTypeOK
<1>10. InSync'
  <2>1. /\ got \in Nat /\ ss.RX_RSR \in Nat /\ parsed \in Nat /\ parsed <= Len(ends)
        /\ got + remaining = End(parsed) /\ got + ss.RX_RSR <= Arrived
        /\ got = freed + ss.RX_inc
    BY <1>2 DEF ReceiveTypeOK, InSync
  <2>2. parsed \in 0 .. Len(ends)
    BY <1>4, <2>1
  <2>3. End(parsed)' = End(parsed)
    BY <1>2, <1>6, <2>2 DEF End
  <2>4. got + ss.RX_RSR <= e
    BY <1>3, <1>4, <1>5, <2>1, Sizes
  <2> QED BY <1>2, <1>4, <1>6, <2>1, <2>3, <2>4 DEF InSync
<1> QED BY <1>2, <1>8, <1>9, <1>10 DEF NoWithheldRoom, ParseInv

LEMMA ReceiveParses ==
  ASSUME ReceiveInv, ParseCall PROVE ReceiveInv'
<1> USE DEF ReceiveInv, ParseCall
<1>1. ReceiveTypeOK' /\ Framed' /\ NoWithheldRoom'
  BY EndsKept DEF ReceiveTypeOK, NoWithheldRoom
<1>2. InSync'
  BY DEF InSync, End, Arrived
<1>3. ParseInv'
  <2>1. remaining \in Nat /\ (~(remaining > 0) => remaining = 0)
    BY DEF ReceiveTypeOK
  <2> QED BY <2>1 DEF ParseInv
<1> QED BY <1>1, <1>2, <1>3

(* What a call of socketRecv for part of the current datagram does to the  *)
(* invariant: the library stays in step.                                   *)
LEMMA ReceiveTakes ==
  ASSUME ReceiveInv, sock = "open", NEW n \in Nat, 0 < n, n <= remaining, Recv(n),
         remaining' = Left(remaining, n, RecvReturns(n)), UNCHANGED <<sock, ends, parsed>>,
         pc' \in {"idle", "discard", "available"},
         pc' = "discard" => remaining' > 0, pc' = "available" => ~(remaining' > 0),
         result' \in Int, -1 <= result'
  PROVE  /\ ReceiveInv'
         /\ remaining' \in 0 .. remaining
         /\ remaining' # remaining => remaining' < remaining
<1> USE DEF ReceiveInv
<1>1. /\ got \in Nat /\ remaining \in Nat /\ parsed \in Nat /\ ends \in Seq(Nat)
      /\ parsed <= Len(ends) /\ got + remaining = End(parsed)
      /\ Len(ends) <= MaxDatagrams
  BY DEF ReceiveTypeOK, InSync
<1>2. /\ got' \in Nat /\ freed' \in Nat /\ ss' \in [RX_RSR : Nat, RX_inc : Nat]
      /\ got' + ss'.RX_RSR <= Arrived' /\ got' = freed' + ss'.RX_inc
      /\ NoWithheldRoom'
      /\ got' = got + (IF RecvReturns(n) > 0 THEN RecvReturns(n) ELSE 0)
  BY RecvBalances
<1>3. RecvReturns(n) = -1 \/ RecvReturns(n) \in 1 .. n
  <2>1. Readable(n) = 0 \/ Readable(n) # 0
    OBVIOUS
  <2> QED BY <2>1, ReadableBytes
<1>4. PICK g, l \in Nat :
        /\ got' = g /\ remaining' = l
        /\ g + l = got + remaining /\ l <= remaining
  <2>1. CASE RecvReturns(n) = -1
    <3>1. got' = got /\ remaining' = remaining
      BY <1>1, <1>2, <2>1 DEF Left
    <3> QED BY <1>1, <3>1
  <2>2. CASE RecvReturns(n) \in 1 .. n
    <3> DEFINE r == RecvReturns(n)
    <3>1. r \in Nat /\ r > 0 /\ r <= n
      BY <2>2
    <3>2. got' = got + r /\ remaining' = remaining - r
      BY <1>2, <3>1 DEF Left
    <3> HIDE DEF r
    <3>3. /\ got + r \in Nat /\ remaining - r \in Nat
          /\ (got + r) + (remaining - r) = got + remaining /\ remaining - r <= remaining
      BY <1>1, <3>1
    <3> QED BY <3>2, <3>3
  <2> QED BY <1>3, <2>1, <2>2
<1>5. Framed' /\ End(parsed)' = End(parsed) /\ Len(ends') = Len(ends)
  BY EndsKept DEF End
<1>6. ReceiveTypeOK'
  BY <1>1, <1>2, <1>4 DEF ReceiveTypeOK
<1>7. InSync'
  BY <1>1, <1>2, <1>4, <1>5 DEF InSync
<1>8. ParseInv'
  BY <1>4 DEF ParseInv
<1> QED BY <1>1, <1>2, <1>4, <1>5, <1>6, <1>7, <1>8

LEMMA ReceiveDiscards ==
  ASSUME ReceiveInv, ParseDiscard
  PROVE  ReceiveInv' /\ remaining' \in 0 .. remaining
<1> USE DEF ParseDiscard
<1>1. sock = "open" /\ remaining \in Nat /\ 0 < remaining /\ remaining <= remaining
      /\ result \in Int /\ -1 <= result
  BY DEF ReceiveInv, ParseInv, ReceiveTypeOK
<1>2. pc' \in {"idle", "discard", "available"}
  OBVIOUS
<1>3. (pc' = "discard" => remaining' > 0) /\ (pc' = "available" => ~(remaining' > 0))
  OBVIOUS
<1>4. result' \in Int /\ -1 <= result' /\ UNCHANGED <<sock, ends, parsed>>
  BY <1>1
<1>5. remaining' = Left(remaining, remaining, RecvReturns(remaining)) /\ Recv(remaining)
  OBVIOUS
<1> HIDE DEF ParseDiscard
<1>6. PICK n \in Nat : n = remaining
  BY <1>1
<1>7. Recv(n) /\ remaining' = Left(remaining, n, RecvReturns(n)) /\ 0 < n /\ n <= remaining
  BY <1>1, <1>5, <1>6
<1> QED BY <1>1, <1>2, <1>3, <1>4, <1>7, ReceiveTakes

LEMMA ReceiveReads ==
  ASSUME ReceiveInv, Read
  PROVE  ReceiveInv' /\ remaining' \in 0 .. remaining
<1>1. /\ pc = "idle" /\ sock = "open" /\ UNCHANGED <<sock, ends, pc, parsed>>
      /\ remaining \in Nat
  BY DEF Read, ReceiveInv, ReceiveTypeOK
<1>2. CASE remaining = 0
  <2>1. result' = -1 /\ UNCHANGED <<ss, got, freed, remaining>>
    BY <1>2 DEF Read
  <2>2. ReceiveTypeOK' /\ Framed' /\ NoWithheldRoom' /\ ParseInv'
    BY <1>1, <2>1, EndsKept DEF ReceiveInv, ReceiveTypeOK, NoWithheldRoom, ParseInv
  <2>3. InSync'
    BY <1>1, <2>1 DEF ReceiveInv, InSync, End, Arrived
  <2> QED BY <1>1, <2>1, <2>2, <2>3 DEF ReceiveInv
<1>3. CASE remaining # 0
  <2>1. PICK n \in ReadLens \cup {1} :
          /\ Recv(MinOf(remaining, n)) /\ result' = RecvReturns(MinOf(remaining, n))
          /\ remaining' = Left(remaining, n, RecvReturns(MinOf(remaining, n)))
    BY <1>3 DEF Read
  <2>2. n \in Nat /\ 0 < n
    BY ReceiveAssumption
  <2>3. PICK a \in Nat : a = MinOf(remaining, n) /\ 0 < a /\ a <= remaining
    BY <1>1, <1>3, <2>2 DEF MinOf
  <2>4. Recv(a) /\ result' = RecvReturns(a) /\ remaining' = Left(remaining, a, RecvReturns(a))
    BY <2>1, <2>3 DEF Left
  <2>5. RecvReturns(a) = -1 \/ RecvReturns(a) \in 1 .. a
    <3>1. Readable(a) = 0 \/ Readable(a) # 0
      OBVIOUS
    <3> QED BY <1>1, <2>3, <3>1, ReadableBytes DEF ReceiveInv
  <2>6. result' \in Int /\ -1 <= result'
    BY <2>3, <2>4, <2>5
  <2> QED BY <1>1, <2>3, <2>4, <2>6, ReceiveTakes
<1> QED BY <1>2, <1>3

LEMMA ReceiveLooks ==
  ASSUME ReceiveInv, ParseAvailable PROVE ReceiveInv'
<1> USE DEF ReceiveInv
<1>1. /\ got \in Nat /\ freed \in Nat /\ Arrived \in Nat /\ remaining = 0
      /\ ss \in [RX_RSR : Nat, RX_inc : Nat]
      /\ ss.RX_RSR \in Nat /\ ss.RX_inc \in Nat
      /\ sock = "open" /\ got + ss.RX_RSR <= Arrived /\ got = freed + ss.RX_inc
  BY EndTypes DEF ParseAvailable, ReceiveTypeOK, InSync, ParseInv
<1>2. PICK a \in Nat :
        a = Available /\ got + a <= Arrived /\ (a = 0 => ss.RX_inc = 0)
  <2>1. CASE ss.RX_RSR = 0
    <3>1. Available = Arrived - freed - ss.RX_inc
      BY <2>1 DEF Available, RsrRegister
    <3>2. /\ Arrived - freed - ss.RX_inc \in Nat
          /\ got + (Arrived - freed - ss.RX_inc) <= Arrived /\ ss.RX_inc = 0
      BY <1>1, <2>1 DEF NoWithheldRoom
    <3> QED BY <3>1, <3>2
  <2>2. CASE ss.RX_RSR # 0
    <3>1. Available = ss.RX_RSR
      BY <2>2 DEF Available
    <3> QED BY <1>1, <2>2, <3>1
  <2> QED BY <2>1, <2>2
<1>3. /\ ss' = [ss EXCEPT !.RX_RSR = a]
      /\ UNCHANGED <<sock, ends, freed, got, remaining, parsed>>
      /\ pc' \in {"header", "idle"} /\ (pc' = "header" => a > 0)
      /\ result' = result \/ result' = 0
  BY <1>2 DEF ParseAvailable
<1>4. /\ ss' \in [RX_RSR : Nat, RX_inc : Nat] /\ ss'.RX_RSR = a /\ ss'.RX_inc = ss.RX_inc
  BY <1>1, <1>3
<1>5. ReceiveTypeOK' /\ Framed'
  BY <1>3, <1>4, EndsKept DEF ReceiveTypeOK
<1>6. InSync'
  BY <1>1, <1>2, <1>3, <1>4, EndsKept DEF InSync, End
<1>7. NoWithheldRoom' /\ ParseInv'
  BY <1>1, <1>2, <1>3, <1>4 DEF NoWithheldRoom, ParseInv
<1> QED BY <1>5, <1>6, <1>7

(* parsePacket() finds the next header where it looks for it.              *)
LEMMA ReceiveTakesHeader ==
  ASSUME ReceiveInv, ParseHeader
  PROVE  /\ ReceiveInv'
         /\ remaining = 0 /\ remaining' = Payload(parsed + 1) /\ parsed' = parsed + 1
         /\ parsed + 1 \in 1 .. Len(ends)
<1> USE DEF ReceiveInv
<1>1. /\ pc = "header" /\ pc' = "idle" /\ UNCHANGED <<sock, ends>> /\ Recv(Header)
      /\ sock = "open" /\ remaining = 0 /\ ss.RX_RSR > 0
  BY DEF ParseHeader, ParseInv
<1>2. /\ got \in Nat /\ ss.RX_RSR \in Nat /\ parsed \in Nat /\ ends \in Seq(Nat)
      /\ Len(ends) \in Nat /\ Len(ends) <= MaxDatagrams
      /\ Arrived \in Nat /\ got + ss.RX_RSR <= Arrived
  BY <1>1, EndTypes DEF ReceiveTypeOK, InSync
<1>3. got < Arrived
  BY <1>1, <1>2
<1>4. /\ parsed + 1 \in 1 .. Len(ends)
      /\ got = End(parsed) /\ got + Header <= End(parsed + 1)
      /\ End(parsed + 1) <= Arrived
      /\ Payload(parsed + 1) \in Nat
      /\ Announced(got) = {Payload(parsed + 1)}
  BY <1>1, <1>3, NextDatagram
<1>5. /\ \A i \in 0 .. Len(ends) : End(i) \in Nat
      /\ parsed + 1 \in 0 .. Len(ends) /\ parsed \in 0 .. Len(ends)
  BY <1>2, <1>4, EndTypes
<1>6. Header <= Arrived - got
  BY <1>2, <1>4, <1>5, Sizes
<1>7. RecvReturns(Header) = Header
  BY <1>1, <1>6, ReadableBytes, Sizes
<1>8. PICK p \in Nat : /\ p = Payload(parsed + 1) /\ remaining' = p /\ result' = p
                       /\ parsed' = parsed + 1
  BY <1>4, <1>7, Sizes DEF ParseHeader
<1>9. PICK g \in Nat : g = got + Header /\ got' = g
  BY <1>1, <1>2, <1>7, RecvBalances, Sizes
<1>10. /\ freed' \in Nat /\ ss' \in [RX_RSR : Nat, RX_inc : Nat]
       /\ got' + ss'.RX_RSR <= Arrived' /\ got' = freed' + ss'.RX_inc
       /\ NoWithheldRoom'
  BY <1>1, RecvBalances, Sizes
<1>11. p = End(parsed + 1) - End(parsed) - Header
  BY <1>2, <1>8 DEF Payload
<1>12. g + p = End(parsed + 1)
  <2>1. PICK a, b \in Nat : a = End(parsed) /\ b = End(parsed + 1)
    BY <1>5
  <2>2. g = a + Header /\ p = b - a - Header
    BY <1>4, <1>9, <1>11, <2>1
  <2>3. g + p = b
    BY <2>1, <2>2, Sizes
  <2> QED BY <2>1, <2>3
<1>13. PICK k \in Nat : k = parsed + 1
  BY <1>2
<1>14. End(parsed)' = End(k) /\ Framed' /\ Len(ends') = Len(ends)
  BY <1>1, <1>8, <1>13, EndsKept DEF End
<1>15. ReceiveTypeOK'
  BY <1>1, <1>2, <1>8, <1>9, <1>10, <1>13 DEF ReceiveTypeOK
<1>16. InSync'
  BY <1>1, <1>4, <1>8, <1>9, <1>10, <1>12, <1>13, <1>14 DEF InSync
<1>17. ParseInv'
  BY <1>1 DEF ParseInv
<1> QED BY <1>1, <1>4, <1>8, <1>10, <1>14, <1>15, <1>16, <1>17

(* The sending calls leave what has been received alone.                   *)
LEMMA ReceiveKept ==
  ASSUME ReceiveInv, UNCHANGED <<sock, recvVars>>,
         pc' = pc \/ pc' \notin {"discard", "available", "header"},
         result' \in Int, -1 <= result'
  PROVE  ReceiveInv'
<1> USE DEF ReceiveInv, recvVars
<1>1. ReceiveTypeOK' /\ Framed' /\ NoWithheldRoom'
  BY EndsKept DEF ReceiveTypeOK, NoWithheldRoom
<1>2. InSync'
  BY DEF InSync, End, Arrived
<1>3. ParseInv'
  BY DEF ParseInv
<1> QED BY <1>1, <1>2, <1>3

(***************************************************************************)
(* The sending calls                                                       *)
(***************************************************************************)

LEMMA TxSizes == TxSize \in Nat /\ 0 < TxSize /\ NoByte \notin Nat
  BY SendAssumption

LEMMA BlankTyped == Blank \in [Offsets -> Bytes]
  BY DEF Blank, Bytes

LEMMA EmptyDatagram == <<>> \in Seq(Bytes)
  OBVIOUS

LEMMA SendStarts == SendInit /\ pc = "idle" => SendingInv
<1> SUFFICES ASSUME SendInit, pc = "idle" PROVE SendingInv
  OBVIOUS
<1>1. SendTypeOK
  <2>1. end \in Nat /\ end <= TxSize /\ offset \in Nat /\ offset <= TxSize /\ written \in Nat
    BY TxSizes DEF SendInit
  <2>2. mem \in [Offsets -> Bytes] /\ cmd \in Seq(Bytes) /\ wire \in Seq(Bytes)
    BY BlankTyped, EmptyDatagram DEF SendInit
  <2> QED BY <2>1, <2>2 DEF SendInit, SendTypeOK
<1>2. PacketInv /\ SendInv
  BY DEF SendInit, PacketInv, SendInv, InEndPacket
<1> QED BY <1>1, <1>2 DEF SendingInv

(* Whatever the old packet and the old SEND were, a new socket knows       *)
(* nothing of them.                                                        *)
LEMMA SendReopens ==
  ASSUME SendingInv, NEW e \in {0, end}, SendOpened(e), pc' = "idle"
  PROVE  SendingInv'
<1>1. e \in Nat /\ e <= TxSize
  BY TxSizes DEF SendingInv, SendTypeOK
<1>2. /\ mem' = Blank /\ end' = e /\ cmd' = <<>> /\ sending' = FALSE
      /\ ir' = {} /\ wire' = <<>> /\ building' = FALSE /\ offset' = offset /\ written' = 0
  BY DEF SendOpened
<1>3. mem' \in [Offsets -> Bytes] /\ cmd' \in Seq(Bytes) /\ wire' \in Seq(Bytes)
  BY <1>2, BlankTyped, EmptyDatagram
<1>4. SendTypeOK'
  BY <1>1, <1>2, <1>3 DEF SendingInv, SendTypeOK
<1>5. PacketInv' /\ SendInv'
  BY <1>2 DEF PacketInv, SendInv, InEndPacket
<1> QED BY <1>4, <1>5 DEF SendingInv

(* The receiving calls leave the packet under construction alone.          *)
LEMMA SendKept ==
  ASSUME SendingInv, UNCHANGED sendVars, ~InEndPacket, ~InEndPacket'
  PROVE  SendingInv'
<1> USE DEF SendingInv, sendVars, chipVars
<1>1. SendTypeOK'
  BY DEF SendTypeOK
<1>2. PacketInv'
  BY DEF PacketInv
<1>3. SendInv'
  BY DEF SendInv, InEndPacket
<1> QED BY <1>1, <1>2, <1>3

LEMMA SendEnds ==
  ASSUME SendingInv, Chip, pc' = pc
  PROVE  SendingInv'
<1> USE DEF SendingInv
<1>1. /\ sending /\ sending' = FALSE
      /\ UNCHANGED <<mem, end, cmd, pc, building, offset, written>>
      /\ \/ wire' = cmd /\ ir' = ir \cup {"SEND_OK"}
         \/ wire' = wire /\ ir' = ir \cup {"TIMEOUT"}
  BY DEF Chip, SendDone, SendTimesOut
<1>2. InEndPacket /\ InEndPacket' /\ ir = {}
  BY <1>1 DEF SendInv, InEndPacket
<1>3. SendTypeOK'
  BY <1>1 DEF SendTypeOK
<1>4. PacketInv'
  BY <1>2 DEF PacketInv
<1>5. SendInv'
  <2>1. pc # "clear"
    BY <1>1, <1>2 DEF SendInv
  <2>2. written' > 0 => cmd' = Packet(written)'
    BY <1>1, <1>2 DEF SendInv, Packet
  <2>3. ir' = {"TIMEOUT"} \/ (ir' = {"SEND_OK"} /\ wire' = cmd')
    BY <1>1, <1>2
  <2> QED BY <1>1, <1>2, <2>1, <2>2, <2>3 DEF SendInv
<1> QED BY <1>3, <1>4, <1>5

LEMMA PacketBegins ==
  ASSUME SendingInv, BeginPacket \/ BeginPacketRefused
  PROVE  SendingInv'
<1> USE DEF SendingInv
<1>1. CASE BeginPacket
  <2>1. /\ building' = TRUE /\ offset' = 0 /\ written' = 0 /\ mem' = Blank
        /\ pc = "idle" /\ UNCHANGED <<end, cmd, sending, ir, wire, pc>>
    BY <1>1 DEF BeginPacket, FirstOffset
  <2>2. SendTypeOK'
    BY <2>1, BlankTyped, TxSizes DEF SendTypeOK
  <2>3. PacketInv'
    BY <2>1 DEF PacketInv
  <2>4. SendInv'
    BY <2>1 DEF SendInv, InEndPacket
  <2> QED BY <2>2, <2>3, <2>4
<1>2. CASE BeginPacketRefused
  <2>1. /\ building' = FALSE /\ offset' = 0 /\ written' = written
        /\ pc = "idle" /\ UNCHANGED <<mem, end, cmd, sending, ir, wire, pc>>
    BY <1>2 DEF BeginPacketRefused, FirstOffset, chipVars
  <2>2. offset' \in Nat /\ offset' <= TxSize
    BY <2>1, TxSizes
  <2>3. SendTypeOK'
    BY <2>1, <2>2 DEF SendTypeOK
  <2>4. PacketInv' /\ SendInv'
    BY <2>1 DEF PacketInv, SendInv, InEndPacket
  <2> QED BY <2>3, <2>4
<1> QED BY <1>1, <1>2

(* A piece is put behind the pieces before, whatever the chip says of its  *)
(* free space.                                                             *)
LEMMA PieceIsWritten ==
  ASSUME SendingInv, Write
  PROVE  SendingInv' /\ result' \in Nat
<1> USE DEF SendingInv
<1>1. /\ pc = "idle" /\ building /\ UNCHANGED <<cmd, sending, ir, wire, pc, building>>
      /\ offset \in Nat /\ written \in Nat /\ end \in Nat /\ end <= TxSize
      /\ mem \in [Offsets -> Bytes]
  BY DEF Write, SendTypeOK
<1>2. offset = written /\ \A i \in 0 .. written - 1 : mem[i] = i + 1
  BY <1>1 DEF PacketInv, InEndPacket
<1>3. PICK n \in WriteLens, txfree \in TX_FSR :
        LET ret == IF n > txfree THEN txfree ELSE n
            at == PieceAt(offset)
        IN /\ offset + ret <= TxSize
           /\ mem' = [i \in Offsets |->
                        IF at <= i /\ i < at + ret THEN written + (i - at) + 1 ELSE mem[i]]
           /\ end' = at + ret
           /\ offset' = offset + ret
           /\ written' = written + ret
           /\ result' = ret
  BY DEF Write
<1>4. n \in Nat /\ txfree \in Nat
  BY <1>1, SendAssumption DEF TX_FSR
<1>5. PICK ret \in Nat : ret = IF n > txfree THEN txfree ELSE n
  BY <1>4
<1>6. /\ written + ret <= TxSize
      /\ mem' = [i \in Offsets |->
                   IF written <= i /\ i < written + ret THEN written + (i - written) + 1 ELSE mem[i]]
      /\ end' = written + ret /\ offset' = written + ret /\ written' = written + ret
      /\ result' = ret
  BY <1>2, <1>3, <1>5 DEF PieceAt
<1>7. PICK w \in Nat : w = written + ret /\ written' = w /\ end' = w /\ offset' = w /\ w <= TxSize
  BY <1>1, <1>6
<1>8. \A i \in Offsets : i \in Nat /\ i < TxSize
  BY TxSizes DEF Offsets
<1>9. mem' \in [Offsets -> Bytes]
  <2>1. \A i \in Offsets :
          (IF written <= i /\ i < written + ret THEN written + (i - written) + 1 ELSE mem[i]) \in Bytes
    <3> SUFFICES ASSUME NEW i \in Offsets
                 PROVE  (IF written <= i /\ i < written + ret
                         THEN written + (i - written) + 1 ELSE mem[i]) \in Bytes
      OBVIOUS
    <3>1. mem[i] \in Bytes
      BY <1>1
    <3>2. written + (i - written) + 1 \in Nat
      BY <1>1, <1>8
    <3> QED BY <3>1, <3>2 DEF Bytes
  <2> QED BY <1>6, <2>1
<1>10. \A i \in 0 .. w - 1 : mem'[i] = i + 1
  <2> SUFFICES ASSUME NEW i \in 0 .. w - 1 PROVE mem'[i] = i + 1
    OBVIOUS
  <2>1. i \in Offsets /\ i \in Nat /\ i < w
    BY <1>7, TxSizes DEF Offsets
  <2>2. CASE written <= i
    <3>1. mem'[i] = written + (i - written) + 1
      BY <1>6, <1>7, <2>1, <2>2
    <3> QED BY <1>1, <2>1, <3>1
  <2>3. CASE ~(written <= i)
    <3>1. mem'[i] = mem[i]
      BY <1>6, <2>1, <2>3
    <3>2. i \in 0 .. written - 1
      BY <1>1, <2>1, <2>3
    <3> QED BY <1>2, <3>1, <3>2
  <2> QED BY <2>2, <2>3
<1>11. SendTypeOK'
  BY <1>1, <1>7, <1>9 DEF SendTypeOK
<1>12. PacketInv'
  BY <1>7, <1>10 DEF PacketInv
<1>13. SendInv'
  BY <1>1 DEF SendInv, InEndPacket
<1> QED BY <1>5, <1>6, <1>11, <1>12, <1>13

(* The SEND takes the packet, whole and in order.                          *)
LEMMA PacketIsSent ==
  ASSUME SendingInv, EndPacket
  PROVE  SendingInv'
<1> USE DEF SendingInv
<1>1. /\ pc = "idle" /\ building /\ pc' = "sendok"
      /\ cmd' = [i \in 1..end |-> mem[i - 1]]
      /\ sending' = TRUE /\ end' = 0 /\ mem' = Blank
      /\ UNCHANGED <<ir, wire, building, offset, written>>
  BY DEF EndPacket, TakenBySend
<1>2. /\ end \in Nat /\ end <= TxSize /\ mem \in [Offsets -> Bytes] /\ written \in Nat
      /\ ir = {}
      /\ written > 0 => end = written
      /\ \A i \in 0 .. written - 1 : mem[i] = i + 1
  BY <1>1 DEF SendTypeOK, PacketInv, SendInv, InEndPacket
<1>3. cmd' \in Seq(Bytes)
  <2>1. \A i \in 1 .. end : mem[i - 1] \in Bytes
    BY <1>2, TxSizes DEF Offsets
  <2> QED BY <1>1, <1>2, <2>1
<1>4. written > 0 => cmd' = Packet(written)
  <2> SUFFICES ASSUME written > 0 PROVE cmd' = Packet(written)
    OBVIOUS
  <2>1. end = written /\ \A i \in 1 .. written : mem[i - 1] = i
    BY <1>2
  <2> QED BY <1>1, <2>1 DEF Packet
<1>5. SendTypeOK'
  BY <1>1, <1>2, <1>3, BlankTyped, TxSizes DEF SendTypeOK
<1>6. PacketInv'
  BY <1>1 DEF PacketInv, InEndPacket
<1>7. SendInv'
  BY <1>1, <1>2, <1>4 DEF SendInv, InEndPacket, Packet
<1> QED BY <1>5, <1>6, <1>7

(* The polling stops at the flag its own SEND has set, and clears it.      *)
LEMMA PacketIsAwaited ==
  ASSUME SendingInv, EndPacketStep
  PROVE  SendingInv'
<1> USE DEF SendingInv
<1>1. CASE PollSendOk
  <2>1. /\ pc = "sendok" /\ pc' \in {"clear", "timeout"} /\ (pc' = "clear" => "SEND_OK" \in ir)
        /\ UNCHANGED <<chipVars, building, offset, written>>
    BY <1>1 DEF PollSendOk
  <2>2. SendTypeOK'
    BY <2>1 DEF SendTypeOK, chipVars
  <2>3. PacketInv'
    BY <2>1 DEF PacketInv, InEndPacket
  <2>4. SendInv'
    BY <2>1 DEF SendInv, InEndPacket, chipVars, Packet
  <2> QED BY <2>2, <2>3, <2>4
<1>2. CASE PollTimeout
  <2>1. pc = "timeout" /\ UNCHANGED <<mem, end, cmd, sending, wire, offset, written>>
    BY <1>2 DEF PollTimeout
  <2>2. CASE GaveUp(ir)
    <3>1. /\ "TIMEOUT" \in ir /\ ir' = ir \ {"SEND_OK", "TIMEOUT"}
          /\ pc' = "idle" /\ building' = FALSE
      BY <1>2, <2>2 DEF PollTimeout, GaveUp, ClearedByTimeout
    <3>2. ir = {"TIMEOUT"} /\ ~sending
      BY <2>1, <3>1 DEF SendInv, InEndPacket, SendTypeOK
    <3>3. ir' = {}
      BY <3>1, <3>2
    <3>4. SendTypeOK'
      BY <2>1, <3>1, <3>3 DEF SendTypeOK
    <3>5. PacketInv' /\ SendInv'
      BY <2>1, <3>1, <3>2, <3>3 DEF PacketInv, SendInv, InEndPacket
    <3> QED BY <3>4, <3>5
  <2>3. CASE ~GaveUp(ir)
    <3>1. pc' = "sendok" /\ UNCHANGED <<ir, building>>
      BY <1>2, <2>3 DEF PollTimeout
    <3>2. SendTypeOK'
      BY <2>1, <3>1 DEF SendTypeOK
    <3>3. PacketInv'
      BY <3>1 DEF PacketInv, InEndPacket
    <3>4. SendInv'
      BY <2>1, <3>1 DEF SendInv, InEndPacket, Packet
    <3> QED BY <3>2, <3>3, <3>4
  <2> QED BY <2>2, <2>3
<1>3. CASE ClearSendOk
  <2>1. /\ pc = "clear" /\ pc' = "idle" /\ ir' = ir \ {"SEND_OK"} /\ building' = FALSE
        /\ UNCHANGED <<mem, end, cmd, sending, wire, offset, written>>
    BY <1>3 DEF ClearSendOk, ClearedByOk
  <2>2. ir = {"SEND_OK"} /\ ~sending
    BY <2>1 DEF SendInv, InEndPacket, SendTypeOK
  <2>3. ir' = {}
    BY <2>1, <2>2
  <2>4. SendTypeOK'
    BY <2>1, <2>3 DEF SendTypeOK
  <2>5. PacketInv' /\ SendInv'
    BY <2>1, <2>2, <2>3 DEF PacketInv, SendInv, InEndPacket
  <2> QED BY <2>4, <2>5
<1> QED BY <1>1, <1>2, <1>3 DEF EndPacketStep

(***************************************************************************)
(* The invariant                                                           *)
(***************************************************************************)

LEMMA UdpStarts == Init => UdpInv
<1> SUFFICES ASSUME Init PROVE UdpInv
  OBVIOUS
<1>1. pc = "idle"
  BY DEF Init, ReceiveInit
<1>2. ReceiveInv /\ SendingInv
  BY <1>1, ReceiveStarts, SendStarts DEF Init
<1> QED BY <1>1, <1>2, Halves DEF PlaceTypeOK

LEMMA UdpStep == UdpInv /\ [Next]_vars => UdpInv'
<1> SUFFICES ASSUME UdpInv, [Next]_vars PROVE UdpInv'
  OBVIOUS
<1>1. ReceiveInv /\ SendingInv /\ PlaceTypeOK
  BY Halves
<1>2. result \in Int /\ -1 <= result
  BY <1>1 DEF ReceiveInv, ReceiveTypeOK
<1>3. CASE Begin
  <2>1. CASE BeginOpens /\ \E e \in {0, end} : SendOpened(e)
    <3>1. pc' = "idle"
      BY <2>1 DEF BeginOpens
    <3>2. ReceiveInv' /\ SendingInv'
      BY <1>1, <2>1, <3>1, ReceiveBegins, SendReopens
    <3> QED BY <3>1, <3>2, HalvesNext DEF PlaceTypeOK
  <2>2. CASE BeginFails /\ SendOpened(0)
    <3>1. pc' = "idle"
      BY <2>2 DEF BeginFails, GivesSocketUp
    <3>2. ReceiveInv' /\ SendingInv'
      BY <1>1, <2>2, <3>1, ReceiveGivesUp, SendReopens
    <3> QED BY <3>1, <3>2, HalvesNext DEF PlaceTypeOK
  <2> QED BY <1>3, <2>1, <2>2 DEF Begin
<1>4. CASE GiveUp
  <2>1. pc' = "idle"
    BY <1>4 DEF GiveUp, Stop, GivesSocketUp
  <2>2. ReceiveInv' /\ SendingInv'
    BY <1>1, <1>4, <2>1, ReceiveGivesUp, SendReopens DEF GiveUp
  <2> QED BY <2>1, <2>2, HalvesNext DEF PlaceTypeOK
<1>5. CASE Receives
  <2>1. ReceiveInv'
    BY <1>1, <1>5, ReceiveArrives, ReceiveParses, ReceiveReads DEF Receives
  <2>2. pc' = pc \/ (pc = "idle" /\ pc' \in {"discard", "available"})
    BY <1>5 DEF Receives, DatagramArrives, ParseCall, Read
  <2>3. SendingInv'
    <3>1. CASE DatagramArrives
      <4>1. /\ UNCHANGED sendVars /\ pc' = pc
        BY <1>5, <3>1 DEF Receives, DatagramArrives
      <4> QED BY <1>1, <4>1 DEF SendingInv, sendVars, chipVars, SendTypeOK, PacketInv,
                                 SendInv, InEndPacket, Packet
    <3>2. CASE ParseCall \/ Read
      <4>1. ~InEndPacket /\ ~InEndPacket'
        BY <3>2 DEF ParseCall, Read, InEndPacket
      <4> QED BY <1>1, <1>5, <4>1, SendKept DEF Receives
    <3> QED BY <1>5, <3>1, <3>2 DEF Receives
  <2> QED BY <1>1, <2>1, <2>2, <2>3, HalvesNext DEF PlaceTypeOK
<1>6. CASE Parses
  <2>1. ReceiveInv'
    BY <1>1, <1>6, ReceiveDiscards, ReceiveLooks, ReceiveTakesHeader DEF Parses, ParseStep
  <2>2. /\ pc \in {"discard", "available", "header"}
        /\ pc' \in {"idle", "discard", "available", "header"}
    BY <1>6 DEF Parses, ParseStep, ParseDiscard, ParseAvailable, ParseHeader
  <2>3. SendingInv'
    BY <1>1, <1>6, <2>2, SendKept DEF Parses, InEndPacket
  <2> QED BY <2>1, <2>2, <2>3, HalvesNext DEF PlaceTypeOK
<1>7. CASE Sends
  <2>1. pc' \in {"idle", "sendok"} /\ UNCHANGED <<sock, recvVars>>
    BY <1>7 DEF Sends, BeginPacket, BeginPacketRefused, Write, EndPacket
  <2>2. SendingInv' /\ result' \in Int /\ -1 <= result'
    <3>1. CASE BeginPacket \/ BeginPacketRefused
      <4>1. result' = 0 \/ result' = 1
        BY <3>1 DEF BeginPacket, BeginPacketRefused
      <4> QED BY <1>1, <3>1, <4>1, PacketBegins
    <3>2. CASE Write
      BY <1>1, <3>2, PieceIsWritten
    <3>3. CASE EndPacket
      <4>1. result' = result
        BY <3>3 DEF EndPacket
      <4> QED BY <1>1, <1>2, <3>3, <4>1, PacketIsSent
    <3> QED BY <1>7, <3>1, <3>2, <3>3 DEF Sends
  <2>3. ReceiveInv'
    BY <1>1, <2>1, <2>2, ReceiveKept
  <2> QED BY <2>1, <2>2, <2>3, HalvesNext DEF PlaceTypeOK
<1>8. CASE ChipSends
  <2>1. pc' = pc /\ result' = result /\ UNCHANGED <<sock, recvVars>>
    BY <1>8 DEF ChipSends, Chip, SendDone, SendTimesOut
  <2>2. SendingInv'
    BY <1>1, <1>8, <2>1, SendEnds DEF ChipSends
  <2>3. ReceiveInv'
    BY <1>1, <1>2, <2>1, ReceiveKept
  <2> QED BY <1>1, <2>1, <2>2, <2>3, HalvesNext DEF PlaceTypeOK
<1>9. CASE EndsPacket
  <2>1. pc' \in {"idle", "sendok", "timeout", "clear"} /\ UNCHANGED <<sock, recvVars>>
    BY <1>9 DEF EndsPacket, EndPacketStep, PollSendOk, PollTimeout, ClearSendOk
  <2>2. result' = result \/ result' = 0 \/ result' = 1
    BY <1>9 DEF EndsPacket, EndPacketStep, PollSendOk, PollTimeout, ClearSendOk
  <2>3. result' \in Int /\ -1 <= result'
    BY <1>2, <2>2
  <2>4. SendingInv'
    BY <1>1, <1>9, PacketIsAwaited DEF EndsPacket
  <2>5. ReceiveInv'
    BY <1>1, <2>1, <2>3, ReceiveKept
  <2> QED BY <2>1, <2>4, <2>5, HalvesNext DEF PlaceTypeOK
<1>10. CASE UNCHANGED vars
  <2>1. /\ pc' = pc /\ result' = result /\ UNCHANGED <<sock, recvVars>> /\ UNCHANGED sendVars
    BY <1>10 DEF vars
  <2>2. ReceiveInv'
    BY <1>1, <1>2, <2>1, ReceiveKept
  <2>3. SendingInv'
    BY <1>1, <2>1 DEF SendingInv, sendVars, chipVars, SendTypeOK, PacketInv,
                      SendInv, InEndPacket, Packet
  <2> QED BY <1>1, <2>1, <2>2, <2>3, HalvesNext DEF PlaceTypeOK
<1> QED BY <1>3, <1>4, <1>5, <1>6, <1>7, <1>8, <1>9, <1>10 DEF Next

(* However datagrams, reads, packets, answers, begin() and stop() follow   *)
(* upon each other, _remaining is what is left of the datagram parsed      *)
(* last, the packet under construction lies in the chip as it was written, *)
(* and the flags endPacket() polls are those of its own SEND.              *)
THEOREM UdpInvariant == Spec => []UdpInv
<1> QED BY UdpStarts, UdpStep, PTL DEF Spec

(* The values the object, its socket and the chip can hold.                *)
THEOREM TypeCorrect == Spec => []TypeOK
<1>1. UdpInv => TypeOK
  BY DEF UdpInv
<1> QED BY <1>1, UdpInvariant, PTL

(* Behind the current datagram lies a header, whatever was read, dropped,  *)
(* cached or given back in between.                                        *)
THEOREM StaysInSync == Spec => []InSync
<1>1. UdpInv => InSync
  BY DEF UdpInv
<1> QED BY <1>1, UdpInvariant, PTL

(* When endPacket() returns 1 for a packet that was written to, the        *)
(* datagram that left is this packet, all its pieces in order.             *)
THEOREM PacketsLeaveWhole == Spec => PacketArrivesWhole
<1>1. UdpInv /\ [Next]_vars => [ClearSendOk /\ written > 0 => wire = Packet(written)]_vars
  <2> SUFFICES ASSUME UdpInv, ClearSendOk, written > 0 PROVE wire = Packet(written)
    OBVIOUS
  <2>1. pc = "clear" /\ InEndPacket
    BY DEF ClearSendOk, InEndPacket
  <2>2. "SEND_OK" \in ir /\ cmd = Packet(written)
    BY <2>1 DEF UdpInv, SendInv
  <2>3. wire = cmd
    BY <2>1, <2>2 DEF UdpInv, SendInv
  <2> QED BY <2>2, <2>3
<1> QED BY <1>1, UdpInvariant, PTL DEF Spec, PacketArrivesWhole

(* endPacket() returns 0 for no packet but one whose SEND is over and      *)
(* whose datagram did not go out.                                          *)
THEOREM FailuresAreReal == Spec => FailureIsReal
<1>1. UdpInv /\ [Next]_vars
      => [PollTimeout /\ pc' = "idle" => ~sending /\ "SEND_OK" \notin ir]_vars
  <2> SUFFICES ASSUME UdpInv, PollTimeout, pc' = "idle" PROVE ~sending /\ "SEND_OK" \notin ir
    OBVIOUS
  <2>1. "TIMEOUT" \in ir /\ InEndPacket
    BY DEF PollTimeout, GaveUp, InEndPacket
  <2> QED BY <2>1 DEF UdpInv, SendInv
<1> QED BY <1>1, UdpInvariant, PTL DEF Spec, FailureIsReal

(***************************************************************************)
(* The queue of datagrams                                                  *)
(***************************************************************************)

Waiting == [i \in 1 .. Len(ends) - parsed |-> Payload(parsed + i)]
BytesLeft == IF sock = "open" THEN remaining ELSE 0

LEMMA WaitingTyped ==
  ASSUME ReceiveInv, sock = "open"
  PROVE  Waiting \in Seq(Int) /\ Len(Waiting) = Len(ends) - parsed
<1>1. /\ parsed \in Nat /\ Len(ends) \in Nat /\ ends \in Seq(Nat) /\ parsed <= Len(ends)
  BY DEF ReceiveInv, ReceiveTypeOK, InSync
<1>2. PICK k \in Nat : k = Len(ends) - parsed
  BY <1>1
<1>3. \A i \in 1 .. k : Payload(parsed + i) \in Int
  <2> SUFFICES ASSUME NEW i \in 1 .. k PROVE Payload(parsed + i) \in Int
    OBVIOUS
  <2>1. PICK j \in Nat : j = parsed + i /\ j \in 0 .. Len(ends) /\ j - 1 \in 0 .. Len(ends)
    BY <1>1, <1>2
  <2>2. End(j) \in Nat /\ End(j - 1) \in Nat
    BY <1>1, <2>1, EndTypes
  <2>3. Payload(j) \in Int
    BY <2>2, Sizes DEF Payload
  <2> QED BY <2>1, <2>3
<1>4. Waiting = [i \in 1 .. k |-> Payload(parsed + i)]
  BY <1>2 DEF Waiting
<1> QED BY <1>2, <1>3, <1>4

LEMMA NothingWaits ==
  ASSUME ends' = <<>>, parsed' = 0
  PROVE  Waiting' = <<>>
<1>1. 1 .. (Len(ends') - parsed') = {}
  OBVIOUS
<1> QED BY <1>1 DEF Waiting

\* A step that parses nothing and closes nothing leaves the queue as it is.
LEMMA QueueKept ==
  ASSUME UNCHANGED <<ends, parsed>>
  PROVE  Waiting' = Waiting
  BY DEF Waiting, Payload, End

LEMMA ArrivedLast ==
  ASSUME ReceiveInv, DatagramArrives
  PROVE  /\ BytesLeft' = BytesLeft
         /\ Len(Waiting') = Len(Waiting) + 1
         /\ SubSeq(Waiting', 1, Len(Waiting)) = Waiting
<1>1. /\ sock = "open" /\ UNCHANGED <<sock, remaining, parsed>>
      /\ ReceiveInv' /\ sock' = "open"
  BY ReceiveArrives DEF DatagramArrives
<1>2. /\ parsed \in Nat /\ Len(ends) \in Nat /\ ends \in Seq(Nat) /\ parsed <= Len(ends)
  BY <1>1 DEF ReceiveInv, ReceiveTypeOK, InSync
<1>3. PICK k \in Nat : k = Len(ends) - parsed
  BY <1>2
<1>4. PICK e \in Nat : ends' = Append(ends, e)
  <2>1. PICK n \in Payloads : ends' = Append(ends, Arrived + Header + n)
    BY DEF DatagramArrives
  <2>2. Arrived + Header + n \in Nat
    BY <1>2, EndTypes, ReceiveAssumption
  <2> QED BY <2>1, <2>2
<1>5. Len(ends') = Len(ends) + 1 /\ \A i \in 0 .. Len(ends) : End(i)' = End(i)
  BY <1>2, <1>4, Queued
<1>6. Waiting \in Seq(Int) /\ Len(Waiting) = k
  BY <1>1, <1>3, WaitingTyped
<1>7. Waiting = [i \in 1 .. k |-> Payload(parsed + i)]
  BY <1>3 DEF Waiting
<1>8. Len(ends') - parsed' = k + 1
  BY <1>1, <1>2, <1>3, <1>5
<1>9. Waiting' = [i \in 1 .. k + 1 |-> Payload(parsed + i)']
  BY <1>1, <1>8 DEF Waiting, Payload, End
<1>10. \A i \in 1 .. k : Payload(parsed + i)' = Payload(parsed + i)
  <2> SUFFICES ASSUME NEW i \in 1 .. k PROVE Payload(parsed + i)' = Payload(parsed + i)
    OBVIOUS
  <2>1. PICK j \in Nat : j = parsed + i /\ j \in 0 .. Len(ends) /\ j - 1 \in 0 .. Len(ends)
    BY <1>2, <1>3
  <2>2. End(j)' = End(j) /\ End(j - 1)' = End(j - 1)
    BY <1>5, <2>1
  <2>3. Payload(j)' = Payload(j)
    BY <2>2 DEF Payload
  <2> QED BY <1>1, <2>1, <2>3 DEF Payload, End
<1>11. SubSeq(Waiting', 1, k) = Waiting /\ Len(Waiting') = k + 1
  <2> DEFINE w == [i \in 1 .. k + 1 |-> Payload(parsed + i)']
  <2>1. \A i \in 1 .. k : w[i] = Payload(parsed + i)
    BY <1>10
  <2>2. Len(w) = k + 1
    OBVIOUS
  <2>3. SubSeq(w, 1, k) = [i \in 1 .. k |-> w[i]]
    BY <2>2
  <2> QED BY <1>7, <1>9, <2>1, <2>2, <2>3
<1> QED BY <1>1, <1>6, <1>11 DEF BytesLeft

LEMMA ParsedFirst ==
  ASSUME ReceiveInv, ParseHeader
  PROVE  /\ BytesLeft = 0 /\ Waiting # <<>>
         /\ BytesLeft' = Head(Waiting) /\ Waiting' = Tail(Waiting)
<1>1. /\ sock = "open" /\ sock' = "open" /\ ends' = ends
      /\ remaining = 0 /\ remaining' = Payload(parsed + 1) /\ parsed' = parsed + 1
      /\ parsed + 1 \in 1 .. Len(ends)
  BY ReceiveTakesHeader DEF ParseHeader, ReceiveInv, ParseInv
<1>2. /\ parsed \in Nat /\ Len(ends) \in Nat
  BY <1>1 DEF ReceiveInv, ReceiveTypeOK
<1>3. PICK k \in Nat : k = Len(ends) - parsed /\ 0 < k
  BY <1>1, <1>2
<1>4. Waiting \in Seq(Int) /\ Len(Waiting) = k /\ Waiting # <<>>
  BY <1>1, <1>3, WaitingTyped
<1>5. Waiting = [i \in 1 .. k |-> Payload(parsed + i)]
  BY <1>3 DEF Waiting
<1>6. Head(Waiting) = Payload(parsed + 1)
  BY <1>3, <1>4, <1>5
<1>7. Len(ends') - parsed' = k - 1
  BY <1>1, <1>2, <1>3
<1>8. Waiting' = [i \in 1 .. k - 1 |-> Payload((parsed + 1) + i)]
  BY <1>1, <1>7 DEF Waiting, Payload, End
<1>9. \A i \in 1 .. k - 1 : (parsed + 1) + i = parsed + (i + 1)
  BY <1>2, <1>3
<1>10. Waiting' = [i \in 1 .. k - 1 |-> Payload(parsed + (i + 1))]
  BY <1>8, <1>9
<1>11. Tail(Waiting) = [i \in 1 .. k - 1 |-> Waiting[i + 1]]
  <2> DEFINE rest == [i \in 1 .. k - 1 |-> Waiting[i + 1]]
  <2>1. rest \in Seq(Int) /\ Len(rest) = k - 1
    BY <1>3, <1>4
  <2>2. /\ Tail(Waiting) \in Seq(Int) /\ Len(Tail(Waiting)) = k - 1
        /\ \A i \in 1 .. k - 1 : Tail(Waiting)[i] = Waiting[i + 1]
    BY <1>4, HeadTailProperties
  <2>3. \A i \in 1 .. k - 1 : rest[i] = Tail(Waiting)[i]
    BY <2>2
  <2> HIDE DEF rest
  <2>4. Tail(Waiting) = rest
    BY <2>1, <2>2, <2>3, SeqEqual
  <2> QED BY <2>4 DEF rest
<1>12. \A i \in 1 .. k - 1 : Waiting[i + 1] = Payload(parsed + (i + 1))
  BY <1>3, <1>5
<1> QED BY <1>1, <1>4, <1>6, <1>10, <1>11, <1>12 DEF BytesLeft

(* parsePacket() hands out the datagrams that arrived, each once, in order *)
(* and with its size, dropping what was left unread of the one before, and *)
(* reads stay within the current one.                                      *)
THEOREM QueueIsDelivered == Spec => DeliversDatagrams
<1> USE DEF Waiting, BytesLeft
<1>1. Init => Queue!Init
  <2> SUFFICES ASSUME Init PROVE Queue!Init
    OBVIOUS
  <2>1. ends = <<>> /\ parsed = 0 /\ remaining = 0
    BY DEF Init, ReceiveInit
  <2>2. 1 .. (Len(ends) - parsed) = {}
    BY <2>1
  <2>3. BytesLeft = 0
    BY <2>1
  <2> QED BY <2>2, <2>3 DEF Queue!Init
<1>2. UdpInv /\ [Next]_vars => [Queue!Next]_Queue!vars
  <2> SUFFICES ASSUME UdpInv, [Next]_vars PROVE [Queue!Next]_Queue!vars
    OBVIOUS
  <2>1. ReceiveInv
    BY Halves
  <2>2. CASE Begin \/ GiveUp
    <3>1. /\ ends' = <<>> /\ parsed' = 0
          /\ (sock' = "open" => remaining' = 0)
      BY <2>2 DEF Begin, GiveUp, BeginOpens, BegunRemaining, BeginFails, Stop, GivesSocketUp
    <3>2. Waiting' = <<>> /\ BytesLeft' = 0
      BY <3>1, NothingWaits
    <3> QED BY <3>2 DEF Queue!Next, Queue!Restart
  <2>3. CASE DatagramArrives
    <3> QED BY <2>1, <2>3, ArrivedLast DEF Queue!Next, Queue!Arrive
  <2>4. CASE ParseHeader
    <3> QED BY <2>1, <2>4, ParsedFirst DEF Queue!Next, Queue!Parse
  <2>5. CASE ParseDiscard \/ Read
    <3>1. remaining \in Nat /\ sock = "open" /\ UNCHANGED <<sock, ends, parsed>>
      BY <2>1, <2>5 DEF ReceiveInv, ReceiveTypeOK, ParseInv, ParseDiscard, Read
    <3>2. remaining' \in 0 .. remaining
      BY <2>1, <2>5, ReceiveDiscards, ReceiveReads
    <3>3. /\ Waiting' = Waiting /\ BytesLeft = remaining /\ BytesLeft' = remaining'
      BY <3>1, QueueKept
    <3>4. remaining' = remaining \/ remaining' \in 0 .. remaining - 1
      BY <3>1, <3>2
    <3> QED BY <3>3, <3>4 DEF Queue!Next, Queue!Take, Queue!vars
  <2>6. CASE ParseCall \/ ParseAvailable \/ Sends \/ ChipSends \/ EndsPacket \/ UNCHANGED vars
    <3>1. UNCHANGED <<sock, ends, parsed, remaining>>
      BY <2>6 DEF ParseCall, ParseAvailable, Sends, ChipSends, EndsPacket, vars, recvVars
    <3>2. Waiting' = Waiting /\ BytesLeft' = BytesLeft
      BY <3>1, QueueKept
    <3> QED BY <3>2 DEF Queue!vars
  <2> QED BY <2>2, <2>3, <2>4, <2>5, <2>6 DEF Next, Receives, Parses, ParseStep
<1> QED BY <1>1, <1>2, UdpInvariant, PTL DEF Spec, DeliversDatagrams, Queue!Spec
=============================================================================
