----------------------------- MODULE Dns_proofs ------------------------------
(***************************************************************************)
(* Machine-checked proofs about the configuration of EthernetClass and the *)
(* resolver, for any addresses, names, leases, ports and clock, any number *)
(* of questions under way and any mixture of late and repeated answers.    *)
(***************************************************************************)
EXTENDS Dns, ModularArithmetic, TLAPS

-----------------------------------------------------------------------------
(* The configuration                                                       *)

(* What ConfigurationOfOneSource rests on, besides itself, is the types.         *)
ConfigInv == ConfigTypeOK /\ ConfigurationOfOneSource

LEMMA ZeroIsAddress == Zero \in Address
  BY DEF Zero, Address, Octets

(* The overloads of begin(mac, ip, ...) fill in what is documented.        *)
LEMMA CompletedAsDocumented ==
  ASSUME NEW a \in Statics
  PROVE  /\ Completed(a).regs \in Registers /\ Completed(a).dns \in Address
         /\ Documented(Completed(a), a)
<1>1. Len(a) \in 1 .. 4 /\ \A i \in 1 .. Len(a) : a[i] \in Address
  BY StaticsAssumption
<1>2. a[1] \in Address
  BY <1>1
<1>3. Neighbour(a[1]) \in Address /\ Neighbour(a[1]) = [a[1] EXCEPT ![4] = 1]
  BY <1>2 DEF Neighbour, Address, Octets
<1>4. <<255, 255, 255, 0>> \in Address
  BY DEF Address, Octets
<1>5. /\ Len(a) >= 2 => a[2] \in Address
      /\ Len(a) >= 3 => a[3] \in Address
      /\ Len(a) >= 4 => a[4] \in Address
  BY <1>1
<1>6. Completed(a).regs \in Registers /\ Completed(a).dns \in Address
  BY <1>1, <1>2, <1>3, <1>4, <1>5 DEF Completed, Registers
<1>7. Documented(Completed(a), a)
  BY <1>1, <1>3 DEF Completed, Documented
<1> QED BY <1>6, <1>7

(* Whatever the members of DhcpClass hold can be applied.                  *)
LEMMA MembersOfDhcp ==
  ASSUME NEW c \in Leases
  PROVE  c.regs \in Registers /\ c.dns \in Address /\ c = [regs |-> c.regs, dns |-> c.dns]
  BY LeasesAssumption DEF Leases, Registers

(* What is applied as a whole has one source.                              *)
LEMMA AppliesKeeps ==
  ASSUME NEW c, c.regs \in Registers, c.dns \in Address,
         \/ [regs |-> c.regs, dns |-> c.dns] \in Leases
         \/ \E a \in Statics : Documented([regs |-> c.regs, dns |-> c.dns], a),
         Applies(c)
  PROVE  regs' \in Registers /\ dnsServer' \in Address /\ byHand' \in BOOLEAN
         /\ OneSource'
<1>1. regs' = c.regs /\ dnsServer' = c.dns /\ byHand' = FALSE
  BY DEF Applies
<1>2. [regs |-> regs', dns |-> dnsServer'] = [regs |-> c.regs, dns |-> c.dns]
  BY <1>1
<1>3. OneSource'
  BY <1>2, Zenon DEF OneSource
<1> QED BY <1>1, <1>3

LEMMA SameAddresses ==
  ASSUME ConfigInv, UNCHANGED addressVars
  PROVE  /\ regs' \in Registers /\ dnsServer' \in Address /\ byHand' \in BOOLEAN
         /\ OneSource'
<1>1. UNCHANGED <<regs, dnsServer, byHand>>
  BY DEF addressVars
<1>2. OneSource'
  BY <1>1, Zenon DEF ConfigInv, ConfigurationOfOneSource, OneSource
<1> QED BY <1>1, <1>2 DEF ConfigInv, ConfigTypeOK

(* The register of the retransmission time does not overflow.              *)
LEMMA TimeFits ==
  ASSUME NEW t \in Nat, NEW r, r = (Clamped(t) * 10) % 65536
  PROVE  r \in Nat /\ r < 65536 /\ (r >= 10 * t \/ r >= 65530)
<1>1. Clamped(t) * 10 \in Nat /\ Clamped(t) * 10 <= 65530 /\ (Clamped(t) = t \/ Clamped(t) = 6553)
  BY DEF Clamped
<1>2. (Clamped(t) * 10) % 65536 = Clamped(t) * 10
  BY <1>1
<1> QED BY <1>1, <1>2

LEMMA ChipAnswers ==
  ASSUME ConfigInv, NEW answers \in BOOLEAN, ChipInit(answers), SetsMac(answers)
  PROVE  /\ initialized' \in BOOLEAN
         /\ mac' \in Macs \cup {OwnMac, NoMac} /\ rcr' \in Octets /\ rtr' \in Nat /\ rtr' < 65536
         /\ NeverSooner'
  BY DEF ConfigInv, ConfigTypeOK, ConfigurationOfOneSource, NeverSooner, ChipInit, SetsMac

LEMMA ConfigStepKeeps == ASSUME ConfigInv, ConfigStep PROVE ConfigInv'
<1>1. CASE BeginStatic
  <2>1. PICK a \in Statics, answers \in BOOLEAN :
          /\ ChipInit(answers) /\ SetsMac(answers)
          /\ IF answers THEN Applies(Completed(a)) ELSE UNCHANGED addressVars
    BY <1>1 DEF BeginStatic
  <2>2. regs' \in Registers /\ dnsServer' \in Address /\ byHand' \in BOOLEAN
        /\ OneSource'
    <3>1. CASE answers
      <4>1. Documented([regs |-> Completed(a).regs, dns |-> Completed(a).dns], a)
        BY CompletedAsDocumented DEF Documented
      <4> QED BY <2>1, <3>1, <4>1, CompletedAsDocumented, AppliesKeeps
    <3>2. CASE ~answers
      BY <2>1, <3>2, SameAddresses
    <3> QED BY <3>1, <3>2
  <2>3. dhcp' \in BOOLEAN
    BY <1>1 DEF BeginStatic, ConfigInv, ConfigTypeOK
  <2> QED BY <2>1, <2>2, <2>3, ChipAnswers DEF ConfigInv, ConfigTypeOK, ConfigurationOfOneSource
<1>2. CASE BeginDhcp
  <2>1. PICK answers \in BOOLEAN :
          /\ ChipInit(answers) /\ SetsMac(answers)
          /\ \/ ~answers /\ UNCHANGED addressVars
             \/ answers /\ \E c \in Leases : Applies(c)
             \/ answers /\ regs' = [regs EXCEPT !.ip = Zero] /\ UNCHANGED <<dnsServer, byHand>>
    BY <1>2 DEF BeginDhcp
  <2>2. regs' \in Registers /\ dnsServer' \in Address /\ byHand' \in BOOLEAN
        /\ OneSource'
    <3>1. CASE UNCHANGED addressVars
      BY <3>1, SameAddresses
    <3>2. CASE \E c \in Leases : Applies(c)
      <4>1. PICK c \in Leases : Applies(c)
        BY <3>2
      <4>2. c.regs \in Registers /\ c.dns \in Address /\ c = [regs |-> c.regs, dns |-> c.dns]
        BY MembersOfDhcp
      <4> QED BY <4>1, <4>2, AppliesKeeps
    <3>3. CASE regs' = [regs EXCEPT !.ip = Zero] /\ UNCHANGED <<dnsServer, byHand>>
      BY <3>3, ZeroIsAddress DEF ConfigInv, ConfigTypeOK, Registers, OneSource
    <3> QED BY <2>1, <3>1, <3>2, <3>3
  <2>3. dhcp' \in BOOLEAN
    BY <1>2 DEF BeginDhcp
  <2> QED BY <2>1, <2>2, <2>3, ChipAnswers DEF ConfigInv, ConfigTypeOK, ConfigurationOfOneSource
<1>3. CASE MaintainLease
  <2>1. PICK c \in Leases : Applies(c)
    BY <1>3 DEF MaintainLease
  <2>2. c.regs \in Registers /\ c.dns \in Address /\ c = [regs |-> c.regs, dns |-> c.dns]
    BY MembersOfDhcp
  <2>3. regs' \in Registers /\ dnsServer' \in Address /\ byHand' \in BOOLEAN
        /\ OneSource'
    BY <2>1, <2>2, AppliesKeeps
  <2> QED BY <1>3, <2>3 DEF MaintainLease, linkVars, ConfigInv, ConfigTypeOK,
                            ConfigurationOfOneSource, NeverSooner
<1> QED BY <1>1, <1>2, <1>3 DEF ConfigStep

LEMMA SetterKeeps == ASSUME ConfigInv, Setter PROVE ConfigInv'
<1>1. UNCHANGED <<initialized, dhcp>>
  BY DEF Setter
<1>2. CASE SetAddress
  <2>1. regs' \in Registers /\ dnsServer' \in Address /\ byHand' = TRUE
    BY <1>2, LeasesAssumption DEF SetAddress, ConfigInv, ConfigTypeOK, Registers
  <2> QED BY <1>1, <1>2, <2>1 DEF SetAddress, linkVars, ConfigInv, ConfigTypeOK,
                                  ConfigurationOfOneSource, OneSource, NeverSooner
<1>3. CASE SetLink
  <2>1. OneSource'
    BY <1>3, SameAddresses DEF SetLink
  <2>2. rtr' \in Nat /\ rtr' < 65536 /\ NeverSooner'
    <3>1. CASE UNCHANGED <<rtr, wantedTime>>
      BY <3>1 DEF ConfigInv, ConfigTypeOK, ConfigurationOfOneSource, NeverSooner
    <3>2. CASE wantedTime' \in Times /\ rtr' = (Clamped(wantedTime') * 10) % 65536
      BY <3>2, TimeFits, LinkAssumption DEF NeverSooner
    <3> QED BY <1>3, <3>1, <3>2 DEF SetLink
  <2>3. mac' \in Macs \cup {OwnMac, NoMac} /\ rcr' \in Octets
    BY <1>3, LinkAssumption DEF SetLink, ConfigInv, ConfigTypeOK
  <2> QED BY <1>1, <1>3, <2>1, <2>2, <2>3 DEF SetLink, addressVars, ConfigInv, ConfigTypeOK,
                                              ConfigurationOfOneSource
<1> QED BY <1>2, <1>3 DEF Setter

LEMMA ConfigInitial == ASSUME ConfigInit PROVE ConfigInv
<1>1. regs \in Registers /\ regs.ip = Zero /\ dnsServer \in Address
  BY ZeroIsAddress DEF ConfigInit, Registers
<1>2. rtr = 2000 /\ wantedTime = 200 /\ rcr = 8
  BY DEF ConfigInit
<1>3. rcr \in Octets /\ rtr \in Nat /\ rtr < 65536 /\ NeverSooner
  BY <1>2 DEF NeverSooner, Octets
<1>4. mac = NoMac
  BY DEF ConfigInit
<1>5. initialized \in BOOLEAN /\ dhcp \in BOOLEAN /\ byHand \in BOOLEAN
  BY Zenon DEF ConfigInit
<1>6. ConfigTypeOK
  BY <1>1, <1>3, <1>4, <1>5 DEF ConfigTypeOK
<1>7. OneSource
  BY <1>1, Zenon DEF OneSource
<1> QED BY <1>3, <1>6, <1>7 DEF ConfigInv, ConfigurationOfOneSource

LEMMA ConfigUnchanged == ASSUME ConfigInv, UNCHANGED configVars PROVE ConfigInv'
<1>1. UNCHANGED <<initialized, dhcp, mac, rcr, rtr, wantedTime>> /\ UNCHANGED addressVars
  BY DEF configVars, linkVars
<1> QED BY <1>1, SameAddresses DEF ConfigInv, ConfigTypeOK, ConfigurationOfOneSource, NeverSooner

LEMMA ConfigKeeps == ASSUME ConfigInv, [Next]_vars PROVE ConfigInv'
<1>1. CASE Configure
  BY <1>1, ConfigStepKeeps, SetterKeeps DEF Configure, ConfigStep
<1>2. CASE UNCHANGED configVars
  BY <1>2, ConfigUnchanged
<1> QED BY <1>1, <1>2 DEF Next, vars, Tick, Lookup, LookupStep, OpenSocket, BuildRequest,
           SendRequest, ResponseTimesOut, ResponseArrives, Responded, StopSocket, Return, Call

(* The addresses of the chip and the DNS server are all of one begin() of  *)
(* the sketch or all of DHCP, over any sequence of begin(), maintain() and *)
(* setters and any combination of values that DhcpClass may hold.          *)
THEOREM ConfigurationHasOneSource == Spec => []ConfigurationOfOneSource
<1>1. Init => ConfigInv
  BY ConfigInitial DEF Init
<1>2. ConfigInv /\ [Next]_vars => ConfigInv'
  BY ConfigKeeps
<1>3. ConfigInv => ConfigurationOfOneSource
  BY DEF ConfigInv
<1> QED BY <1>1, <1>2, <1>3, PTL DEF Spec

-----------------------------------------------------------------------------
(* What an answer holds                                                    *)

LEMMA MinOfTwo ==
  ASSUME NEW S \in SUBSET {1, 2}, S # {}
  PROVE  Min(S) \in S
<1>1. \E x \in S : \A y \in S : x =< y
  <2>1. CASE 1 \in S
    BY <2>1
  <2>2. CASE 1 \notin S
    <3>1. 2 \in S /\ \A y \in S : y = 2
      BY <2>2
    <3> QED BY <3>1
  <2> QED BY <2>1, <2>2
<1> QED BY <1>1 DEF Min

(* The first A record of one or two records is one of them.                *)
LEMMA FirstIsARecord ==
  ASSUME NEW records, Len(records) \in 0 .. 2, FirstA(records) # 0
  PROVE  FirstA(records) \in 1 .. Len(records)
<1> DEFINE I == {i \in 1 .. Len(records) : records[i].type = "A"}
<1>1. FirstA(records) = IF I # {} THEN Min(I) ELSE 0
  BY DEF FirstA, SelectInSeq
<1>2. I \in SUBSET {1, 2} /\ I \subseteq 1 .. Len(records)
  OBVIOUS
<1> HIDE DEF I
<1> QED BY <1>1, <1>2, MinOfTwo

(* A record of four bytes in an answer about a host is an address of that  *)
(* host: the others there are too long, or an alias.                       *)
LEMMA RecordOfHost ==
  ASSUME NEW host, NEW records \in Records(host), FirstA(records) # 0,
         records[FirstA(records)].length = 4
  PROVE  /\ host \in Names
         /\ records[FirstA(records)].address \in AddrOf[host]
<1> DEFINE i == FirstA(records)
           known == IF host \in Names THEN AddrOf[host] ELSE {}
           a == [type : {"A"}, length : {4}, address : known]
           odd == [type |-> "A", length |-> 16, address |-> Zero]
           alias == [type |-> "CNAME", length |-> 9, address |-> Zero]
<1>1. \/ records \in {<<>>, <<odd>>, <<alias>>}
      \/ \E r \in a : records = <<r>> \/ records = <<alias, r>>
  BY DEF Records
<1>2. odd.length # 4 /\ alias.length # 4 /\ \A r \in a : r.address \in known
  OBVIOUS
<1> HIDE DEF odd, alias, known
<1>3. Len(records) \in 0 .. 2
  BY <1>1
<1>4. i \in 1 .. Len(records)
  BY <1>3, FirstIsARecord
<1> HIDE DEF i
<1>5. records[i] = odd \/ records[i] = alias \/ records[i] \in a
  BY <1>1, <1>4
<1>6. records[i].address \in known
  BY <1>2, <1>5 DEF i
<1> QED BY <1>6 DEF i, known

(* The checks of a datagram, passed.                                       *)
LEMMA JudgedSuccess ==
  ASSUME NEW server, NEW id, NEW x, Judged(server, id, x) = SUCCESS
  PROVE  /\ IsAnswer(id, x) /\ FirstA(x.records) # 0
         /\ x.records[FirstA(x.records)].length = 4
  BY DEF Judged, SUCCESS, INVALID_SERVER, TRUNCATED, INVALID_RESPONSE, ERROR_RESPONSE,
         NO_ANSWERS, NO_ADDRESS, ODD_ANSWER

(* A datagram that passes belongs to the question of the lookup.           *)
LEMMA SuccessIsAnAddress ==
  ASSUME QuestionsApart, call.at = "wait", NEW x \in Datagrams,
         Judged(dns.iDNSServer, dns.iRequestId, x) = SUCCESS
  PROVE  /\ x.records[FirstA(x.records)].address \in Address
         /\ Denotes(call.host, x.records[FirstA(x.records)].address)
<1>1. /\ x.id = dns.iRequestId /\ x.response
      /\ FirstA(x.records) # 0 /\ x.records[FirstA(x.records)].length = 4
  BY JudgedSuccess DEF IsAnswer
<1>2. \E q \in asked : x.id = q.id /\ x.records \in Records(q.host)
  <2> DEFINE blank == [from |-> dns.iDNSServer, id |-> dns.iRequestId, response |-> FALSE,
                       short |-> FALSE, error |-> FALSE, records |-> <<>>]
             mine == {q \in asked : q.port = dns.port}
             answers(q) == [from : {q.server}, id : {q.id}, response : {TRUE}, short : {FALSE},
                            error : BOOLEAN, records : Records(q.host)]
  <2>1. x \in {blank, [blank EXCEPT !.short = TRUE], [blank EXCEPT !.from = Stranger]}
          \cup UNION {answers(q) : q \in mine}
    BY Zenon DEF Datagrams
  <2>2. x \notin {blank, [blank EXCEPT !.short = TRUE], [blank EXCEPT !.from = Stranger]}
    BY <1>1
  <2>3. PICK q \in mine : x \in answers(q)
    <3> HIDE DEF blank, mine, answers
    <3> QED BY <2>1, <2>2, Zenon
  <2> QED BY <2>3
<1>3. x.records \in Records(call.host)
  BY <1>1, <1>2 DEF QuestionsApart
<1>4. call.host \in Names /\ x.records[FirstA(x.records)].address \in AddrOf[call.host]
  BY <1>1, <1>3, RecordOfHost
<1> QED BY <1>4, NamesAssumption DEF Denotes

(* Error codes stay errors, as an int of either width.                     *)
Codes == {SUCCESS, TIMED_OUT, INVALID_SERVER, TRUNCATED, INVALID_RESPONSE, ERROR_RESPONSE,
          NO_ANSWERS, ODD_ANSWER, NO_ADDRESS}

LEMMA JudgedIsACode ==
  ASSUME NEW server, NEW id, NEW x
  PROVE  Judged(server, id, x) \in Codes
  BY DEF Judged, Codes

LEMMA CodesSurvive ==
  ASSUME NEW v \in Codes
  PROVE  AsInt(v) \in Int /\ (AsInt(v) = 1 => v = SUCCESS)
<1>1. v \in Int /\ -10 <= v /\ v <= 1 /\ v # 0
  BY DEF Codes, SUCCESS, TIMED_OUT, INVALID_SERVER, TRUNCATED, INVALID_RESPONSE,
         ERROR_RESPONSE, NO_ANSWERS, ODD_ANSWER, NO_ADDRESS
<1>2. CASE v < 0
  <2>1. v + 65536 \in Nat /\ v + 65536 < 65536 /\ v = 65536 * (-1) + (v + 65536)
    BY <1>1, <1>2
  <2>2. v % 65536 = v + 65536
    BY <1>1, <2>1, IntRemainder
  <2> QED BY <1>1, <1>2, <2>2 DEF AsInt
<1>3. CASE v = 1
  <2>1. v % 65536 \in Int
    BY <1>3
  <2> QED BY <1>3, <2>1 DEF AsInt, SUCCESS
<1> QED BY <1>1, <1>2, <1>3

-----------------------------------------------------------------------------
(* The lookup                                                              *)

(* A result is one of the host's addresses, and so is where a packet goes. *)
ResolvedInv ==
  /\ call.at \in {"stop", "resolved"} /\ call.ret = 1 => Denotes(call.host, call.aResult)
  /\ PacketGoesToHost

LookupPart == LookupTypeOK /\ SocketGivenBack /\ QuestionsApart /\ ResolvedInv

ResolverInv == ConfigInv /\ LookupPart

LEMMA ConfigureStep == ASSUME LookupPart, Configure PROVE LookupPart'
  BY DEF Configure, lookupVars, LookupPart, LookupTypeOK, SocketGivenBack, QuestionsApart,
         ResolvedInv, PacketGoesToHost

LEMMA ClockStays == \A n \in Nat : n % ClockMod \in Clock
  BY ResolverAssumption, DivMod DEF Clock

LEMMA TickStep == ASSUME LookupPart, Tick PROVE LookupPart'
<1>1. now' \in Clock
  BY ClockStays DEF Tick, LookupPart, LookupTypeOK, Clock
<1>2. asked' \subseteq asked
  BY DEF Tick
<1>3. UNCHANGED <<sketch, intWidth, dns, call, peer>>
  BY DEF Tick
<1>4. LookupTypeOK'
  BY <1>1, <1>2, <1>3 DEF LookupPart, LookupTypeOK
<1>5. QuestionsApart'
  BY <1>2, <1>3 DEF LookupPart, QuestionsApart
<1> QED BY <1>3, <1>4, <1>5 DEF LookupPart, SocketGivenBack, ResolvedInv, PacketGoesToHost

LEMMA LookupCallStep ==
  ASSUME ConfigInv, LookupPart, NEW op \in Ops, NEW host \in Hosts, Lookup(op, host)
  PROVE  LookupPart'
<1> DEFINE a == inet_aton(host, Zero)
           asks == a.ret = 0 /\ dnsServer # Zero
           result == IF asks THEN 0 ELSE IF a.ret = 1 THEN 1 ELSE INVALID_SERVER
<1>1. /\ a.ret \in {0, 1} /\ a.result \in Address
      /\ a.ret = 1 => Denotes(host, a.result)
  BY HostsAssumption
<1>2. /\ call' = [NoCall EXCEPT !.op = op, !.host = host, !.aResult = a.result,
                    !.at = IF asks THEN "socket" ELSE "resolved", !.ret = result]
      /\ dns' = [dns EXCEPT !.iDNSServer = dnsServer] /\ peer' = NoPeer
      /\ UNCHANGED <<sketch, intWidth, now, asked>>
      /\ call.at = "idle"
  BY DEF Lookup
<1>3. /\ result \in Int
      /\ result = 1 => a.ret = 1
      /\ asks => result = 0
  BY <1>1 DEF INVALID_SERVER
<1> HIDE DEF a, asks, result
<1>4. call' = [op |-> op, host |-> host, aResult |-> a.result, start |-> 0, waits |-> 0,
               at |-> IF asks THEN "socket" ELSE "resolved", ret |-> result]
  BY <1>2 DEF NoCall
<1>5. LookupTypeOK'
  <2>1. 0 \in Clock
    BY ResolverAssumption DEF Clock
  <2>2. call' \in Calls
    BY <1>1, <1>3, <1>4, <2>1 DEF Calls
  <2>3. peer' \in Peers
    BY <1>2, ZeroIsAddress DEF NoPeer, Peers
  <2>4. dns' \in Resolvers
    BY <1>2 DEF LookupPart, LookupTypeOK, Resolvers, ConfigInv, ConfigTypeOK
  <2> QED BY <1>2, <2>2, <2>3, <2>4 DEF LookupPart, LookupTypeOK
<1>6. SocketGivenBack'
  BY <1>2, <1>4 DEF LookupPart, LookupTypeOK, Resolvers, SocketGivenBack
<1>7. QuestionsApart'
  BY <1>3, <1>4 DEF QuestionsApart
<1>8. ResolvedInv'
  BY <1>1, <1>2, <1>3, <1>4 DEF ResolvedInv, PacketGoesToHost, NoPeer
<1> QED BY <1>5, <1>6, <1>7, <1>8 DEF LookupPart

(* What a step within a lookup has to keep: the rest of the state stays.   *)
LEMMA WithinLookup ==
  ASSUME LookupPart, UNCHANGED <<sketch, intWidth, now, peer>>,
         call' \in Calls, dns' \in Resolvers, asked' \subseteq Questions,
         SocketGivenBack', QuestionsApart',
         call'.at \in {"stop", "resolved"} /\ call'.ret = 1 => Denotes(call'.host, call'.aResult)
  PROVE  LookupPart'
  BY DEF LookupPart, LookupTypeOK, ResolvedInv, PacketGoesToHost

LEMMA OpenSocketStep == ASSUME LookupPart, OpenSocket PROVE LookupPart'
<1>1. now % Ports \in 0 .. Ports - 1
  BY ResolverAssumption, DivMod DEF LookupPart, LookupTypeOK, Clock
<1>2. /\ call.at = "socket" /\ call.ret = 0 /\ dns.port = NoPort /\ call.host \in Hosts
      /\ call \in Calls /\ dns \in Resolvers /\ asked \subseteq Questions
      /\ UNCHANGED <<sketch, intWidth, now, asked, peer>>
  BY DEF OpenSocket, Call, LookupPart, LookupTypeOK, SocketGivenBack, QuestionsApart
<1>3. CASE call' = [call EXCEPT !.at = "resolved"] /\ dns' = dns
  BY <1>2, <1>3, WithinLookup DEF Calls, SocketGivenBack, QuestionsApart
<1>4. CASE call' = [call EXCEPT !.at = "build"] /\ dns' = [dns EXCEPT !.port = now % Ports]
  <2>1. now % Ports \in 0 .. NoPort /\ now % Ports # NoPort
    BY <1>1, ResolverAssumption DEF NoPort
  <2>2. call' \in Calls /\ dns' \in Resolvers
    BY <1>2, <1>4, <2>1 DEF Calls, Resolvers
  <2>3. SocketGivenBack' /\ QuestionsApart' /\ call'.at = "build"
    BY <1>2, <1>4, <2>1 DEF SocketGivenBack, QuestionsApart, Calls, Resolvers
  <2> QED BY <1>2, <2>2, <2>3, WithinLookup
<1> QED BY <1>3, <1>4 DEF OpenSocket, Call

LEMMA BuildRequestStep == ASSUME LookupPart, BuildRequest PROVE LookupPart'
<1>1. /\ call.at = "build" /\ call.host \in Hosts /\ call.ret = 0 /\ dns.port # NoPort
      /\ call \in Calls /\ dns \in Resolvers /\ asked \subseteq Questions /\ now \in Clock
      /\ dns' = [dns EXCEPT !.iRequestId = now] /\ call' = [call EXCEPT !.at = "send"]
      /\ \A q \in asked : q.id # now
      /\ UNCHANGED <<sketch, intWidth, now, asked, peer>>
  BY DEF BuildRequest, Call, LookupPart, LookupTypeOK, SocketGivenBack, QuestionsApart
<1>2. call' \in Calls /\ dns' \in Resolvers
  BY <1>1 DEF Calls, Resolvers
<1>3. SocketGivenBack' /\ QuestionsApart' /\ call'.at = "send"
  BY <1>1 DEF SocketGivenBack, QuestionsApart, Calls, Resolvers
<1> QED BY <1>1, <1>2, <1>3, WithinLookup

LEMMA SendRequestStep == ASSUME LookupPart, SendRequest PROVE LookupPart'
<1>1. /\ call.at = "send" /\ call.host \in Hosts /\ dns.port # NoPort
      /\ call \in Calls /\ dns \in Resolvers /\ asked \subseteq Questions /\ now \in Clock
      /\ \A q \in asked : q.id # dns.iRequestId
      /\ UNCHANGED <<sketch, intWidth, now, dns, peer>>
  BY DEF SendRequest, Call, LookupPart, LookupTypeOK, SocketGivenBack, QuestionsApart
<1>2. CASE call' = [call EXCEPT !.at = "stop", !.ret = 0] /\ asked' = asked
  <2>1. call' = [op |-> call.op, host |-> call.host, ret |-> 0, aResult |-> call.aResult,
                 at |-> "stop", start |-> call.start, waits |-> call.waits]
    BY <1>1, <1>2 DEF Calls
  <2>2. call' \in Calls
    BY <1>1, <2>1 DEF Calls
  <2>3. SocketGivenBack' /\ QuestionsApart' /\ call'.ret = 0
    BY <1>1, <1>2 DEF SocketGivenBack, QuestionsApart, Calls
  <2> QED BY <1>1, <1>2, <2>2, <2>3, WithinLookup
<1>3. CASE /\ call' = [call EXCEPT !.at = "wait", !.ret = TIMED_OUT, !.start = now]
           /\ asked' = asked \cup {Question}
  <2>1. Question \in Questions /\ Question.host = call.host
    BY <1>1, ResolverAssumption DEF Question, Questions, Resolvers, NoPort
  <2>2. call' = [op |-> call.op, host |-> call.host, ret |-> TIMED_OUT, aResult |-> call.aResult,
                 at |-> "wait", start |-> now, waits |-> call.waits]
    BY <1>1, <1>3 DEF Calls
  <2>3. call' \in Calls /\ call'.at = "wait" /\ call'.host = call.host
    BY <1>1, <2>2 DEF Calls, TIMED_OUT
  <2>4. QuestionsApart'
    BY <1>1, <1>3, <2>1, <2>3 DEF QuestionsApart
  <2>5. SocketGivenBack'
    BY <1>1, <2>3 DEF SocketGivenBack
  <2> QED BY <1>1, <1>3, <2>1, <2>3, <2>4, <2>5, WithinLookup
<1> QED BY <1>2, <1>3 DEF SendRequest, Call, AfterNoSend

(* A wait that ends, with whatever code and address.                       *)
LEMMA RespondedStep ==
  ASSUME LookupPart, call.at = "wait", NEW v \in Codes, NEW address \in Address,
         Responded(v, address),
         v = SUCCESS => Denotes(call.host, address)
  PROVE  LookupPart'
<1> DEFINE ret == AsInt(v)
           again == ret = TIMED_OUT /\ call.waits + 1 < 3
           at == IF again THEN "wait" ELSE "stop"
           waits == IF again THEN call.waits + 1 ELSE 0
           start == IF again THEN now ELSE 0
<1>1. /\ call.host \in Hosts /\ dns.port # NoPort
      /\ call \in Calls /\ dns \in Resolvers /\ asked \subseteq Questions /\ now \in Clock
      /\ \A q \in asked : q.id = dns.iRequestId => q.host = call.host
  BY DEF LookupPart, LookupTypeOK, SocketGivenBack, QuestionsApart
<1>2. /\ call' = [call EXCEPT !.ret = ret, !.aResult = address, !.at = at, !.waits = waits,
                              !.start = start]
      /\ UNCHANGED <<sketch, intWidth, now, peer, dns, asked>>
  BY Zenon DEF Responded, Call
<1>3. ret \in Int /\ (ret = 1 => v = SUCCESS)
  BY CodesSurvive
<1>4. waits \in 0 .. 2 /\ start \in Clock /\ at \in {"wait", "stop"}
  BY <1>1, ResolverAssumption DEF Calls, Clock
<1> HIDE DEF ret, again, at, waits, start
<1>5. call' = [op |-> call.op, host |-> call.host, ret |-> ret, aResult |-> address,
               at |-> at, start |-> start, waits |-> waits]
  BY <1>1, <1>2 DEF Calls
<1>6. call' \in Calls
  BY <1>1, <1>3, <1>4, <1>5 DEF Calls
<1>7. QuestionsApart'
  BY <1>1, <1>2, <1>4, <1>5 DEF QuestionsApart
<1>8. SocketGivenBack'
  BY <1>1, <1>2, <1>4, <1>5 DEF SocketGivenBack
<1>9. call'.ret = 1 => Denotes(call'.host, call'.aResult)
  BY <1>3, <1>5
<1> QED BY <1>1, <1>2, <1>6, <1>7, <1>8, <1>9, WithinLookup

LEMMA ResponseStep == ASSUME LookupPart, ResponseArrives \/ ResponseTimesOut PROVE LookupPart'
<1>1. call.at = "wait" /\ call.aResult \in Address /\ QuestionsApart
  BY DEF ResponseArrives, ResponseTimesOut, LookupPart, LookupTypeOK, Calls
<1>2. CASE ResponseArrives
  <2>1. PICK x \in Datagrams :
          LET v == Judged(dns.iDNSServer, dns.iRequestId, x) IN
            Responded(v, IF v = SUCCESS THEN x.records[FirstA(x.records)].address
                                        ELSE call.aResult)
    BY <1>2 DEF ResponseArrives
  <2> DEFINE v == Judged(dns.iDNSServer, dns.iRequestId, x)
             address == IF v = SUCCESS THEN x.records[FirstA(x.records)].address
                                       ELSE call.aResult
  <2>2. v \in Codes
    BY JudgedIsACode
  <2>3. address \in Address /\ (v = SUCCESS => Denotes(call.host, address))
    BY <1>1, SuccessIsAnAddress
  <2>4. Responded(v, address)
    BY <2>1
  <2> HIDE DEF v, address
  <2> QED BY <1>1, <2>2, <2>3, <2>4, RespondedStep
<1>3. CASE ResponseTimesOut
  <2>1. TIMED_OUT \in Codes /\ TIMED_OUT # SUCCESS
    BY DEF Codes, TIMED_OUT, SUCCESS
  <2> QED BY <1>1, <1>3, <2>1, RespondedStep DEF ResponseTimesOut
<1> QED BY <1>2, <1>3

LEMMA StopSocketStep == ASSUME LookupPart, StopSocket PROVE LookupPart'
<1>1. /\ call.at = "stop" /\ call.host \in Hosts
      /\ call \in Calls /\ dns \in Resolvers /\ asked \subseteq Questions
      /\ dns' = [dns EXCEPT !.port = NoPort] /\ call' = [call EXCEPT !.at = "resolved"]
      /\ call.ret = 1 => Denotes(call.host, call.aResult)
      /\ UNCHANGED <<sketch, intWidth, now, asked, peer>>
  BY DEF StopSocket, Call, LookupPart, LookupTypeOK, QuestionsApart, ResolvedInv
<1>2. call' \in Calls /\ dns' \in Resolvers
  BY <1>1, ResolverAssumption DEF Calls, Resolvers, NoPort
<1>3. /\ SocketGivenBack' /\ QuestionsApart'
      /\ call'.ret = 1 => Denotes(call'.host, call'.aResult)
  BY <1>1 DEF SocketGivenBack, QuestionsApart, Calls, Resolvers
<1> QED BY <1>1, <1>2, <1>3, WithinLookup

LEMMA ReturnStep == ASSUME LookupPart, Return PROVE LookupPart'
<1>1. /\ call.at = "resolved" /\ call \in Calls /\ dns \in Resolvers /\ asked \subseteq Questions
      /\ call.host \in Hosts /\ dns.port = NoPort /\ peer \in Peers
      /\ dns' = [dns EXCEPT !.iDNSServer = Zero, !.iRequestId = 0]
      /\ peer' = IF GoesOn THEN [by |-> call.op, host |-> call.host, address |-> call.aResult]
                           ELSE peer
      /\ call' = NoCall /\ UNCHANGED <<sketch, intWidth, now, asked>>
      /\ call.ret = 1 => Denotes(call.host, call.aResult)
  BY DEF Return, LookupPart, LookupTypeOK, SocketGivenBack, QuestionsApart, ResolvedInv
<1>2. 0 \in Clock
  BY ResolverAssumption DEF Clock
<1>3. call' \in Calls
  BY <1>1, <1>2, ZeroIsAddress DEF NoCall, Calls
<1>4. dns' = [iDNSServer |-> Zero, iRequestId |-> 0, port |-> NoPort]
  BY <1>1 DEF Resolvers
<1>5. dns' \in Resolvers
  BY <1>2, <1>4, ZeroIsAddress, ResolverAssumption DEF Resolvers, NoPort
<1>6. peer' \in Peers
  BY <1>1 DEF Peers, Calls
<1>7. SocketGivenBack' /\ QuestionsApart'
  BY <1>1, <1>4 DEF NoCall, SocketGivenBack, QuestionsApart
<1>8. ResolvedInv'
  BY <1>1 DEF LookupPart, ResolvedInv, PacketGoesToHost, NoCall, GoesOn, Unresolved
<1> QED BY <1>1, <1>3, <1>5, <1>6, <1>7, <1>8 DEF LookupPart, LookupTypeOK

LEMMA ResolverInitial == ASSUME Init PROVE ResolverInv
<1>1. ConfigInv
  BY ConfigInitial DEF Init
<1>2. 0 \in Clock
  BY ResolverAssumption DEF Clock
<1>3. call \in Calls /\ call.at = "idle" /\ call.ret = 0
  BY <1>2, ZeroIsAddress DEF Init, NoCall, Calls
<1>4. dns \in Resolvers /\ dns.port = NoPort
  BY <1>2, ZeroIsAddress, ResolverAssumption DEF Init, Resolvers, NoPort
<1>5. peer \in Peers /\ peer.by = "none"
  BY ZeroIsAddress DEF Init, NoPeer, Peers
<1>6. LookupTypeOK
  BY <1>2, <1>3, <1>4, <1>5 DEF Init, LookupTypeOK
<1>7. SocketGivenBack /\ QuestionsApart /\ ResolvedInv
  BY <1>3, <1>4, <1>5 DEF SocketGivenBack, QuestionsApart, ResolvedInv, PacketGoesToHost
<1> QED BY <1>1, <1>6, <1>7 DEF ResolverInv, LookupPart

LEMMA ResolverStep == ASSUME ResolverInv, [Next]_vars PROVE ResolverInv'
<1>1. ConfigInv'
  BY ConfigKeeps DEF ResolverInv
<1>2. LookupPart'
  <2>1. CASE Configure
    BY <2>1, ConfigureStep DEF ResolverInv
  <2>2. CASE Tick
    BY <2>2, TickStep DEF ResolverInv
  <2>3. CASE \E op \in Ops, host \in Hosts : Lookup(op, host)
    BY <2>3, LookupCallStep DEF ResolverInv
  <2>4. CASE LookupStep
    BY <2>4, OpenSocketStep, BuildRequestStep, SendRequestStep, ResponseStep, StopSocketStep,
       ReturnStep DEF LookupStep, ResolverInv
  <2>5. CASE ResponseArrives
    BY <2>5, ResponseStep DEF ResolverInv
  <2>6. CASE UNCHANGED vars
    BY <2>6 DEF vars, lookupVars, ResolverInv, LookupPart, LookupTypeOK, SocketGivenBack,
                QuestionsApart, ResolvedInv, PacketGoesToHost
  <2> QED BY <2>1, <2>2, <2>3, <2>4, <2>5, <2>6 DEF Next
<1> QED BY <1>1, <1>2 DEF ResolverInv

(* The invariant that the next three theorems read off: configuration,     *)
(* types, the lookup's socket, its question and its result.                *)
THEOREM ResolverInvariant == Spec => []ResolverInv
<1>1. Init => ResolverInv
  BY ResolverInitial
<1>2. ResolverInv /\ [Next]_vars => ResolverInv'
  BY ResolverStep
<1> QED BY <1>1, <1>2, PTL DEF Spec

(* A lookup has its socket exactly while it needs one, in whichever way it *)
(* ends, and no other question under way can be taken for its own.         *)
THEOREM LookupsApart == Spec => []LookupInv
<1>1. ResolverInv => LookupInv
  BY DEF ResolverInv, ConfigInv, LookupPart, LookupInv, TypeOK
<1> QED BY <1>1, ResolverInvariant, PTL

(* getHostByName returns 1 only with an address of the host.               *)
THEOREM ResolvedIsRight == Spec => []ResolvesRight
<1>1. ResolverInv => ResolvesRight
  BY DEF ResolverInv, LookupPart, ResolvedInv, ResolvesRight
<1> QED BY <1>1, ResolverInvariant, PTL

(* beginPacket with a name sends to an address of that host or not at all. *)
THEOREM PacketsReachTheirHost == Spec => []PacketGoesToHost
<1>1. ResolverInv => PacketGoesToHost
  BY DEF ResolverInv, LookupPart, ResolvedInv
<1> QED BY <1>1, ResolverInvariant, PTL
=============================================================================
