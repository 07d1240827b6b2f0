-------------------------------- MODULE Dns --------------------------------
(***************************************************************************)
(* Resolving names: DNSClient (src/src/Dns.cpp) and the two calls of the   *)
(* library that use it, EthernetClient::connect(host) and                  *)
(* EthernetUDP::beginPacket(host), with the server that the configuration  *)
(* of module EthernetConfig names.                                         *)
(*                                                                         *)
(* A lookup asks one question from one of sixteen ports and waits for the  *)
(* first datagram there, which may be its answer, the late or repeated     *)
(* answer to an earlier question, or anything else.                        *)
(***************************************************************************)
EXTENDS EthernetConfig, FiniteSets, SequencesExt

CONSTANTS
  Sketches,    \* what a sketch does: "configure" or "resolve"
  Names,       \* host names that are not addresses, as sequences of characters
  AddrOf,      \* the addresses a name has
  Numeric,     \* addresses the sketch writes in dotted decimal
  Stranger,    \* the address of a host that is no DNS server
  IntWidths,   \* width of an int: 16 on an AVR, 32 elsewhere
  Ports,       \* 16: how many ports a lookup asks from
  ClockMod,    \* 65536: millis() as the 16 bits of an identifier keep it
  Timeout,     \* 5000 ms
  Lifetime,    \* bound: how long the network keeps an answer
  InFlight     \* bound: questions of which the answers are under way

Dot == 10                          \* the characters: a digit is its value,
Letter == 11                       \* and all that is neither digit nor dot
Char == 0 .. Letter

ASSUME NamesAssumption ==
  /\ \A n \in Names : n \in Seq(Char)
  /\ AddrOf \in [Names -> SUBSET Address]
  /\ Numeric \subseteq Address /\ Stranger \in Address

ASSUME ResolverAssumption ==
  /\ Sketches \subseteq {"configure", "resolve"}
  /\ IntWidths \subseteq {16, 32}
  /\ Ports \in Nat /\ 0 < Ports
  /\ Timeout \in Nat /\ Lifetime \in Nat /\ InFlight \in Nat
  /\ ClockMod \in Nat /\ Timeout + 1 < ClockMod /\ Lifetime < ClockMod

VARIABLES
  sketch,
  intWidth,
  now,        \* millis(), in units of the bounds
  dns,        \* the DNSClient: iDNSServer, iRequestId, and the port of iUdp
  call,       \* the call in progress: op, host, what it does next, its locals
  asked,      \* questions whose answers may still be under way
  peer        \* ghost: the address the last call went on with, for which host

lookupVars == <<sketch, intWidth, now, dns, call, asked, peer>>
vars == <<configVars, lookupVars>>

NoPort == Ports
NoCall == [op |-> "none", at |-> "idle", host |-> <<>>, ret |-> 0, aResult |-> Zero,
           start |-> 0, waits |-> 0]
NoPeer == [by |-> "none", host |-> <<>>, address |-> Zero]

-----------------------------------------------------------------------------
(* What a name denotes, from the network's point of view                   *)

Decimal(n) == IF n < 10 THEN <<n>>
              ELSE IF n < 100 THEN <<n \div 10, n % 10>>
              ELSE <<n \div 100, (n \div 10) % 10, n % 10>>

Dotted(a) == Decimal(a[1]) \o <<Dot>> \o Decimal(a[2]) \o <<Dot>>
               \o Decimal(a[3]) \o <<Dot>> \o Decimal(a[4])

Hosts == Names \cup {Dotted(a) : a \in Numeric}

Denotes(host, a) == IF host \in Names THEN a \in AddrOf[host] ELSE host = Dotted(a)

-----------------------------------------------------------------------------
(* DNSClient::inet_aton                                                    *)

\* One turn of its loop; once ok is FALSE it has returned 0.
Reads(p, c) ==
  CASE ~p.ok -> p
    [] p.ok /\ c < Dot ->
         [p EXCEPT !.acc = @ * 10 + c, !.ok = p.acc * 10 + c <= 255]
    [] p.ok /\ c = Dot /\ p.dots < 3 ->
         [p EXCEPT !.result[p.dots + 1] = p.acc, !.dots = @ + 1, !.acc = 0]
    [] OTHER -> [p EXCEPT !.ok = FALSE]

\* The octets read before it fails stay in the result.
inet_aton(address, result) ==
  LET p == FoldLeft(Reads, [ok |-> TRUE, acc |-> 0, dots |-> 0, result |-> result], address)
  IN IF p.ok /\ p.dots = 3
     THEN [ret |-> 1, result |-> [p.result EXCEPT ![4] = p.acc]]
     ELSE [ret |-> 0, result |-> p.result]

(* What is known of inet_aton for the hosts of an instance: it reads the   *)
(* addresses right and takes no name for one.                              *)
ASSUME HostsAssumption ==
  \A host \in Hosts :
    LET a == inet_aton(host, Zero) IN
      /\ a.ret \in {0, 1} /\ a.result \in Address
      /\ a.ret = 1 => Denotes(host, a.result)

-----------------------------------------------------------------------------
(* DNSClient::ProcessResponse                                              *)

SUCCESS == 1
TIMED_OUT == -1
INVALID_SERVER == -2
TRUNCATED == -3
INVALID_RESPONSE == -4
ERROR_RESPONSE == -5
NO_ANSWERS == -6
ODD_ANSWER == -9
NO_ADDRESS == -10

\* As if any answer of the server were taken for the answer.
IsAnswer_AnyId(id, d) == d.response

\* The answer to the question with this identifier.
IsAnswer(id, d) == d.id = id /\ d.response

\* The records of an answer: A records by their length, all others are skipped.
FirstA(records) == SelectInSeq(records, LAMBDA r : r.type = "A")

\* The checks of a datagram, in their order.
Judged(server, id, d) ==
  CASE d.from # server                       -> INVALID_SERVER
    [] d.from = server /\ d.short            -> TRUNCATED
    [] OTHER ->
  CASE ~IsAnswer(id, d)                      -> INVALID_RESPONSE
    [] IsAnswer(id, d) /\ d.error            -> ERROR_RESPONSE
    [] OTHER ->
  CASE d.records = <<>>                      -> NO_ANSWERS
    [] d.records # <<>> /\ FirstA(d.records) = 0 -> NO_ADDRESS
    [] OTHER -> IF d.records[FirstA(d.records)].length = 4 THEN SUCCESS ELSE ODD_ANSWER

\* ProcessResponse() returns a uint16_t, which an int of 16 bits makes
\* negative again and a wider one does not.
AsInt(v) == IF intWidth = 16 THEN v ELSE v % 65536

-----------------------------------------------------------------------------
(* The network                                                             *)

Age(q) == (now - q.id) % ClockMod

Records(host) ==
  LET a == [type : {"A"}, length : {4}, address : IF host \in Names THEN AddrOf[host] ELSE {}]
      odd == [type |-> "A", length |-> 16, address |-> Zero]
      alias == [type |-> "CNAME", length |-> 9, address |-> Zero]
  IN {<<>>, <<odd>>, <<alias>>} \cup {<<r>> : r \in a} \cup {<<alias, r>> : r \in a}

\* What may be in the socket when the library polls it: an answer to any
\* question asked from this port, lost answers being those never taken and
\* repeated ones those taken twice; a datagram of the server that is no
\* answer; or one of somebody else.
Datagrams ==
  LET blank == [from |-> dns.iDNSServer, id |-> dns.iRequestId, response |-> FALSE,
                short |-> FALSE, error |-> FALSE, records |-> <<>>]
  IN {blank, [blank EXCEPT !.short = TRUE], [blank EXCEPT !.from = Stranger]}
     \cup UNION {[from : {q.server}, id : {q.id}, response : {TRUE}, short : {FALSE},
                  error : BOOLEAN, records : Records(q.host)]
                 : q \in {q \in asked : q.port = dns.port}}

-----------------------------------------------------------------------------
Init ==
  /\ ConfigInit
  /\ sketch \in Sketches /\ intWidth \in IntWidths
  /\ now = 0
  /\ dns = [iDNSServer |-> Zero, iRequestId |-> 0, port |-> NoPort]
  /\ call = NoCall /\ asked = {}
  /\ peer = NoPeer

\* A sketch that resolves names takes its configuration from DHCP, with
\* begin() in setup(), and the lease may change between its lookups.
Configure ==
  /\ call.at = "idle"
  /\ \/ sketch = "configure" /\ (ConfigStep \/ Setter)
     \/ sketch = "resolve" /\ ((~initialized /\ BeginDhcp) \/ MaintainLease)
  /\ UNCHANGED lookupVars

TimeIsUp_Never(start) == FALSE

\* millis() - startTime > aTimeout
TimeIsUp(start) == (now - start) % ClockMod > Timeout

\* The wait polls every 50 ms, so that it sees its time limit pass.
Tick ==
  /\ sketch = "resolve"
  /\ call.at = "wait" => (now - call.start) % ClockMod <= Timeout
  /\ now' = (now + 1) % ClockMod
  /\ asked' = {q \in asked : Age(q) < Lifetime}
  /\ UNCHANGED <<configVars, sketch, intWidth, dns, call, peer>>

-----------------------------------------------------------------------------
(* DNSClient::getHostByName, on behalf of op                               *)

\* DNSClient::begin with the server of the configuration, and all of
\* getHostByName before it takes a socket.
Lookup(op, host) ==
  /\ call.at = "idle" /\ sketch = "resolve" /\ initialized
  /\ dns' = [dns EXCEPT !.iDNSServer = dnsServer]
  /\ LET a == inet_aton(host, Zero)
         asks == a.ret = 0 /\ dnsServer # Zero
     IN call' = [NoCall EXCEPT !.op = op, !.host = host, !.aResult = a.result,
                   !.at = IF asks THEN "socket" ELSE "resolved",
                   !.ret = IF asks THEN 0 ELSE IF a.ret = 1 THEN 1 ELSE INVALID_SERVER]
  /\ peer' = NoPeer
  /\ UNCHANGED <<configVars, sketch, intWidth, now, asked>>

Call(next) == call' = next /\ UNCHANGED <<configVars, sketch, intWidth, now, peer>>

\* iUdp.begin(1024 + (millis() & 0xF)); without a socket it returns 0.
OpenSocket ==
  /\ call.at = "socket"
  /\ \/ Call([call EXCEPT !.at = "resolved"]) /\ UNCHANGED dns
     \/ Call([call EXCEPT !.at = "build"]) /\ dns' = [dns EXCEPT !.port = now % Ports]
  /\ UNCHANGED asked

\* iUdp.beginPacket(), which accepts the server's address, and BuildRequest().
\* Assumed: a lookup takes a millisecond, so that two questions under way
\* never have the same identifier.
BuildRequest ==
  /\ call.at = "build"
  /\ \A q \in asked : q.id # now
  /\ dns' = [dns EXCEPT !.iRequestId = now]
  /\ Call([call EXCEPT !.at = "send"])
  /\ UNCHANGED asked

\* As if a request that could not be sent ended the lookup at once.
AfterNoSend_Returns == "resolved"

\* Whatever went wrong with a socket at hand, iUdp.stop() comes next.
AfterNoSend == "stop"

Question == [id |-> dns.iRequestId, port |-> dns.port, host |-> call.host,
             server |-> dns.iDNSServer]

\* iUdp.endPacket(); the question may be lost further on, and then so is its
\* answer.
SendRequest ==
  /\ call.at = "send"
  /\ \/ /\ Call([call EXCEPT !.at = AfterNoSend, !.ret = 0])
        /\ UNCHANGED asked
     \/ /\ Cardinality(asked) < InFlight
        /\ Call([call EXCEPT !.at = "wait", !.ret = TIMED_OUT, !.start = now])
        /\ asked' = asked \cup {Question}
  /\ UNCHANGED dns

\* The end of a ProcessResponse(): the loop waits again after a timeout, at
\* most three times.
Responded(v, address) ==
  /\ LET ret == AsInt(v)
         again == ret = TIMED_OUT /\ call.waits + 1 < 3
     IN Call([call EXCEPT !.ret = ret, !.aResult = address,
                !.at = IF again THEN "wait" ELSE "stop",
                !.waits = IF again THEN @ + 1 ELSE 0,
                !.start = IF again THEN now ELSE 0])
  /\ UNCHANGED <<dns, asked>>

ResponseArrives ==
  /\ call.at = "wait"
  /\ \E d \in Datagrams :
       LET v == Judged(dns.iDNSServer, dns.iRequestId, d)
       IN Responded(v, IF v = SUCCESS THEN d.records[FirstA(d.records)].address
                                      ELSE call.aResult)

ResponseTimesOut ==
  call.at = "wait" /\ TimeIsUp(call.start) /\ Responded(TIMED_OUT, call.aResult)

StopSocket ==
  /\ call.at = "stop"
  /\ dns' = [dns EXCEPT !.port = NoPort]
  /\ Call([call EXCEPT !.at = "resolved"])
  /\ UNCHANGED asked

-----------------------------------------------------------------------------
(* What the callers do with the outcome                                    *)

\* As if only 0 were a failure.
Unresolved_Zero(ret) == ret = 0

\* beginPacket(host): ret != 1
Unresolved(ret) == ret # 1

\* !dns.getHostByName(host, remote_addr)
ConnectRefuses(ret) == ret = 0

Broadcast == <<255, 255, 255, 255>>

\* connect(ip) and beginPacket(ip) refuse addresses that are none.
GoesOn ==
  \/ call.op = "connect" /\ ~ConnectRefuses(call.ret) /\ call.aResult \notin {Zero, Broadcast}
  \/ call.op = "beginPacket" /\ ~Unresolved(call.ret) /\ call.aResult # Zero

\* The DNSClient ends with the call, or is begun again before the next.
Return ==
  /\ call.at = "resolved"
  /\ dns' = [dns EXCEPT !.iDNSServer = Zero, !.iRequestId = 0]
  /\ peer' = IF GoesOn THEN [by |-> call.op, host |-> call.host, address |-> call.aResult]
                       ELSE peer
  /\ call' = NoCall
  /\ UNCHANGED <<configVars, sketch, intWidth, now, asked>>

-----------------------------------------------------------------------------
LookupStep ==
  OpenSocket \/ BuildRequest \/ SendRequest \/ ResponseTimesOut \/ StopSocket \/ Return

Ops == {"getHostByName", "connect", "beginPacket"}

Next ==
  \/ Configure
  \/ Tick
  \/ \E op \in Ops, host \in Hosts : Lookup(op, host)
  \/ LookupStep
  \/ ResponseArrives

(* A call goes on and time passes; nothing is asked of the network.        *)
Spec == Init /\ [][Next]_vars /\ WF_vars(LookupStep) /\ WF_vars(Tick)

-----------------------------------------------------------------------------
Clock == 0 .. ClockMod - 1
Resolvers == [iDNSServer : Address, iRequestId : Clock, port : 0 .. NoPort]
Calls == [op : Ops \cup {"none"}, host : Hosts \cup {<<>>}, ret : Int, aResult : Address,
          at : {"idle", "socket", "build", "send", "wait", "stop", "resolved"},
          start : Clock, waits : 0 .. 2]
Questions == [id : Clock, port : 0 .. Ports - 1, host : Hosts, server : Address]
Peers == [by : Ops \cup {"none"}, host : Hosts \cup {<<>>}, address : Address]

LookupTypeOK ==
  /\ sketch \in Sketches /\ intWidth \in IntWidths
  /\ now \in Clock
  /\ dns \in Resolvers /\ call \in Calls
  /\ asked \subseteq Questions
  /\ peer \in Peers

TypeOK == ConfigTypeOK /\ LookupTypeOK

\* A lookup holds a socket exactly while it has use for one.
SocketGivenBack == dns.port # NoPort <=> call.at \in {"build", "send", "wait", "stop"}

\* While a lookup waits, the question with its identifier is its own, although
\* identifiers are no more than the time; until then it has no result.
QuestionsApart ==
  /\ call.at # "idle" => call.host \in Hosts
  /\ call.at \in {"socket", "build", "send"} => call.ret = 0
  /\ call.at = "send" => \A q \in asked : q.id # dns.iRequestId
  /\ call.at = "wait" => \A q \in asked : q.id = dns.iRequestId => q.host = call.host

(* The resolver gives its socket back whichever way a lookup ends: no      *)
(* object of the sketch holds that socket, and nothing else would.  And no *)
(* other question under way can be taken for the one it waits for.         *)
LookupInv == TypeOK /\ SocketGivenBack /\ QuestionsApart

(* Dns.h:26-31: 1 means that the address is one of the host's, for a name  *)
(* and for an address in dotted decimal, whatever late answers to earlier  *)
(* questions, of other names and of other servers, are under way.          *)
ResolvesRight ==
  call.at = "resolved" /\ call.ret = 1 => Denotes(call.host, call.aResult)

(* A packet begun with a name goes to an address of that host or to none.  *)
PacketGoesToHost == peer.by = "beginPacket" => Denotes(peer.host, peer.address)

(* connect() with a name goes to an address of that host or to none:       *)
(* Dns.h:29-30 has anything but 1 for an error code.                       *)
ConnectGoesToHost == peer.by = "connect" => Denotes(peer.host, peer.address)

(* A lookup returns, although nobody may answer.                           *)
LookupReturns == (call.at # "idle") ~> (call.at = "idle")
=============================================================================
