-------------------------------- MODULE Dhcp --------------------------------
(***************************************************************************)
(* The DHCP client, class DhcpClass (src/src/Dhcp.cpp), and the calls that *)
(* drive it and configure the chip, EthernetClass::begin(mac) and          *)
(* maintain() (src/src/EthernetAdv.cpp:37-65, 113-139).                    *)
(*                                                                         *)
(* begin() obtains a first lease; the sketch then polls maintain(), which  *)
(* counts the seconds to the renewal (T1) and to the rebinding (T2) and    *)
(* runs the exchange with a server again when one is due.  The exchange is *)
(* one loop over the state of the client, left with a lease or when its    *)
(* time is up.  Datagrams are lost, delayed, reordered and duplicated; the *)
(* socket the exchange needs may not be had.                               *)
(*                                                                         *)
(* One action is one turn of the loop, up to and including the test of the *)
(* time limit at its end.                                                  *)
(***************************************************************************)
EXTENDS Integers, FiniteSets

CONSTANTS
  Addrs, Servers,   \* addresses and servers,
  Pool,             \* and the addresses that each server offers
  Times,            \* options of a reply: lease, T1, T2 in seconds; 0: absent
  Gives,            \* which of Settings a reply has an option for
  Junk,             \* what memory new DhcpClass finds in the two counters
  Initials,         \* the random first transaction identifiers
  Elapses,          \* whole seconds that pass between two maintain()
  MaxRounds,        \* bound: retransmissions within the time limit
  InFlight          \* bound: replies on their way at a time

DefaultLease == 900         \* DEFAULT_LEASE
None == "none"              \* the zero address

\* What comes with an address, each in an option of its own.
Settings == {"subnetMask", "gatewayIp", "dnsServerIp"}

ASSUME NetworkAssumption ==
  /\ None \notin Addrs \cup Servers
  /\ Times \subseteq [lease : Nat, t1 : Nat, t2 : Nat]
  /\ Gives \subseteq SUBSET Settings
  /\ Pool \in [Servers -> SUBSET Addrs]
ASSUME NumberAssumption ==
  Junk \subseteq Nat /\ Initials \subseteq Nat /\ Elapses \subseteq Nat

VARIABLES
  d,         \* the members of DhcpClass; a setting is named by its server
  pc,        \* "off", "idle", and within request_DHCP_lease "request", "loop", "done"
  caller,    \* of request_DHCP_lease: "begin", "renew", "rebind"; else the "sketch"
  late,      \* millis() - startTime has passed _timeout
  inUse,     \* the chip's registers and _dnsServerAddress: ip, settings
  rc,        \* what maintain() returned, 0 since the next call
  net,       \* the network: replies on their way
  acked,     \* ghost: addresses a server has acknowledged
  grant      \* ghost: the acknowledgement taken last

vars == <<d, pc, caller, late, inUse, rc, net, acked, grant>>

State == {"START", "DISCOVER", "REQUEST", "LEASED", "REREQUEST"}

NoSettings == [s \in Settings |-> None]

\* beginWithDHCP and reset_DHCP_lease set the rest; the counters and
\* identifiers are left as they are.
Init ==
  /\ \E r \in Junk, b \in Junk :
       d = [state |-> "START", localIp |-> None, serverIp |-> None,
            leaseTime |-> 0, T1 |-> 0, T2 |-> 0, renew |-> r, rebind |-> b,
            initial |-> 0, xid |-> 0, settings |-> NoSettings]
  /\ pc = "off" /\ caller = "sketch" /\ late = FALSE
  /\ inUse = [ip |-> None, settings |-> NoSettings] /\ rc = 0
  /\ net = {} /\ acked = {}
  /\ grant = [ip |-> None, srv |-> None, gives |-> {}]

-----------------------------------------------------------------------------
(* The network *)

NoTimes == [lease |-> 0, t1 |-> 0, t2 |-> 0]

Offers(x) ==
  {m \in [type : {"OFFER"}, xid : {x}, ip : Addrs, srv : Servers, times : Times, gives : Gives] :
     m.ip \in Pool[m.srv]}

\* The server a request names answers it, and grants only what is its own.
Answers(x, ip, srv) ==
  {m \in      [type : {"ACK"}, xid : {x}, ip : {ip} \cap Addrs, srv : {srv} \cap Servers,
               times : Times, gives : Gives]
         \cup [type : {"NAK"}, xid : {x}, ip : {None}, srv : {srv} \cap Servers,
               times : {NoTimes}, gives : {{}}] :
     m.type = "ACK" => m.ip \in Pool[m.srv]}

\* What comes of a broadcast: nothing, the reply of a server or those of two.
Heard(replies) == {new \in SUBSET replies : Cardinality(new) <= 2}

\* It is sent, and older replies may be lost.
Sends(replies) ==
  \E new \in Heard(replies), kept \in SUBSET net :
    /\ Cardinality(kept \cup new) <= InFlight
    /\ net' = kept \cup new
    /\ acked' = acked \cup {m.ip : m \in {n \in new : n.type = "ACK"}}
    /\ UNCHANGED grant

TimePasses ==
  /\ pc = "loop" /\ ~late
  /\ late' = TRUE
  /\ UNCHANGED <<d, pc, caller, inUse, rc, net, acked, grant>>

-----------------------------------------------------------------------------
(* request_DHCP_lease *)

\* Entering it.
Requests(who, dd) ==
  /\ d' = dd
  /\ pc' = "request" /\ caller' = who

\* A transaction identifier, and the UDP socket.
RequestOpens ==
  /\ pc = "request"
  /\ \E x \in Initials : d' = [d EXCEPT !.initial = x, !.xid = x]
  /\ pc' = "loop" /\ late' = FALSE
  /\ UNCHANGED <<caller, inUse, rc, net, acked, grant>>

\* Goes on until there is a lease.
TimeIsUp_Never == FALSE

TimeIsUp == late

\* The end of a turn: the condition of the loop, and the break.
Turns(dd) ==
  /\ d' = dd
  /\ pc' = IF dd.state = "LEASED" \/ TimeIsUp THEN "done" ELSE "loop"
  /\ UNCHANGED <<caller, late, inUse, rc>>

\* A waiting reply takes _responseTimeout, so that only so many fit.
RoundsLeft == d.xid < d.initial + MaxRounds \/ late

SendDiscover ==
  /\ pc = "loop" /\ d.state = "START" /\ RoundsLeft
  /\ Sends(Offers(d.xid + 1))
  /\ Turns([d EXCEPT !.xid = @ + 1, !.state = "DISCOVER"])

SendRerequest ==
  /\ pc = "loop" /\ d.state = "REREQUEST" /\ RoundsLeft
  /\ Sends(Answers(d.xid + 1, d.localIp, d.serverIp))
  /\ Turns([d EXCEPT !.xid = @ + 1, !.state = "REQUEST"])

\* An option that is present replaces the value.
Option(old, new) == IF new = 0 THEN old ELSE new

\* parseDHCPResponse on a reply of this exchange: the address is taken
\* whatever the type, the server only if none is known (a server identifies
\* itself by the address it sends from), the counter of the renewal with the
\* lease time; and each setting there is an option for, whoever gave the
\* others.
Parsed(m) ==
  [d EXCEPT !.localIp = m.ip,
            !.serverIp = IF @ = None THEN m.srv ELSE @,
            !.leaseTime = Option(@, m.times.lease),
            !.T1 = Option(@, m.times.t1), !.T2 = Option(@, m.times.t2),
            !.renew = Option(@, m.times.lease),
            !.settings = [s \in Settings |-> IF s \in m.gives THEN m.srv ELSE @[s]]]

\* if (_dhcpT1 == 0): T1 is half the lease, T2 seven eighths of it.
HalfOf(lease) == lease \div 2
SevenEighthsOf(lease) == lease - lease \div 8

\* A lease: what the options left open is calculated.
Leased(dd) ==
  LET lease == IF dd.leaseTime = 0 THEN DefaultLease ELSE dd.leaseTime
      t1 == IF dd.T1 = 0 THEN HalfOf(lease) ELSE dd.T1
      t2 == IF dd.T2 = 0 THEN SevenEighthsOf(lease) ELSE dd.T2
  IN [dd EXCEPT !.state = "LEASED", !.leaseTime = lease, !.T1 = t1, !.T2 = t2,
                !.renew = t1, !.rebind = t2]

InExchange(m) == d.initial <= m.xid /\ m.xid <= d.xid

GetOffer(m) ==
  /\ pc = "loop" /\ d.state = "DISCOVER"
  /\ InExchange(m) /\ m.type = "OFFER"
  /\ LET dd == Parsed(m) IN
       /\ Sends(Answers(m.xid, dd.localIp, dd.serverIp))
       /\ Turns([dd EXCEPT !.xid = m.xid, !.state = "REQUEST"])

\* Takes any answer that is not a refusal.
Grants_AllButNak(type) == type # "NAK"

Grants(type) == type = "ACK"

GetAck(m) ==
  /\ pc = "loop" /\ d.state = "REQUEST"
  /\ InExchange(m) /\ Grants(m.type)
  /\ Turns(Leased(Parsed(m)))
  /\ grant' = [ip |-> m.ip, srv |-> m.srv, gives |-> m.gives]
  /\ UNCHANGED <<net, acked>>

GetNak(m) ==
  /\ pc = "loop" /\ d.state = "REQUEST"
  /\ InExchange(m) /\ m.type = "NAK"
  /\ Turns([Parsed(m) EXCEPT !.state = "START"])
  /\ UNCHANGED <<net, acked, grant>>

\* Replies that the state has no use for have been parsed all the same.
GetOther(m) ==
  /\ pc = "loop" /\ InExchange(m)
  /\ \/ d.state = "DISCOVER" /\ m.type # "OFFER"
     \/ d.state = "REQUEST" /\ ~Grants(m.type) /\ m.type # "NAK"
  /\ Turns(Parsed(m))
  /\ UNCHANGED <<net, acked, grant>>

\* A broadcast to another client, or of an exchange that is over.
GetForeign ==
  /\ pc = "loop" /\ d.state \in {"DISCOVER", "REQUEST"}
  /\ Turns(d)
  /\ UNCHANGED <<net, acked, grant>>

\* parseDHCPResponse has waited _responseTimeout: 255, and the exchange
\* starts over.
ResponseTimeout ==
  /\ pc = "loop" /\ d.state \in {"DISCOVER", "REQUEST"}
  /\ Turns([d EXCEPT !.state = "START"])
  /\ UNCHANGED <<net, acked, grant>>

-----------------------------------------------------------------------------
(* begin() and maintain() *)

\* reset_DHCP_lease: one memset over the five addresses, and from the start.
Reset(dd) == [dd EXCEPT !.state = "START", !.localIp = None, !.serverIp = None,
                        !.settings = NoSettings]

\* begin(mac), the first one or another: no address yet, and a lease is asked
\* for.
BeginCall ==
  /\ pc \in {"off", "idle"}
  /\ inUse' = [inUse EXCEPT !.ip = None]
  /\ Requests("begin", [Reset(d) EXCEPT !.leaseTime = 0, !.T1 = 0, !.T2 = 0])
  /\ rc' = 0
  /\ UNCHANGED <<late, net, acked, grant>>

\* Down by the seconds that passed; rather early than late.
Countdown(left, e) == IF left < 2 * e THEN 0 ELSE left - e

\* Rebinds only while there is a lease.
RebindDue_OnlyLeased(dd) == dd.rebind = 0 /\ dd.state = "LEASED"

RebindDue(dd) == dd.rebind = 0 /\ dd.state \in {"LEASED", "START"}

\* The times of the old lease stay.
Rebinds(dd) == Requests("rebind", Reset(dd))

\* DHCP_CHECK_RENEW_OK, DHCP_CHECK_REBIND_OK
TellsChip(code) == code \in {2, 4}

\* The address alone.
Tells_AddressOnly(dd) == inUse' = [inUse EXCEPT !.ip = dd.localIp]

\* What begin() and maintain() take over from DhcpClass.
Configuration(dd) == [ip |-> dd.localIp, settings |-> dd.settings]

Tells(dd) == inUse' = Configuration(dd)

\* maintain() returns what checkLease() did, and tells the chip.
Maintained(code, dd) ==
  /\ rc' = code
  /\ d' = dd /\ pc' = "idle" /\ caller' = "sketch"
  /\ IF TellsChip(code) THEN Tells(dd) ELSE UNCHANGED inUse

\* checkLease(), e seconds after the last one, up to its first exchange.
Maintain(e) ==
  /\ pc = "idle"
  /\ LET dd == [d EXCEPT !.renew = Countdown(@, e), !.rebind = Countdown(@, e)] IN
     \/ /\ dd.renew = 0 /\ dd.state = "LEASED"
        /\ Requests("renew", [dd EXCEPT !.state = "REREQUEST"])
        /\ rc' = 0
        /\ UNCHANGED inUse
     \/ /\ ~(dd.renew = 0 /\ dd.state = "LEASED") /\ RebindDue(dd)
        /\ Rebinds(dd)
        /\ rc' = 0
        /\ UNCHANGED inUse
     \/ /\ ~(dd.renew = 0 /\ dd.state = "LEASED") /\ ~RebindDue(dd)
        /\ Maintained(0, dd)
  /\ UNCHANGED <<late, net, acked, grant>>

\* request_DHCP_lease returns 1 with a lease and 0 otherwise: to begin(), or
\* to checkLease(), which after a renewal looks whether to rebind.
Returns(dd) ==
  LET result == IF dd.state = "LEASED" THEN 1 ELSE 0 IN
  \/ /\ caller = "begin"
     /\ d' = dd /\ pc' = "idle" /\ caller' = "sketch"
     /\ IF result = 1 THEN Tells(dd) ELSE UNCHANGED inUse
     /\ UNCHANGED rc
  \/ /\ caller = "renew" /\ RebindDue(dd)
     /\ Rebinds(dd)
     /\ UNCHANGED <<inUse, rc>>
  \/ caller = "renew" /\ ~RebindDue(dd) /\ Maintained(1 + result, dd)
  \/ caller = "rebind" /\ Maintained(3 + result, dd)

\* All sockets are in use: the exchange does not take place.
RequestNoSocket ==
  /\ pc = "request"
  /\ \E x \in Initials : Returns([d EXCEPT !.initial = x, !.xid = x])
  /\ UNCHANGED <<late, net, acked, grant>>

RequestEnds ==
  /\ pc = "done"
  /\ Returns([d EXCEPT !.xid = @ + 1])
  /\ late' = FALSE
  /\ UNCHANGED <<net, acked, grant>>

-----------------------------------------------------------------------------
GetReply == \E m \in net : GetOffer(m) \/ GetAck(m) \/ GetNak(m) \/ GetOther(m)

Exchange ==
  \/ RequestOpens \/ SendDiscover \/ SendRerequest
  \/ GetReply \/ GetForeign \/ ResponseTimeout

RequestStep == Exchange \/ RequestNoSocket \/ RequestEnds

Next == TimePasses \/ BeginCall \/ RequestStep \/ \E e \in Elapses : Maintain(e)

Polls == \E e \in Elapses : e > 0 /\ Maintain(e)

(* A call in progress goes on, its time runs out, and the sketch keeps     *)
(* polling maintain() while the seconds pass.                              *)
Spec == Init /\ [][Next]_vars
             /\ WF_vars(RequestStep) /\ WF_vars(TimePasses) /\ WF_vars(Polls)

-----------------------------------------------------------------------------
Messages ==
  [type : {"OFFER", "ACK", "NAK"}, xid : Nat, ip : Addrs \cup {None},
   srv : Servers, times : [lease : Nat, t1 : Nat, t2 : Nat], gives : SUBSET Settings]

SettingsOf == [Settings -> Servers \cup {None}]

Members ==
  [state : State, localIp : Addrs \cup {None}, serverIp : Servers \cup {None},
   leaseTime : Nat, T1 : Nat, T2 : Nat, renew : Nat, rebind : Nat,
   initial : Nat, xid : Nat, settings : SettingsOf]

Configurations == [ip : Addrs \cup {None}, settings : SettingsOf]

Acknowledgements ==
  [ip : Addrs \cup {None}, srv : Servers \cup {None}, gives : SUBSET Settings]

TypeOK ==
  /\ d \in Members
  /\ pc \in {"off", "idle", "request", "loop", "done"}
  /\ caller \in {"sketch", "begin", "renew", "rebind"}
  /\ late \in BOOLEAN
  /\ inUse \in Configurations
  /\ rc \in 0 .. 4
  /\ net \subseteq Messages
  /\ acked \subseteq Addrs \cup {None}
  /\ grant \in Acknowledgements

(* The chip never uses an address that no server has acknowledged, however *)
(* replies are delayed, repeated and reordered.                            *)
OnlyAcknowledged == inUse.ip # None => inUse.ip \in acked

(* The chip and the lease agree: whenever the client believes it holds a   *)
(* lease, and while it asks to prolong it, the chip uses the leased        *)
(* address with what DhcpClass holds beside it, whichever of begin(),      *)
(* renewal and rebinding obtained it and whatever failed in between.       *)
ChipHasTheLease ==
  \/ pc = "idle" /\ d.state = "LEASED"
  \/ d.state = "REREQUEST"
  => inUse = Configuration(d)

\* The address of the last acknowledgement, and every setting it came with.
AsGranted(c) == c.ip = grant.ip /\ \A s \in grant.gives : c.settings[s] = grant.srv

(* A configuration in use is that of the last acknowledgement, in every    *)
(* setting the acknowledgement has an option for, although offers, refusals *)
(* and late answers of either server have been parsed into the same        *)
(* members since or before, and begin() and maintain() have failed.  A     *)
(* setting it leaves out may be of another server's reply: so it is in the *)
(* code.                                                                   *)
ConfigurationOfGrant ==
  LET told == ~(pc = "done" /\ d.state = "LEASED") IN
    /\ d.state = "LEASED" => AsGranted(Configuration(d))
    /\ inUse.ip # None /\ told => AsGranted(inUse)

(* request_DHCP_lease returns within its time limit, whatever the network  *)
(* does: replies for other clients cannot keep it.                         *)
RequestReturns == (pc = "loop") ~> (pc = "idle")

(* A client that went back to the start asks again: the time of its        *)
(* rebinding comes.                                                        *)
RetriesFromStart == (pc = "idle" /\ d.state = "START") ~> (pc = "request")

(* What carries the invariants: an acknowledgement on its way, and an      *)
(* address the client holds a lease of, have been acknowledged; and a      *)
(* lease that was just granted is not due for rebinding, which would throw *)
(* it away before the chip is told (checkLease, after a renewal); and who *)
(* asks for a lease holds none.                                            *)
LeaseInv ==
  /\ \A m \in net : m.type = "ACK" => m.ip \in acked
  /\ d.state = "LEASED" => d.localIp \in acked
  /\ pc = "done" /\ d.state = "LEASED" => d.rebind > 0
  /\ pc = "request" => d.state # "LEASED"

(* The address in the chip is one that a server gave this client and the   *)
(* one the client believes to hold: with LeaseInv, inductive.              *)
DhcpInv == TypeOK /\ OnlyAcknowledged /\ ChipHasTheLease /\ LeaseInv

-----------------------------------------------------------------------------
(* A statement of the repository's comments that the code does not keep.   *)

(* EthernetAdv.cpp:134 on a failed renewal or rebinding: "this is actually *)
(* an error, it will retry though".                                        *)
RetriesAfterError == (pc = "idle" /\ rc \in {1, 3}) ~> (pc = "request")
=============================================================================
