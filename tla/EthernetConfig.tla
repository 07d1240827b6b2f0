--------------------------- MODULE EthernetConfig ---------------------------
(***************************************************************************)
(* How an EthernetClass configures its chip (src/src/EthernetAdv.cpp): the *)
(* five begin(), maintain() and the setters.                               *)
(*                                                                         *)
(* A configuration comes from the sketch, with defaults for what it leaves *)
(* out, or from DHCP.  Three parts of it are registers of the chip and     *)
(* one, the DNS server, is a member of EthernetClass; they belong          *)
(* together.  What happens within DhcpClass is the subject of module Dhcp: *)
(* here an exchange ends with a lease or without one, and the four members *)
(* that are taken over from it hold whatever its replies, of one server or *)
(* of several, have left in them.                                          *)
(***************************************************************************)
EXTENDS Integers, Sequences

CONSTANTS
  Statics,     \* arguments of begin(mac, ...): ip, dns, gateway, subnet, or
               \* fewer from the left
  LeaseIps, LeaseGateways, LeaseSubnets, LeaseServers,
               \* values the members of DhcpClass can take, each on its own
  ManualIp,    \* an address the sketch sets by hand
  OwnMac,      \* the MAC address the sketch begins with,
  Macs,        \* and those it sets later
  Counts,      \* numbers of retransmissions
  Times        \* retransmission times the sketch asks for, in ms: uint16_t

Octets == 0 .. 255
Address == [1 .. 4 -> Octets]
Zero == <<0, 0, 0, 0>>             \* INADDR_NONE, and what DHCP begins with
Registers == [ip : Address, gateway : Address, subnet : Address]

ASSUME StaticsAssumption == \A a \in Statics : a \in Seq(Address) /\ Len(a) \in 1 .. 4

ASSUME LeasesAssumption ==
  /\ LeaseIps \subseteq Address /\ LeaseGateways \subseteq Address
  /\ LeaseSubnets \subseteq Address /\ LeaseServers \subseteq Address
  /\ ManualIp \in Address

ASSUME LinkAssumption ==
  /\ Counts \subseteq Octets
  /\ \A t \in Times : t \in Nat /\ t < 65536

VARIABLES
  initialized,   \* W5x00Class::_initialized
  regs,          \* chip: SIPR, GAR, SUBR
  dnsServer,     \* _dnsServerAddress
  dhcp,          \* _dhcp is not null
  byHand,        \* ghost: a setter has been used on this configuration
  mac,           \* chip: SHAR; NoMac after a reset
  rcr,           \* chip: RCR, its count of retransmissions
  rtr,           \* chip: RTR, in tenths of a ms
  wantedTime     \* ghost: the time the sketch asked for

addressVars == <<regs, dnsServer, byHand>>
linkVars == <<mac, rcr, rtr, wantedTime>>
configVars == <<initialized, dhcp, addressVars, linkVars>>

NoMac == "no mac"

ConfigInit ==
  /\ initialized = FALSE /\ dhcp = FALSE /\ byHand = FALSE
  /\ regs = [ip |-> Zero, gateway |-> Zero, subnet |-> Zero]
  /\ dnsServer = Zero
  /\ mac = NoMac /\ rcr = 8 /\ rtr = 2000 /\ wantedTime = 200

-----------------------------------------------------------------------------
\* What getLocalIp, getGatewayIp, getSubnetMask and getDnsServerIp can return
\* together: an option that no reply had since the last reset is Zero, and one
\* that the last had not is of an earlier reply.
Leases ==
  [regs : [ip : LeaseIps, gateway : LeaseGateways, subnet : LeaseSubnets],
   dns : LeaseServers]

\* Address a with its last octet 1.
Neighbour(a) == [a EXCEPT ![4] = 1]

\* What the overloads of begin(mac, ip, ...) fill in.
Completed(a) ==
  [regs |-> [ip |-> a[1], gateway |-> IF Len(a) > 2 THEN a[3] ELSE Neighbour(a[1]),
             subnet |-> IF Len(a) > 3 THEN a[4] ELSE <<255, 255, 255, 0>>],
   dns |-> IF Len(a) > 1 THEN a[2] ELSE Neighbour(a[1])]

\* The chip is told, the DNS server forgotten.
Applies_RegistersOnly(c) ==
  /\ regs' = c.regs /\ byHand' = FALSE
  /\ UNCHANGED dnsServer

Applies(c) ==
  /\ regs' = c.regs /\ dnsServer' = c.dns /\ byHand' = FALSE

\* init(): a chip that has answered once is not reset again.
ChipInit(answers) ==
  /\ initialized => answers
  /\ initialized' = answers

\* Both kinds of begin() set the MAC address of a chip that answers.
SetsMac(answers) ==
  /\ IF answers THEN mac' = OwnMac ELSE UNCHANGED mac
  /\ UNCHANGED <<rcr, rtr, wantedTime>>

\* begin(mac, ip, ...); without a chip it returns before anything is set.
BeginStatic ==
  /\ \E a \in Statics, answers \in BOOLEAN :
       /\ ChipInit(answers) /\ SetsMac(answers)
       /\ IF answers THEN Applies(Completed(a)) ELSE UNCHANGED addressVars
  /\ UNCHANGED dhcp

\* begin(mac): the old address goes first, the rest only when there is a
\* lease.
BeginDhcp ==
  /\ dhcp' = TRUE
  /\ \E answers \in BOOLEAN :
       /\ ChipInit(answers) /\ SetsMac(answers)
       /\ \/ ~answers /\ UNCHANGED addressVars
          \/ answers /\ \E c \in Leases : Applies(c)
          \/ answers /\ regs' = [regs EXCEPT !.ip = Zero] /\ UNCHANGED <<dnsServer, byHand>>

\* maintain(): what DhcpClass holds after a renewal or a rebinding is applied;
\* with any other outcome of checkLease() all stays as it is.
MaintainLease ==
  /\ dhcp /\ initialized
  /\ \E c \in Leases : Applies(c)
  /\ UNCHANGED <<initialized, dhcp, linkVars>>

\* setLocalIP, setGatewayIP, setSubnetMask and setDnsServerIP, which are not
\* for use with DHCP.
SetAddress ==
  /\ ~dhcp
  /\ \/ \E part \in {"ip", "gateway", "subnet"} :
          regs' = [regs EXCEPT ![part] = ManualIp] /\ UNCHANGED dnsServer
     \/ dnsServer' = ManualIp /\ UNCHANGED regs
  /\ byHand' = TRUE
  /\ UNCHANGED linkVars

\* What RTR can hold.
Clamped(milliseconds) == IF milliseconds > 6553 THEN 6553 ELSE milliseconds

\* setMACAddress, setRetransmissionCount, setRetransmissionTimeout
SetLink ==
  /\ \/ mac' \in Macs /\ UNCHANGED <<rcr, rtr, wantedTime>>
     \/ rcr' \in Counts /\ UNCHANGED <<mac, rtr, wantedTime>>
     \/ /\ wantedTime' \in Times
        /\ rtr' = (Clamped(wantedTime') * 10) % 65536
        /\ UNCHANGED <<mac, rcr>>
  /\ UNCHANGED addressVars

\* The setters, on a chip that init() has found.
Setter == initialized /\ (SetAddress \/ SetLink) /\ UNCHANGED <<initialized, dhcp>>

ConfigStep == BeginStatic \/ BeginDhcp \/ MaintainLease

-----------------------------------------------------------------------------
ConfigTypeOK ==
  /\ initialized \in BOOLEAN /\ dhcp \in BOOLEAN /\ byHand \in BOOLEAN
  /\ regs \in Registers
  /\ dnsServer \in Address
  /\ mac \in Macs \cup {OwnMac, NoMac} /\ rcr \in Octets /\ rtr \in Nat /\ rtr < 65536

(* docs/api.md:26-30: what the sketch leaves out.                          *)
Documented(c, a) ==
  /\ c.regs.ip = a[1]
  /\ Len(a) >= 2 => c.dns = a[2]
  /\ Len(a) >= 3 => c.regs.gateway = a[3]
  /\ Len(a) >= 4 => c.regs.subnet = a[4]
  /\ Len(a) < 2 => c.dns = [a[1] EXCEPT ![4] = 1]
  /\ Len(a) < 3 => c.regs.gateway = [a[1] EXCEPT ![4] = 1]
  /\ Len(a) < 4 => c.regs.subnet = <<255, 255, 255, 0>>

\* What is in use comes from one begin() of the sketch or from DHCP, or was
\* made by the setters.
OneSource ==
  regs.ip # Zero /\ ~byHand =>
    LET c == [regs |-> regs, dns |-> dnsServer] IN
      c \in Leases \/ \E a \in Statics : Documented(c, a)

\* The chip does not retransmit sooner than the sketch asked, up to the
\* longest time it can count.
NeverSooner == rtr >= 10 * wantedTime \/ rtr >= 65530

(* An address the sketch gave is never used with a gateway, a subnet mask  *)
(* or a DNS server of DHCP or of another begin(), nor one of DHCP with     *)
(* what the sketch gave, whichever of begin() and maintain() succeeded and *)
(* failed before: only the setters mix.  And the times the sketch sets do  *)
(* not overflow the chip's register.  That the values DHCP gives are of    *)
(* one server is not said: see ConfigurationOfGrant in module Dhcp.        *)
ConfigurationOfOneSource == OneSource /\ NeverSooner
=============================================================================
