---------------------------- MODULE SocketTable -----------------------------
(***************************************************************************)
(* How the library allots the hardware sockets: EthernetClass::socketBegin *)
(* and socketBeginMulticast (src/src/socket.cpp:42-168), next to the other *)
(* commands the library gives a socket.                                    *)
(*                                                                         *)
(* socketBegin reads the statuses one by one, while the chip moves on, and *)
(* takes the first closed socket it meets.  When there is none it decides  *)
(* on the statuses it has noted, without reading them again, and closes by *)
(* force the first socket noted as closing.                                *)
(***************************************************************************)
EXTENDS WiznetSocket

CONSTANTS
  MaxSockNum,       \* maxSockNum(): 4 on a W5100, up to 8 on the others
  PortMin, PortMod  \* 49152 and 65536 in the code: the ephemeral ports

ASSUME SocketAssumption == MaxSockNum \in Nat /\ 0 < MaxSockNum
ASSUME PortAssumption ==
  /\ PortMin \in Nat /\ 0 < PortMin
  /\ PortMod \in Nat /\ PortMin < PortMod

Socks == 0 .. MaxSockNum - 1
NoSock == MaxSockNum          \* "not in use", "all sockets are in use"

VARIABLES
  sr,          \* the chip: status of every socket
  local_port,  \* the last ephemeral port
  sb,          \* the socketBegin in progress: where it is, its s, its status[]
  spare        \* ghost: the sockets that were closed or closing when it began

tableVars == <<sr, local_port, sb, spare>>

NotRead == "unread"
Idle == [at |-> "idle", s |-> NoSock, status |-> [t \in Socks |-> NotRead]]

TableInit ==
  /\ sr = [s \in Socks |-> "CLOSED"]
  /\ local_port = PortMin
  /\ sb = Idle
  /\ spare = {}

-----------------------------------------------------------------------------
\* The peer or a timer of the chip.
ChipMoves(s) ==
  /\ \E st \in Evolves(sr[s]) : sr' = [sr EXCEPT ![s] = st]
  /\ UNCHANGED <<local_port, sb, spare>>

\* A socket that counts as closing, as a half-open one would under the
\* disabled third step of socketBegin.
Recyclable_HalfOpenToo(st) == st \in Closing \cup {"CLOSE_WAIT"}

\* Leaves out the last of the four statuses.
Recyclable_NoClosing(st) == st \in Closing \ {"CLOSING"}

\* LAST_ACK, TIME_WAIT, FIN_WAIT, CLOSING
Recyclable(st) == st \in Closing

\* Some socket noted as recyclable, and no such socket before it.
FirstRecyclable(status, t) ==
  Recyclable(status[t]) /\ \A u \in 0 .. t - 1 : ~Recyclable(status[u])

\* Entering socketBegin.
BeginCall ==
  /\ sb.at = "idle"
  /\ sb' = [Idle EXCEPT !.at = "scan", !.s = 0]
  /\ spare' = {s \in Socks : sr[s] \notin Live}
  /\ UNCHANGED <<sr, local_port>>

\* status[s] = readSnSR(s); after the last one, the decision on the notes.
BeginScan ==
  /\ sb.at = "scan"
  /\ LET status == [sb.status EXCEPT ![sb.s] = sr[sb.s]] IN
     \/ /\ sr[sb.s] = "CLOSED"
        /\ sb' = [sb EXCEPT !.at = "make"]
     \/ /\ sr[sb.s] # "CLOSED" /\ sb.s + 1 < MaxSockNum
        /\ sb' = [sb EXCEPT !.s = @ + 1, !.status = status]
     \/ /\ sr[sb.s] # "CLOSED" /\ sb.s + 1 = MaxSockNum
        /\ \E t \in Socks :
             /\ FirstRecyclable(status, t)
             /\ sb' = [sb EXCEPT !.at = "close", !.s = t, !.status = status]
     \/ /\ sr[sb.s] # "CLOSED" /\ sb.s + 1 = MaxSockNum
        /\ \A t \in Socks : ~Recyclable(status[t])
        /\ sb' = [Idle EXCEPT !.at = "done"]
  /\ UNCHANGED <<sr, local_port, spare>>

\* closemakesocket: execCmdSn(s, Sock_CLOSE)
BeginClose ==
  /\ sb.at = "close"
  /\ sr' = [sr EXCEPT ![sb.s] = "CLOSED"]
  /\ sb' = [sb EXCEPT !.at = "make"]
  /\ UNCHANGED <<local_port, spare>>

\* Goes on past the last port.
NextPort_NoWrap(p) == p + 1

\* if (++local_port < 49152) local_port = 49152, in 16 bits
NextPort(p) == LET q == (p + 1) % PortMod IN IF q < PortMin THEN PortMin ELSE q

\* makesocket: mode, source port (the caller's, or the next ephemeral one),
\* OPEN.  The chip turns the socket into what the mode says.  Of the ports
\* only the counter of the ephemeral ones is kept.
BeginMake(mode, port) ==
  /\ sb.at = "make"
  /\ sr' = [sr EXCEPT ![sb.s] = IF mode = "TCP" THEN "INIT" ELSE "UDP"]
  /\ local_port' = IF port > 0 THEN local_port ELSE NextPort(local_port)
  /\ sb' = [Idle EXCEPT !.at = "done", !.s = sb.s]
  /\ UNCHANGED spare

\* The caller takes the index socketBegin returned.
BeginReturn ==
  /\ sb.at = "done"
  /\ sb' = Idle
  /\ spare' = {}
  /\ UNCHANGED <<sr, local_port>>

\* The other commands, given while no socketBegin is under way.
Commanded(s, st) ==
  /\ sb.at = "idle"
  /\ sr' = [sr EXCEPT ![s] = st]
  /\ UNCHANGED <<local_port, sb, spare>>

socketClose(s)      == Commanded(s, "CLOSED")
socketListen(s)     == sr[s] = "INIT" /\ Commanded(s, AfterListen(sr[s]))
socketConnect(s)    == Commanded(s, AfterConnect(sr[s]))
socketDisconnect(s) == \E st \in AfterDiscon(sr[s]) : Commanded(s, st)

\* socketPortRand: local_port ^= n & 0x3FFF, any of the ephemeral ports.
socketPortRand ==
  /\ sb.at = "idle"
  /\ \E p \in PortMin .. PortMod - 1 : local_port' = p
  /\ UNCHANGED <<sr, sb, spare>>

CONSTANT FixedPorts    \* the ports the callers of socketBegin ask for
ASSUME FixedPortAssumption == \A p \in FixedPorts : p \in Nat

BeginStep ==
  \/ BeginScan \/ BeginClose \/ BeginReturn
  \/ \E mode \in {"TCP", "UDP"}, port \in FixedPorts : BeginMake(mode, port)

Command ==
  \E s \in Socks : socketClose(s) \/ socketListen(s) \/ socketConnect(s) \/ socketDisconnect(s)

TableNext ==
  \/ \E s \in Socks : ChipMoves(s)
  \/ BeginCall \/ BeginStep \/ Command \/ socketPortRand

TableSpec == TableInit /\ [][TableNext]_tableVars

-----------------------------------------------------------------------------
TableTypeOK ==
  /\ sr \in [Socks -> Status]
  /\ local_port \in Nat
  /\ sb \in [at : {"idle", "scan", "close", "make", "done"},
             s : Nat, status : [Socks -> Status \cup {NotRead}]]
  /\ sb.s <= MaxSockNum
  /\ spare \subseteq Socks

(* socketBegin never takes a socket away from a connection: whatever the   *)
(* chip did since the statuses were noted, the socket it closes by force   *)
(* is closing or closed by then, and the one it opens is closed.           *)
NeverTakesLiveSocket ==
  [][\A s \in Socks : BeginStep /\ sr'[s] # sr[s] => sr[s] \notin Live]_tableVars

(* An ephemeral source port is never 0 nor below the ephemeral range: the  *)
(* 16-bit counter wraps into the range.                                    *)
EphemeralPortInRange == PortMin <= local_port /\ local_port < PortMod

(* socketBegin reports that all sockets are in use only if none was closed *)
(* or closing when the call began: the chip moving a socket from closing   *)
(* to closed during the scan never hides it.                               *)
FullMeansFull ==
  [][sb.at = "scan" /\ sb'.at = "done" => spare = {}]_tableVars

\* The notes of the scan are not stale in a way that matters: what was
\* closing when noted can only have closed since.
NotesHold ==
  /\ sb.at = "scan" => /\ sb.s < MaxSockNum
                       /\ \A t \in Socks : /\ Recyclable(sb.status[t]) => sr[t] \notin Live
                                           /\ t >= sb.s => sb.status[t] = NotRead
  /\ sb.at = "scan" =>
       \A t \in spare : /\ sr[t] \notin Live
                        /\ t < sb.s => Recyclable(sb.status[t])
  /\ sb.at = "close" => sb.s < MaxSockNum /\ sr[sb.s] \notin Live
  /\ sb.at = "make"  => sb.s < MaxSockNum /\ sr[sb.s] = "CLOSED"

(* The inductive invariant behind all of these.                            *)
TableInv == TableTypeOK /\ EphemeralPortInRange /\ NotesHold
=============================================================================
