---------------------------- MODULE ClientServer ----------------------------
(***************************************************************************)
(* The TCP objects of a sketch, EthernetClient (connect, stop and the      *)
(* handle it keeps, src/src/EthernetClient.cpp) and EthernetServer (begin, *)
(* available, accept, write, src/src/EthernetServer.cpp), on the shared    *)
(* table of hardware sockets of module SocketTable.  A connection by name  *)
(* takes another socket of the table for its lookup; what is asked and     *)
(* answered there is the subject of module Dns.                            *)
(*                                                                         *)
(* An object holds nothing but the index of a socket.  The library runs    *)
(* one call at a time; between two accesses of the chip the peers, the     *)
(* chip's timers and the clock move on.                                    *)
(***************************************************************************)
EXTENDS SocketTable

CONSTANTS
  Clients,       \* the EthernetClient objects the sketch keeps
  Sketches       \* the kinds of sketch

ASSUME SketchAssumption == Sketches \subseteq {"connect", "accept", "available"}

Server == "server"
Objects == Clients \cup {Server}

ASSUME ClientAssumption == Server \notin Clients

\* connect() asks socketBegin for an ephemeral port, 0; the lookup and
\* begin() for a port of their own, which stands as 1.
ASSUME PortsAssumption == {0, 1} \subseteq FixedPorts

VARIABLES
  idx,      \* _sockindex of every object; NoSock: not in use
  call,     \* the call in progress: op, object h, place at, sockindex2, and
            \* the sockindex of the lookup's EthernetUDP
  late,     \* the call has waited for its _timeout
  unread,   \* whether a socket holds received data nobody has read
  stale,    \* ghost: objects whose socket has been opened anew since they took it
  sketch    \* what the sketch does: connect, or poll accept() or available()

sketchVars == <<idx, call, late, unread, stale, sketch>>
vars == <<tableVars, sketchVars>>

NoCall == [op |-> "none", h |-> Server, at |-> "none", sockindex2 |-> NoSock, udp |-> NoSock]

Init ==
  /\ TableInit
  /\ idx = [o \in Objects |-> NoSock]
  /\ call = NoCall /\ late = FALSE
  /\ unread = [s \in Socks |-> FALSE]
  /\ stale = {}
  /\ sketch \in Sketches

-----------------------------------------------------------------------------
(* The environment *)

NetworkMoves ==
  /\ \E s \in Socks : ChipMoves(s)
  /\ UNCHANGED sketchVars

DataArrives ==
  /\ \E s \in Socks : sr[s] = "ESTABLISHED" /\ ~unread[s] /\ unread' = [unread EXCEPT ![s] = TRUE]
  /\ UNCHANGED <<tableVars, idx, call, late, stale, sketch>>

\* millis() passes start + _timeout while the call waits.
TimePasses ==
  /\ call.at = "wait" /\ ~late
  /\ late' = TRUE
  /\ UNCHANGED <<tableVars, idx, call, unread, stale, sketch>>

-----------------------------------------------------------------------------
(* Helpers *)

Goes(at) == call' = [call EXCEPT !.at = at]
Returns  == call' = NoCall

\* The object takes the index of a socket; ok: of its present use.
Takes(o, s, ok) ==
  /\ idx' = [idx EXCEPT ![o] = s]
  /\ stale' = IF s = NoSock \/ ok THEN stale \ {o} ELSE stale \cup {o}

Drops(o) == Takes(o, NoSock, TRUE)

Sock == idx[call.h]       \* the socket of the object whose call it is

Enters(op, o, at) ==
  /\ call.op = "none"
  /\ call' = [NoCall EXCEPT !.op = op, !.h = o, !.at = at]
  /\ late' = FALSE
  /\ UNCHANGED <<tableVars, idx, unread, stale, sketch>>

-----------------------------------------------------------------------------
(* socketBegin, on behalf of connect(), of its lookup and of               *)
(* EthernetServer::begin()                                                 *)

SocketBegin ==
  /\ BeginCall
  /\ (call.at = "begin" /\ Goes("table")) \/ (call.at = "resolve" /\ Goes("lookupTable"))
  /\ UNCHANGED <<idx, late, unread, stale, sketch>>

SocketSearch ==
  /\ call.at \in {"table", "lookupTable"}
  /\ BeginScan \/ BeginClose
  /\ UNCHANGED sketchVars

\* The socket is opened: whoever still held it from before is out of date.
SocketOpen ==
  /\ \/ call.at = "table" /\ BeginMake("TCP", IF call.op = "connect" THEN 0 ELSE 1)
     \/ call.at = "lookupTable" /\ BeginMake("UDP", 1)
  /\ stale' = stale \cup {o \in Objects : idx[o] = sb.s}
  /\ unread' = [unread EXCEPT ![sb.s] = FALSE]
  /\ UNCHANGED <<idx, call, late, sketch>>

\* _sockindex = socketBegin(...)
SocketTaken ==
  /\ call.at = "table"
  /\ BeginReturn
  /\ Takes(IF call.op = "connect" THEN call.h ELSE Server, sb.s, TRUE)
  /\ IF call.op = "connect"
     THEN IF sb.s = NoSock THEN Returns ELSE Goes("command")
     ELSE IF sb.s = NoSock THEN Goes("return") ELSE Goes("listen")
  /\ UNCHANGED <<late, unread, sketch>>

-----------------------------------------------------------------------------
(* EthernetClient::connect *)

\* connect(ip, port) goes on with socketBegin, connect(host, port) with the
\* lookup.
Targets == {"begin", "resolve"}

ConnectCall(c) ==
  /\ sketch = "connect"
  /\ IF idx[c] < NoSock THEN Enters("connect", c, "old")
                        ELSE \E at \in Targets : Enters("connect", c, at)

\* The socket of an earlier connection is left alone if it is closed,
ConnectOldStatus ==
  /\ call.op = "connect" /\ call.at = "old"
  /\ \/ sr[Sock] # "CLOSED" /\ Goes("oldDiscon") /\ UNCHANGED <<idx, stale>>
     \/ sr[Sock] = "CLOSED" /\ (\E at \in Targets : Goes(at)) /\ Drops(call.h)
  /\ UNCHANGED <<tableVars, late, unread, sketch>>

\* and told to disconnect, and forgotten, otherwise.
ConnectOldDisconnect ==
  /\ call.op = "connect" /\ call.at = "oldDiscon"
  /\ socketDisconnect(Sock)
  /\ Drops(call.h) /\ \E at \in Targets : Goes(at)
  /\ UNCHANGED <<late, unread, sketch>>

\* The lookup has its socket, or there is none for it and connect() gives up.
LookupTaken ==
  /\ call.at = "lookupTable"
  /\ BeginReturn
  /\ IF sb.s = NoSock THEN Returns
     ELSE call' = [call EXCEPT !.at = "lookup", !.udp = sb.s]
  /\ UNCHANGED <<idx, late, unread, stale, sketch>>

\* As if only a lookup that got an answer gave its socket back.
LookupEnds_KeepsSocket ==
  /\ call.at = "lookup"
  /\ \/ socketClose(call.udp) /\ call' = [call EXCEPT !.at = "begin", !.udp = NoSock]
     \/ UNCHANGED tableVars /\ Returns
  /\ UNCHANGED <<idx, late, unread, stale, sketch>>

\* Its iUdp.stop(), after an answer, an error code or the time limit; only
\* when the question could not be sent does connect() give up.
LookupEnds ==
  /\ call.at = "lookup"
  /\ socketClose(call.udp)
  /\ call' = [call EXCEPT !.at = "begin", !.udp = NoSock] \/ Returns
  /\ UNCHANGED <<idx, late, unread, stale, sketch>>

\* An address that cannot be used.
ConnectNoAddress ==
  /\ call.op = "connect" /\ call.at = "begin"
  /\ Returns
  /\ UNCHANGED <<tableVars, idx, late, unread, stale, sketch>>

ConnectCommand ==
  /\ call.op = "connect" /\ call.at = "command"
  /\ socketConnect(Sock) /\ Goes("wait")
  /\ UNCHANGED <<idx, late, unread, stale, sketch>>

\* Waits without a limit.
TimedOut_Never == FALSE

\* millis() - start has passed _timeout
TimedOut == late

\* One turn of the waiting loop: the status, then the clock.
ConnectPoll ==
  /\ call.op = "connect" /\ call.at = "wait"
  /\ \/ sr[Sock] \in {"ESTABLISHED", "CLOSE_WAIT", "CLOSED"} /\ Returns
     \/ sr[Sock] \notin {"ESTABLISHED", "CLOSE_WAIT", "CLOSED"} /\ TimedOut /\ Goes("close")
  /\ UNCHANGED <<tableVars, idx, late, unread, stale, sketch>>

\* After _timeout: socketClose, and the object is not in use.
ConnectGiveUp ==
  /\ call.op = "connect" /\ call.at = "close"
  /\ socketClose(Sock)
  /\ Drops(call.h) /\ Returns
  /\ UNCHANGED <<late, unread, sketch>>

-----------------------------------------------------------------------------
(* EthernetClient::stop, and reading what there is *)

StopCall(c) == idx[c] < NoSock /\ Enters("stop", c, "discon")

StopDisconnect ==
  /\ call.op = "stop" /\ call.at = "discon"
  /\ socketDisconnect(Sock) /\ Goes("wait")
  /\ UNCHANGED <<idx, late, unread, stale, sketch>>

StopPoll ==
  /\ call.op = "stop" /\ call.at = "wait"
  /\ \/ sr[Sock] = "CLOSED" /\ Drops(call.h) /\ Returns
     \/ sr[Sock] # "CLOSED" /\ TimedOut /\ Goes("close") /\ UNCHANGED <<idx, stale>>
  /\ UNCHANGED <<tableVars, late, unread, sketch>>

\* Gives up waiting and leaves the socket as it is.
StopForce_NoClose ==
  /\ call.op = "stop" /\ call.at = "close"
  /\ Drops(call.h) /\ Returns
  /\ UNCHANGED <<tableVars, late, unread, sketch>>

StopForce ==
  /\ call.op = "stop" /\ call.at = "close"
  /\ socketClose(Sock)
  /\ Drops(call.h) /\ Returns
  /\ UNCHANGED <<late, unread, sketch>>

\* client.read() until nothing is left.
ReadAll(c) ==
  /\ call.op = "none" /\ idx[c] < NoSock /\ unread[idx[c]]
  /\ unread' = [unread EXCEPT ![idx[c]] = FALSE]
  /\ UNCHANGED <<tableVars, idx, call, late, stale, sketch>>

-----------------------------------------------------------------------------
(* EthernetServer *)

\* server.begin() in setup(); a sketch has no reason to call it again.
ServerBegin ==
  sketch # "connect" /\ idx[Server] = NoSock /\ Enters("begin", Server, "begin")

\* Only an object that is in use looks after its socket.
PollEntry_Idle(s) == IF s < NoSock THEN "status" ELSE "return"

\* available() and accept() read the status if the server has a socket,
\* and begin() at once otherwise.
PollEntry(s) == IF s < NoSock THEN "status" ELSE "begin"

\* The sketch polls accept() while it has an object for the new client.
AcceptCall(c) ==
  /\ sketch = "accept" /\ idx[c] = NoSock
  /\ call.op = "none"
  /\ call' = [NoCall EXCEPT !.op = "accept", !.h = c, !.at = PollEntry(idx[Server]),
                            !.sockindex2 = idx[Server]]
  /\ late' = FALSE
  /\ UNCHANGED <<tableVars, idx, unread, stale, sketch>>

\* The first branch of the code, which would return a connected client and
\* stop tracking it, asks for _sockindex to be maxSocketNum() inside the
\* test that it is less, and is never taken.  A connected socket falls
\* through to begin() all the same.
AcceptStatus ==
  /\ call.op = "accept" /\ call.at = "status"
  /\ \/ sr[idx[Server]] = "LISTEN" /\ Goes("return") /\ UNCHANGED <<idx, stale>>
     \/ /\ sr[idx[Server]] = "CLOSED"
        /\ call' = [call EXCEPT !.at = "begin", !.sockindex2 = NoSock]
        /\ Drops(Server)
     \/ sr[idx[Server]] \notin {"LISTEN", "CLOSED"} /\ Goes("begin") /\ UNCHANGED <<idx, stale>>
  /\ UNCHANGED <<tableVars, late, unread, sketch>>

\* loop() keeps the client in a local object, which it overwrites each time.
AvailableCall(c) ==
  sketch = "available" /\ Enters("available", c, PollEntry(idx[Server]))

\* server.write(), to whoever is connected, begins with available().
ServerWriteCall ==
  sketch = "available" /\ Enters("write", Server, PollEntry(idx[Server]))

AvailableStatus ==
  /\ call.op \in {"available", "write"} /\ call.at = "status"
  /\ LET st == sr[idx[Server]] IN
     \/ st = "LISTEN" /\ Goes("return") /\ UNCHANGED <<idx, stale>>
     \/ st = "CLOSED" /\ Goes("begin") /\ Drops(Server)
     \/ st = "CLOSE_WAIT" /\ Goes("drained") /\ UNCHANGED <<idx, stale>>
     \/ st \notin {"LISTEN", "CLOSED", "CLOSE_WAIT"} /\ Goes("begin") /\ UNCHANGED <<idx, stale>>
  /\ UNCHANGED <<tableVars, late, unread, sketch>>

\* The remote host has closed, and nothing is left to read: disconnect.
AvailableDrained ==
  /\ call.at = "drained"
  /\ \/ unread[idx[Server]] /\ UNCHANGED tableVars
     \/ ~unread[idx[Server]] /\ socketDisconnect(idx[Server])
  /\ Goes("begin")
  /\ UNCHANGED <<idx, late, unread, stale, sketch>>

\* socketListen, or socketDisconnect if the socket is not ready for it.
ServerListen ==
  /\ call.at = "listen"
  /\ \/ socketListen(idx[Server])
     \/ sr[idx[Server]] # "INIT" /\ socketDisconnect(idx[Server])
  /\ Goes("return")
  /\ UNCHANGED <<idx, late, unread, stale, sketch>>

\* EthernetClient(*_eth, sockindex2) of accept(), (*_eth, _sockindex) of
\* available(): the sketch's object becomes a copy of it.
Returned == IF call.op = "accept" THEN call.sockindex2 ELSE idx[Server]

ServerReturn ==
  /\ call.at = "return" /\ call.op # "write"
  /\ IF call.op = "begin" THEN UNCHANGED <<idx, stale>>
     ELSE Takes(call.h, Returned, Server \notin stale)
  /\ Returns
  /\ UNCHANGED <<tableVars, late, unread, sketch>>

\* The client that available() returned is dropped; the socket to write to
\* is the one the server holds now.
ServerWriteStatus ==
  /\ call.at = "return" /\ call.op = "write"
  /\ IF idx[Server] < NoSock /\ sr[idx[Server]] = "ESTABLISHED" THEN Goes("send") ELSE Returns
  /\ UNCHANGED <<tableVars, idx, late, unread, stale, sketch>>

\* socketSend, which TxPath shows to return.
ServerSend ==
  /\ call.at = "send" /\ Returns
  /\ UNCHANGED <<tableVars, idx, late, unread, stale, sketch>>

-----------------------------------------------------------------------------
CallStep ==
  \/ SocketBegin \/ SocketSearch \/ SocketOpen \/ SocketTaken
  \/ LookupTaken \/ LookupEnds
  \/ ConnectOldStatus \/ ConnectOldDisconnect \/ ConnectCommand \/ ConnectPoll \/ ConnectGiveUp
  \/ StopDisconnect \/ StopPoll \/ StopForce
  \/ AcceptStatus \/ AvailableStatus \/ AvailableDrained \/ ServerListen \/ ServerReturn
  \/ ServerWriteStatus \/ ServerSend

Poll == \E c \in Clients : AcceptCall(c) \/ AvailableCall(c)

Sketch ==
  \/ \E c \in Clients : ConnectCall(c) \/ StopCall(c) \/ ReadAll(c)
  \/ ServerBegin \/ ServerWriteCall \/ Poll

Next == NetworkMoves \/ DataArrives \/ TimePasses \/ CallStep \/ ConnectNoAddress \/ Sketch

(* A call in progress goes on, time passes, and the sketch's loop() comes  *)
(* back to accept() or available().  Nothing is asked of the network.      *)
Spec == Init /\ [][Next]_vars
             /\ WF_vars(CallStep) /\ WF_vars(TimePasses) /\ SF_vars(Poll)

-----------------------------------------------------------------------------
Places == {"none", "begin", "table", "old", "oldDiscon", "command", "wait", "close",
           "resolve", "lookupTable", "lookup",
           "discon", "status", "drained", "listen", "return", "send"}
Ops    == {"none", "connect", "stop", "begin", "accept", "available", "write"}
Calls  == [op : Ops, h : Objects, sockindex2 : 0 .. NoSock, udp : 0 .. NoSock, at : Places]

TypeOK ==
  /\ TableTypeOK
  /\ idx \in [Objects -> 0 .. NoSock]
  /\ call \in Calls
  /\ late \in BOOLEAN
  /\ unread \in [Socks -> BOOLEAN]
  /\ stale \subseteq Objects /\ sketch \in Sketches

\* Who answers for a socket: an object that took it in its present use, or
\* the call that is about to hand it over.
Held(s) ==
  \/ \E o \in Objects : idx[o] = s /\ o \notin stale
  \/ call.at \in {"table", "lookupTable"} /\ sb.at = "done" /\ sb.s = s
  \/ call.udp = s
  \/ call.op = "accept" /\ call.sockindex2 = s

(* No socket leaks: one that socketBegin cannot take back is always held   *)
(* by an object of the sketch, which can stop it, or by the lookup in      *)
(* progress.  A sketch that polls available() overwrites the object it     *)
(* keeps the client in, and cannot.                                        *)
NoOrphan == sketch # "available" => \A s \in Socks : sr[s] \in Live => Held(s)

\* Where each call can be, and in which sketch and for which object.
Asking     == {"begin", "table"}
InConnect  == {"old", "oldDiscon", "command", "wait", "close"}
InLookup   == {"resolve", "lookupTable", "lookup"}
InServer   == Asking \cup {"status", "listen", "return"}

CallPlaces ==
  /\ call.op = "none"    => call.at = "none"
  /\ call.op = "connect" => /\ call.at \in InConnect \cup InLookup \cup Asking
                            /\ sketch = "connect"
  /\ call.op = "stop"    => call.at \in {"discon", "wait", "close"}
  /\ call.op = "begin"   => call.at \in Asking \cup {"listen", "return"} /\ sketch # "connect"
  /\ call.op = "accept"  => call.at \in InServer /\ sketch = "accept"
  /\ call.op = "available" => call.at \in InServer \cup {"drained"} /\ sketch = "available"
  /\ call.op = "write" => call.at \in InServer \cup {"drained", "send"} /\ sketch = "available"
  /\ call.op \in {"connect", "stop", "accept", "available"} => call.h \in Clients
  /\ call.op \in {"begin", "write"} => call.h = Server

\* What a call relies on of the index it goes by: it is a socket's where a
\* command or a read of the status follows, and no socket's where the call is
\* about to take one, but for that of a client accept() is to return.
CallIndex ==
  /\ call.op = "connect" => (Sock < NoSock <=> call.at \in InConnect)
  /\ call.op = "stop" => Sock < NoSock
  /\ call.op = "begin" /\ call.at \in Asking => Sock = NoSock
  /\ call.op = "accept" =>
       /\ Sock = NoSock
       /\ call.at \in Asking \cup {"status"} => idx[Server] = call.sockindex2
  /\ call.at \in {"status", "drained", "listen", "send"} => idx[Server] < NoSock
  /\ call.udp < NoSock <=> call.at = "lookup"

\* In a sketch that accepts, the server's index is out of date only while
\* its own call replaces it.
ServerUpToDate ==
  sketch = "accept" /\ Server \in stale => call.at = "table" /\ sb.at = "done" /\ sb.s < NoSock

\* In a sketch that connects, a socket on its way to a connection, or used
\* for a lookup, belongs to the call in progress: no earlier connection that
\* connect() tells to disconnect is still in its handshake, where DISCON
\* need not end it.
Opening == Live \ {"ESTABLISHED", "CLOSE_WAIT"}

Settled ==
  sketch = "connect" =>
    \A s \in Socks : sr[s] \in Opening =>
      \/ call.at \in {"table", "lookupTable"} /\ sb.at = "done" /\ sb.s = s
      \/ call.udp = s
      \/ call.op = "connect" /\ call.at \in {"command", "wait", "close"} /\ Sock = s

CallInv == CallPlaces /\ CallIndex /\ ServerUpToDate /\ Settled

(* What the objects and the table of sockets agree on, and what a call in  *)
(* progress knows of them.                                                 *)
ObjectsInv == TypeOK /\ CallInv /\ NoOrphan

(* stop() ends with the socket closed, whichever of the peer's FIN, a      *)
(* reset and the time limit comes first.                                   *)
StopReleases ==
  [][call.op = "stop" /\ call'.op = "none"
       => sr'[Sock] = "CLOSED" /\ idx'[call.h] = NoSock]_vars

(* connect() and stop(), which wait for the network, and the server's      *)
(* calls return.                                                           *)
CallsReturn == (call.op # "none") ~> (call.op = "none")

(* A polled server is deaf only for want of a socket: again and again it   *)
(* listens, or every socket is in use, or the sketch has no object left to *)
(* accept another client with.                                             *)
Listening == idx[Server] # NoSock /\ sr[idx[Server]] = "LISTEN"

ServerListensAgain ==
  sketch # "connect" =>
  []<>(\/ Listening
       \/ \A s \in Socks : sr[s] \in Live
       \/ sketch = "accept" /\ \A c \in Clients : idx[c] # NoSock)

=============================================================================
