------------------------ MODULE ClientServer_proofs -------------------------
(***************************************************************************)
(* Machine-checked proofs about the allotment of sockets and about the TCP *)
(* objects over it, for every number of sockets, every set of client       *)
(* objects and every range of ephemeral ports.  First the table by itself, *)
(* which any caller may drive; then the objects, of which each step is     *)
(* shown to be a step of the table.                                        *)
(***************************************************************************)
EXTENDS ClientServer, ModularArithmetic, TLAPS

(***************************************************************************)
(* The table                                                               *)
(***************************************************************************)

(* A dead socket stays dead until the library opens it: nothing the peer   *)
(* or a timer does brings a closing or closed socket back to life.         *)
LEMMA DeadStaysDead ==
  ASSUME NEW st \in Status, NEW nx \in Evolves(st)
  PROVE  /\ nx \in Status
         /\ st \notin Live => nx \notin Live
         /\ st # "CLOSED"
  BY DEF Evolves, Status, Live, Closing

LEMMA CommandTypes ==
  ASSUME NEW st \in Status
  PROVE  /\ AfterDiscon(st) \subseteq Status
         /\ AfterListen(st) \in Status /\ AfterConnect(st) \in Status
  BY DEF AfterDiscon, AfterListen, AfterConnect, Status, Live, Closing

(* The 16-bit counter of ephemeral ports stays in the range.               *)
LEMMA NextPortInRange ==
  ASSUME NEW p \in Nat
  PROVE  NextPort(p) \in Nat /\ PortMin <= NextPort(p) /\ NextPort(p) < PortMod
<1> DEFINE q == (p + 1) % PortMod
<1>1. p + 1 \in Nat /\ PortMod \in Nat /\ 0 < PortMod
  BY PortAssumption
<1>2. q \in Nat /\ q < PortMod
  BY <1>1, DivMod
<1> HIDE DEF q
<1>3. NextPort(p) = IF q < PortMin THEN PortMin ELSE q
  BY DEF NextPort, q
<1> QED BY <1>2, <1>3, PortAssumption

LEMMA TableInit_Inv == TableInit => TableInv
  BY SocketAssumption, PortAssumption
  DEF TableInit, TableInv, TableTypeOK, EphemeralPortInRange, NotesHold, Idle, Status,
      NotRead, NoSock

LEMMA IdleType ==
  Idle \in [at : {"idle", "scan", "close", "make", "done"},
            s : Nat, status : [Socks -> Status \cup {NotRead}]]
  BY SocketAssumption DEF Idle, NoSock

(* The chip moves one socket on: what was noted as closing may have closed *)
(* meanwhile, nothing else.                                                *)
LEMMA ChipStep ==
  ASSUME TableInv, NEW s \in Socks, ChipMoves(s)
  PROVE  TableInv'
<1>1. PICK st \in Evolves(sr[s]) : sr' = [sr EXCEPT ![s] = st]
  BY DEF ChipMoves
<1>2. UNCHANGED <<local_port, sb, spare>>
  BY DEF ChipMoves
<1>3. sr \in [Socks -> Status] /\ sr[s] \in Status
  BY DEF TableInv, TableTypeOK
<1>4. st \in Status /\ (sr[s] \notin Live => st \notin Live) /\ sr[s] # "CLOSED"
  BY <1>3, DeadStaysDead
<1>5. sr' \in [Socks -> Status]
  BY <1>1, <1>3, <1>4
<1>6. \A t \in Socks : /\ sr[t] \notin Live => sr'[t] \notin Live
                       /\ sr[t] = "CLOSED" => sr'[t] = "CLOSED"
  BY <1>1, <1>3, <1>4
<1>7. TableTypeOK' /\ EphemeralPortInRange'
  BY <1>2, <1>5 DEF TableInv, TableTypeOK, EphemeralPortInRange
<1>8. NotesHold'
  <2>1. ASSUME sb.at = "scan", NEW t \in spare
        PROVE  sr'[t] \notin Live
    BY <1>6, <2>1 DEF TableInv, NotesHold, TableTypeOK
  <2>2. sb.at \in {"close", "make"} => sb.s \in Socks
    BY SocketAssumption DEF TableInv, NotesHold, TableTypeOK, Socks
  <2> QED BY <1>2, <1>6, <2>1, <2>2 DEF TableInv, NotesHold
<1> QED BY <1>7, <1>8 DEF TableInv

(* One read of the scan, and the decision after the last.                  *)
LEMMA ScanStep == TableInv /\ BeginScan => TableInv'
<1> SUFFICES ASSUME TableInv, BeginScan PROVE TableInv'
  OBVIOUS
<1> DEFINE status == [sb.status EXCEPT ![sb.s] = sr[sb.s]]
<1>1. /\ sr \in [Socks -> Status] /\ spare \subseteq Socks
      /\ sb \in [at : {"idle", "scan", "close", "make", "done"},
                 s : Nat, status : [Socks -> Status \cup {NotRead}]]
      /\ sb.at = "scan" /\ sb.s \in Socks /\ sb.s \in Nat
      /\ UNCHANGED <<sr, local_port, spare>>
  <2>1. sb.at = "scan" /\ UNCHANGED <<sr, local_port, spare>>
    BY DEF BeginScan
  <2>2. /\ sr \in [Socks -> Status] /\ spare \subseteq Socks
        /\ sb \in [at : {"idle", "scan", "close", "make", "done"},
                   s : Nat, status : [Socks -> Status \cup {NotRead}]]
    BY DEF TableInv, TableTypeOK
  <2>3. sb.s \in Nat /\ sb.s < MaxSockNum
    BY <2>1, <2>2 DEF TableInv, NotesHold
  <2>4. sb.s \in Socks
    BY <2>3, SocketAssumption DEF Socks
  <2> QED BY <2>1, <2>2, <2>3, <2>4
<1>2. status \in [Socks -> Status \cup {NotRead}]
  BY <1>1
<1>3. \A t \in Socks : /\ t # sb.s => status[t] = sb.status[t]
                       /\ status[sb.s] = sr[sb.s]
  BY <1>1
<1>4. \A t \in Socks : Recyclable(status[t]) => sr[t] \notin Live
  <2> SUFFICES ASSUME NEW t \in Socks, Recyclable(status[t]) PROVE sr[t] \notin Live
    OBVIOUS
  <2>1. CASE t = sb.s
    BY <1>3, <2>1 DEF Recyclable, Closing, Live
  <2>2. CASE t # sb.s
    BY <1>1, <1>3, <2>2 DEF TableInv, NotesHold
  <2> QED BY <2>1, <2>2
<1> HIDE DEF status
<1>5. CASE sr[sb.s] = "CLOSED" /\ sb' = [sb EXCEPT !.at = "make"]
  BY <1>1, <1>5 DEF TableInv, TableTypeOK, EphemeralPortInRange, NotesHold, Socks
<1>6. CASE /\ sr[sb.s] # "CLOSED" /\ sb.s + 1 < MaxSockNum
           /\ sb' = [sb EXCEPT !.s = @ + 1, !.status = status]
  <2>1. /\ sb'.at = "scan" /\ sb'.s = sb.s + 1 /\ sb'.status = status
        /\ sb' \in [at : {"idle", "scan", "close", "make", "done"},
                    s : Nat, status : [Socks -> Status \cup {NotRead}]]
    <3>1. sb.s + 1 \in Nat
      BY <1>1
    <3>2. sb' = [[sb EXCEPT !.s = sb.s + 1] EXCEPT !.status = status]
      BY <1>6
    <3> DEFINE n == sb.s + 1
    <3>3. n \in Nat /\ sb' = [[sb EXCEPT !.s = n] EXCEPT !.status = status]
      BY <3>1, <3>2
    <3> HIDE DEF n
    <3>4. /\ sb'.at = "scan" /\ sb'.s = n /\ sb'.status = status
          /\ sb' \in [at : {"idle", "scan", "close", "make", "done"},
                      s : Nat, status : [Socks -> Status \cup {NotRead}]]
      BY <1>1, <1>2, <3>3
    <3> QED BY <3>4 DEF n
  <2>2. \A t \in Socks : t >= sb'.s => status[t] = NotRead
    BY <1>1, <1>3, <2>1, SocketAssumption DEF TableInv, NotesHold, Socks
  <2>3. ASSUME NEW t \in spare, t < sb'.s PROVE Recyclable(status[t])
    <3>1. t \in Socks /\ sr[t] \notin Live
      BY <1>1 DEF TableInv, NotesHold
    <3>2. CASE t = sb.s
      BY <1>1, <1>3, <1>6, <3>1, <3>2 DEF Recyclable, Status
    <3>3. CASE t # sb.s
      <4>1. t < sb.s
        BY <1>1, <2>1, <2>3, <3>1, <3>3, SocketAssumption DEF Socks
      <4> QED BY <1>1, <1>3, <3>1, <3>3, <4>1 DEF TableInv, NotesHold
    <3> QED BY <3>2, <3>3
  <2>4. NotesHold'
    BY <1>1, <1>4, <1>6, <2>1, <2>2, <2>3 DEF TableInv, NotesHold
  <2>5. sb'.s <= MaxSockNum
    BY <1>1, <1>6, <2>1, SocketAssumption
  <2> QED BY <1>1, <2>1, <2>4, <2>5 DEF TableInv, TableTypeOK, EphemeralPortInRange
<1>7. CASE \E t \in Socks :
             /\ FirstRecyclable(status, t)
             /\ sb' = [sb EXCEPT !.at = "close", !.s = t, !.status = status]
  <2>1. PICK t \in Socks :
             /\ FirstRecyclable(status, t)
             /\ sb' = [sb EXCEPT !.at = "close", !.s = t, !.status = status]
    BY <1>7
  <2>2. sr[t] \notin Live
    BY <1>4, <2>1 DEF FirstRecyclable
  <2>3. t \in Nat /\ t < MaxSockNum
    BY SocketAssumption DEF Socks
  <2>4. /\ sb'.at = "close" /\ sb'.s = t
        /\ sb' \in [at : {"idle", "scan", "close", "make", "done"},
                    s : Nat, status : [Socks -> Status \cup {NotRead}]]
    BY <1>1, <1>2, <2>1, <2>3
  <2> QED BY <1>1, <2>2, <2>3, <2>4, SocketAssumption
          DEF TableInv, TableTypeOK, EphemeralPortInRange, NotesHold
<1>8. CASE sb' = [Idle EXCEPT !.at = "done"]
  <2>1. /\ sb'.at = "done" /\ sb'.s = NoSock
        /\ sb' \in [at : {"idle", "scan", "close", "make", "done"},
                    s : Nat, status : [Socks -> Status \cup {NotRead}]]
    BY <1>8, IdleType DEF Idle
  <2> QED BY <1>1, <2>1, SocketAssumption
          DEF TableInv, TableTypeOK, EphemeralPortInRange, NotesHold, NoSock
<1> QED BY <1>5, <1>6, <1>7, <1>8 DEF BeginScan, status

LEMMA TableInvStep == TableInv /\ [TableNext]_tableVars => TableInv'
<1> SUFFICES ASSUME TableInv, [TableNext]_tableVars PROVE TableInv'
  OBVIOUS
<1>0. /\ sr \in [Socks -> Status] /\ spare \subseteq Socks
      /\ sb \in [at : {"idle", "scan", "close", "make", "done"},
                 s : Nat, status : [Socks -> Status \cup {NotRead}]]
  BY DEF TableInv, TableTypeOK
<1>1. ASSUME NEW s \in Socks, ChipMoves(s) PROVE TableInv'
  BY <1>1, ChipStep
<1>2. CASE BeginCall
  <2>1. /\ sb'.at = "scan" /\ sb'.s = 0 /\ sb'.status = [t \in Socks |-> NotRead]
        /\ sb' \in [at : {"idle", "scan", "close", "make", "done"},
                    s : Nat, status : [Socks -> Status \cup {NotRead}]]
    BY <1>2, IdleType DEF BeginCall, Idle
  <2>2. /\ spare' = {s \in Socks : sr[s] \notin Live} /\ UNCHANGED <<sr, local_port>>
    BY <1>2 DEF BeginCall
  <2>3. \A t \in Socks : ~ Recyclable(sb'.status[t]) /\ t >= 0
    BY <2>1, SocketAssumption DEF Recyclable, Closing, NotRead, Socks
  <2>4. \A t \in Socks : ~(t < 0)
    BY SocketAssumption DEF Socks
  <2> QED BY <2>1, <2>2, <2>3, <2>4, SocketAssumption
          DEF TableInv, TableTypeOK, EphemeralPortInRange, NotesHold
<1>3. CASE BeginScan
  BY <1>3, ScanStep
<1>4. CASE BeginClose
  <2>1. sb.s \in Socks
    BY <1>0, <1>4, SocketAssumption DEF BeginClose, TableInv, NotesHold, Socks
  <2>2. /\ sb'.at = "make" /\ sb'.s = sb.s /\ sr'[sb.s] = "CLOSED"
        /\ sr' \in [Socks -> Status] /\ UNCHANGED <<local_port, spare>>
        /\ sb' \in [at : {"idle", "scan", "close", "make", "done"},
                    s : Nat, status : [Socks -> Status \cup {NotRead}]]
    BY <1>0, <1>4, <2>1 DEF BeginClose, Status
  <2> QED BY <1>0, <2>1, <2>2, SocketAssumption
          DEF TableInv, TableTypeOK, EphemeralPortInRange, NotesHold, Socks
<1>5. ASSUME NEW mode \in {"TCP", "UDP"}, NEW port \in FixedPorts, BeginMake(mode, port)
      PROVE  TableInv'
  <2>1. sb.s \in Socks /\ sb.s \in Nat /\ sb.s <= MaxSockNum
    BY <1>0, <1>5, SocketAssumption DEF BeginMake, TableInv, NotesHold, Socks
  <2>2. /\ sb'.at = "done" /\ sb'.s = sb.s /\ spare' = spare
        /\ sb' \in [at : {"idle", "scan", "close", "make", "done"},
                    s : Nat, status : [Socks -> Status \cup {NotRead}]]
    BY <1>0, <1>5, <2>1, IdleType DEF BeginMake, Idle
  <2>3. sr' \in [Socks -> Status]
    BY <1>0, <1>5, <2>1 DEF BeginMake, Status, Live
  <2>4. local_port' \in Nat /\ EphemeralPortInRange'
    BY <1>5, NextPortInRange DEF BeginMake, TableInv, TableTypeOK, EphemeralPortInRange
  <2> QED BY <1>0, <2>1, <2>2, <2>3, <2>4 DEF TableInv, TableTypeOK, NotesHold
<1>6. CASE BeginReturn
  <2>1. sb' = Idle /\ sb'.at = "idle" /\ sb'.s = NoSock /\ spare' = {}
        /\ UNCHANGED <<sr, local_port>>
    BY <1>6 DEF BeginReturn, Idle
  <2> QED BY <1>0, <2>1, IdleType, SocketAssumption
          DEF TableInv, TableTypeOK, EphemeralPortInRange, NotesHold, NoSock
<1>7. CASE Command
  <2>1. PICK s \in Socks : \/ socketClose(s) \/ socketListen(s)
                           \/ socketConnect(s) \/ socketDisconnect(s)
    BY <1>7 DEF Command
  <2>2. \E st \in Status : Commanded(s, st)
    BY <1>0, <2>1, CommandTypes DEF socketClose, socketListen, socketConnect,
                                    socketDisconnect, Status
  <2>3. sr' \in [Socks -> Status] /\ sb.at = "idle" /\ UNCHANGED <<local_port, sb, spare>>
    BY <1>0, <2>2 DEF Commanded
  <2> QED BY <2>3 DEF TableInv, TableTypeOK, EphemeralPortInRange, NotesHold
<1>8. CASE socketPortRand
  <2>1. sb.at = "idle" /\ UNCHANGED <<sr, sb, spare>>
    BY <1>8 DEF socketPortRand
  <2>2. local_port' \in Nat /\ PortMin <= local_port' /\ local_port' < PortMod
    BY <1>8, PortAssumption DEF socketPortRand
  <2> QED BY <2>1, <2>2 DEF TableInv, TableTypeOK, EphemeralPortInRange, NotesHold
<1>9. CASE UNCHANGED tableVars
  BY <1>9 DEF tableVars, TableInv, TableTypeOK, EphemeralPortInRange, NotesHold
<1> QED BY <1>1, <1>2, <1>3, <1>4, <1>5, <1>6, <1>7, <1>8, <1>9 DEF TableNext, BeginStep

(* The inductive invariant of the socket table, TableInv: what the scan of *)
(* socketBegin noted still holds where it matters, and the ephemeral port  *)
(* stays in its range.                                                     *)
THEOREM TableInvariant == TableSpec => []TableInv
  BY TableInit_Inv, TableInvStep, PTL DEF TableSpec

(* The ephemeral ports never leave their range, for every 16-bit wrap.     *)
THEOREM PortsInRange == TableSpec => []EphemeralPortInRange
  BY TableInvariant, PTL DEF TableInv

(* The sockets' table keeps its types.                                     *)
THEOREM TableTypeCorrect == TableSpec => []TableTypeOK
  BY TableInvariant, PTL DEF TableInv

(* socketBegin never closes or reopens a socket that is open: the statuses *)
(* it decides on may be stale, but only from closing to closed.            *)
THEOREM LiveSocketsSafe == TableSpec => NeverTakesLiveSocket
<1>1. TableInv /\ [TableNext]_tableVars
        => [\A s \in Socks : BeginStep /\ sr'[s] # sr[s] => sr[s] \notin Live]_tableVars
  <2> SUFFICES ASSUME TableInv, BeginStep, NEW s \in Socks, sr'[s] # sr[s]
               PROVE  sr[s] \notin Live
    OBVIOUS
  <2>0. sr \in [Socks -> Status]
    BY DEF TableInv, TableTypeOK
  <2>1. CASE BeginScan \/ BeginReturn
    BY <2>1 DEF BeginScan, BeginReturn
  <2>2. CASE BeginClose
    BY <2>0, <2>2 DEF BeginClose, TableInv, NotesHold
  <2>3. CASE \E mode \in {"TCP", "UDP"}, port \in FixedPorts : BeginMake(mode, port)
    <3>1. sb.at = "make" /\ s = sb.s
      BY <2>0, <2>3 DEF BeginMake
    <3>2. sr[s] = "CLOSED"
      BY <3>1 DEF TableInv, NotesHold
    <3> QED BY <3>2 DEF Live
  <2> QED BY <2>1, <2>2, <2>3 DEF BeginStep
<1> QED BY <1>1, TableInvariant, PTL DEF TableSpec, NeverTakesLiveSocket

(* "All sockets are in use" is never said while one was free on entry.     *)
THEOREM FullIsFull == TableSpec => FullMeansFull
<1>1. TableInv /\ [TableNext]_tableVars
        => [sb.at = "scan" /\ sb'.at = "done" => spare = {}]_tableVars
  <2> SUFFICES ASSUME TableInv, TableNext, sb.at = "scan", sb'.at = "done",
                      NEW t \in spare
               PROVE  FALSE
    OBVIOUS
  <2>1. BeginScan
    BY DEF TableNext, BeginStep, ChipMoves, BeginCall, BeginClose, BeginMake, BeginReturn,
           Command, Commanded, socketClose, socketListen, socketConnect, socketDisconnect,
           socketPortRand
  <2>2. /\ sr \in [Socks -> Status] /\ t \in Socks /\ sb.s \in Socks
        /\ sb \in [at : {"idle", "scan", "close", "make", "done"},
                   s : Nat, status : [Socks -> Status \cup {NotRead}]]
        /\ sr[t] \notin Live /\ (t < sb.s => Recyclable(sb.status[t]))
    BY SocketAssumption DEF TableInv, TableTypeOK, NotesHold, Socks
  <2>3. /\ sr[sb.s] # "CLOSED" /\ sb.s + 1 = MaxSockNum
        /\ \A u \in Socks : ~Recyclable([sb.status EXCEPT ![sb.s] = sr[sb.s]][u])
    BY <2>1, <2>2 DEF BeginScan
  <2>4. CASE t = sb.s
    BY <2>2, <2>3, <2>4 DEF Recyclable, Status
  <2>5. CASE t # sb.s
    <3>1. t < sb.s
      BY <2>2, <2>3, <2>5, SocketAssumption DEF Socks
    <3> QED BY <2>2, <2>3, <2>5, <3>1
  <2> QED BY <2>4, <2>5
<1> QED BY <1>1, TableInvariant, PTL DEF TableSpec, FullMeansFull

(***************************************************************************)
(* The objects                                                             *)
(***************************************************************************)

(* A socket's index, or that of none.                                      *)
LEMMA Indices ==
  /\ NoSock \in 0 .. NoSock /\ NoSock \notin Socks
  /\ \A n \in 0 .. NoSock : n \in Int /\ (n < NoSock <=> n \in Socks) /\ (n # NoSock <=> n \in Socks)
  /\ Socks \subseteq 0 .. NoSock
  /\ Server \in Objects /\ Clients \subseteq Objects
  BY SocketAssumption DEF NoSock, Socks, Objects

ObjectTypes ==
  /\ idx \in [Objects -> 0 .. NoSock] /\ call \in Calls /\ late \in BOOLEAN
  /\ unread \in [Socks -> BOOLEAN] /\ stale \subseteq Objects /\ sketch \in Sketches

LEMMA TypesTogether == TypeOK <=> TableTypeOK /\ ObjectTypes
  BY DEF TypeOK, ObjectTypes

LEMMA Together == TableTypeOK' /\ ObjectTypes' /\ CallInv' /\ NoOrphan' => ObjectsInv'
  BY DEF TypeOK, ObjectTypes, ObjectsInv

LEMMA CallTypes ==
  ASSUME call \in Calls
  PROVE  /\ call.op \in Ops /\ call.h \in Objects /\ call.at \in Places
         /\ call.sockindex2 \in 0 .. NoSock /\ call.udp \in 0 .. NoSock
  BY DEF Calls

(* A call goes on, and nothing of it changes but where it is.              *)
LEMMA GoesOn ==
  ASSUME call \in Calls, NEW at \in Places, Goes(at)
  PROVE  /\ call' \in Calls /\ call'.at = at /\ call'.op = call.op /\ call'.h = call.h
         /\ call'.sockindex2 = call.sockindex2 /\ call'.udp = call.udp
  BY DEF Goes, Calls

LEMMA NoCallType ==
  /\ NoCall \in Calls /\ NoCall.op = "none" /\ NoCall.at = "none" /\ NoCall.h = Server
  /\ NoCall.sockindex2 = NoSock /\ NoCall.udp = NoSock
  BY Indices DEF NoCall, Calls, Ops, Places

(* What taking an index does to an object and to the others.               *)
LEMMA TakesIndex ==
  ASSUME ObjectTypes, NEW o \in Objects, NEW s \in 0 .. NoSock, NEW ok \in BOOLEAN,
         Takes(o, s, ok)
  PROVE  /\ idx' \in [Objects -> 0 .. NoSock] /\ stale' \subseteq Objects
         /\ idx'[o] = s /\ (o \in stale' <=> s # NoSock /\ ~ok)
         /\ \A p \in Objects : p # o => idx'[p] = idx[p] /\ (p \in stale' <=> p \in stale)
  BY DEF ObjectTypes, Takes

LEMMA DropsIndex ==
  ASSUME ObjectTypes, NEW o \in Objects, Drops(o)
  PROVE  /\ idx' \in [Objects -> 0 .. NoSock] /\ stale' \subseteq Objects
         /\ idx'[o] = NoSock /\ o \notin stale'
         /\ \A p \in Objects : p # o => idx'[p] = idx[p] /\ (p \in stale' <=> p \in stale)
  BY TakesIndex, Indices DEF Drops

(* What a command does to the table.                                       *)
LEMMA CommandsTable ==
  ASSUME TableTypeOK, NEW s \in Socks, NEW st \in Status, Commanded(s, st)
  PROVE  /\ sr'[s] = st /\ \A t \in Socks : t # s => sr'[t] = sr[t]
         /\ sb.at = "idle" /\ sb' = sb /\ sr[s] \in Status
  BY DEF TableTypeOK, Commanded

LEMMA DisconnectsTable ==
  ASSUME TableTypeOK, NEW s \in Socks, socketDisconnect(s)
  PROVE  /\ sr'[s] \in {sr[s], "CLOSED", "FIN_WAIT", "LAST_ACK"}
         /\ sr[s] \notin Opening => sr'[s] \notin Live
         /\ \A t \in Socks : t # s => sr'[t] = sr[t]
         /\ sb.at = "idle" /\ sb' = sb
<1>1. sr[s] \in Status
  BY DEF TableTypeOK
<1>2. PICK st \in AfterDiscon(sr[s]) : Commanded(s, st)
  BY DEF socketDisconnect
<1>3. /\ st \in Status /\ st \in {sr[s], "CLOSED", "FIN_WAIT", "LAST_ACK"}
      /\ sr[s] \notin Opening => st \notin Live
  BY <1>1, <1>2 DEF AfterDiscon, Status, Live, Closing, Opening
<1> QED BY <1>2, <1>3, CommandsTable

LEMMA ClosesTable ==
  ASSUME TableTypeOK, NEW s \in Socks, socketClose(s)
  PROVE  /\ sr'[s] = "CLOSED" /\ "CLOSED" \notin Live
         /\ \A t \in Socks : t # s => sr'[t] = sr[t]
         /\ sb.at = "idle" /\ sb' = sb
  BY CommandsTable DEF socketClose, Status, Live

LEMMA ObjectsInit == Init => ObjectsInv
<1> SUFFICES ASSUME Init PROVE ObjectsInv
  OBVIOUS
<1>1. TableTypeOK
  BY TableInit_Inv DEF Init, TableInv
<1>2. ObjectTypes
  BY NoCallType, Indices DEF Init, ObjectTypes
<1>3. CallInv
  BY NoCallType, Indices DEF Init, TableInit, CallInv, CallPlaces, CallIndex, ServerUpToDate,
     Settled, Opening, Live
<1>4. NoOrphan
  BY DEF Init, TableInit, NoOrphan, Live
<1> QED BY <1>1, <1>2, <1>3, <1>4, TypesTogether DEF ObjectsInv

(* Every step of the objects is a step of the table or leaves it alone: no *)
(* call gives a socket a command during a socketBegin, or to no socket.    *)
LEMMA StepOfTable ==
  ObjectsInv /\ [Next]_vars => [TableNext]_tableVars
<1> SUFFICES ASSUME ObjectsInv, [Next]_vars PROVE [TableNext]_tableVars
  OBVIOUS
<1>1. ObjectTypes /\ CallPlaces /\ CallIndex
  BY TypesTogether DEF ObjectsInv, CallInv
<1>2. call.h \in Objects /\ idx[call.h] \in 0 .. NoSock /\ idx[Server] \in 0 .. NoSock
      /\ call.udp \in 0 .. NoSock
  BY <1>1, CallTypes, Indices DEF ObjectTypes
<1>3. CASE NetworkMoves
  BY <1>3 DEF NetworkMoves, TableNext
<1>4. CASE SocketBegin \/ SocketSearch \/ SocketTaken \/ LookupTaken
  BY <1>4 DEF SocketBegin, SocketSearch, SocketTaken, LookupTaken, TableNext, BeginStep
<1>5. CASE SocketOpen
  <2>1. {0, 1} \subseteq FixedPorts
    BY PortsAssumption
  <2>2. BeginMake("TCP", 0) \/ BeginMake("TCP", 1) \/ BeginMake("UDP", 1)
    BY <1>5 DEF SocketOpen
  <2>3. BeginStep
    BY <2>1, <2>2 DEF BeginStep
  <2> QED BY <2>3 DEF TableNext
<1>6. CASE LookupEnds
  <2>1. call.udp \in Socks
    BY <1>1, <1>2, <1>6, Indices DEF LookupEnds, CallIndex
  <2> QED BY <1>6, <2>1 DEF LookupEnds, TableNext, Command
<1>7. CASE ConnectOldDisconnect \/ ConnectCommand \/ ConnectGiveUp
  <2>1. Sock \in Socks
    BY <1>1, <1>2, <1>7, Indices DEF ConnectOldDisconnect, ConnectCommand, ConnectGiveUp,
       CallIndex, InConnect, Sock
  <2>2. socketDisconnect(Sock) \/ socketConnect(Sock) \/ socketClose(Sock)
    BY <1>7 DEF ConnectOldDisconnect, ConnectCommand, ConnectGiveUp
  <2> QED BY <2>1, <2>2 DEF TableNext, Command
<1>8. CASE StopDisconnect \/ StopForce
  <2>1. Sock \in Socks
    BY <1>1, <1>2, <1>8, Indices DEF StopDisconnect, StopForce, CallIndex, Sock
  <2> QED BY <1>8, <2>1 DEF StopDisconnect, StopForce, TableNext, Command
<1>9. CASE AvailableDrained \/ ServerListen
  <2>1. idx[Server] \in Socks
    BY <1>1, <1>2, <1>9, Indices DEF AvailableDrained, ServerListen, CallIndex
  <2> QED BY <1>9, <2>1 DEF AvailableDrained, ServerListen, TableNext, Command, tableVars
<1>10. CASE \/ DataArrives \/ TimePasses \/ ConnectNoAddress \/ Sketch
            \/ ConnectOldStatus \/ ConnectPoll \/ StopPoll
            \/ AcceptStatus \/ AvailableStatus \/ ServerReturn
            \/ ServerWriteStatus \/ ServerSend
  <2>1. UNCHANGED tableVars
    BY <1>10 DEF DataArrives, TimePasses, ConnectNoAddress, Sketch, Poll, ConnectOldStatus,
       ConnectPoll, StopPoll, AcceptStatus, AvailableStatus, ServerReturn, ServerWriteStatus,
       ServerSend, ConnectCall, StopCall, ReadAll, ServerBegin, ServerWriteCall, AcceptCall,
       AvailableCall, Enters
  <2> QED BY <2>1
<1>11. CASE UNCHANGED vars
  BY <1>11 DEF vars
<1> QED BY <1>3, <1>4, <1>5, <1>6, <1>7, <1>8, <1>9, <1>10, <1>11 DEF Next, CallStep

(***************************************************************************)
(* That each step keeps what the objects and the table agree on            *)
(***************************************************************************)

(* The chip moves on: nothing comes to life, and nothing that is opening   *)
(* was not so before.                                                      *)
LEMMA NetworkMovesKeeps == ObjectsInv /\ TableTypeOK' /\ NetworkMoves => ObjectsInv'
<1> SUFFICES ASSUME ObjectsInv, TableTypeOK', NetworkMoves PROVE ObjectsInv'
  OBVIOUS
<1>1. ObjectTypes /\ CallInv /\ NoOrphan /\ TableTypeOK
  BY TypesTogether DEF ObjectsInv
<1>2. UNCHANGED <<idx, call, late, unread, stale, sketch, sb>>
  BY DEF NetworkMoves, ChipMoves, sketchVars
<1>3. \A s \in Socks : /\ sr'[s] \in Live => sr[s] \in Live
                       /\ sr'[s] \in Opening => sr[s] \in Opening
  <2>1. PICK s \in Socks : ChipMoves(s)
    BY DEF NetworkMoves
  <2>2. PICK st \in Evolves(sr[s]) : sr' = [sr EXCEPT ![s] = st]
    BY <2>1 DEF ChipMoves
  <2>3. sr \in [Socks -> Status] /\ sr[s] \in Status
    BY <1>1 DEF TableTypeOK
  <2>4. (st \in Live => sr[s] \in Live) /\ (st \in Opening => sr[s] \in Opening)
    BY <2>3 DEF Evolves, Status, Live, Closing, Opening
  <2> QED BY <2>2, <2>3, <2>4
<1>4. ObjectTypes'
  BY <1>1, <1>2 DEF ObjectTypes
<1>5. CallInv'
  BY <1>1, <1>2, <1>3 DEF CallInv, CallPlaces, CallIndex, ServerUpToDate, Settled, Sock
<1>6. NoOrphan'
  BY <1>1, <1>2, <1>3 DEF NoOrphan, Held
<1> QED BY <1>4, <1>5, <1>6, Together

(* Steps that touch neither the table nor what the objects hold, and leave *)
(* the call as it is.                                                      *)
LEMMA QuietKeeps ==
  ASSUME ObjectsInv, UNCHANGED <<tableVars, idx, call, stale, sketch>>,
         late' \in BOOLEAN, unread' \in [Socks -> BOOLEAN]
  PROVE  ObjectsInv'
<1>1. ObjectTypes /\ CallInv /\ NoOrphan /\ TableTypeOK
  BY TypesTogether DEF ObjectsInv
<1>2. ObjectTypes' /\ TableTypeOK'
  BY <1>1 DEF ObjectTypes, TableTypeOK, tableVars
<1>3. CallInv' /\ NoOrphan'
  BY <1>1 DEF CallInv, CallPlaces, CallIndex, ServerUpToDate, Settled, Sock, NoOrphan, Held,
     tableVars
<1> QED BY <1>2, <1>3, Together

(* A call is entered.  Nobody was answered for by the call before, which   *)
(* had returned.                                                           *)
LEMMA CallEntered ==
  ASSUME ObjectsInv, call.op = "none", call' \in Calls, call'.udp = NoSock,
         call'.at \notin {"table", "lookupTable"},
         UNCHANGED <<tableVars, idx, unread, stale, sketch>>, late' = FALSE,
         CallPlaces', CallIndex'
  PROVE  ObjectsInv'
<1>1. ObjectTypes /\ CallInv /\ NoOrphan /\ TableTypeOK
  BY TypesTogether DEF ObjectsInv
<1>2. ObjectTypes' /\ TableTypeOK'
  BY <1>1 DEF ObjectTypes, TableTypeOK, tableVars
<1>3. call.at = "none" /\ \A s \in Socks : call.udp # s
  BY <1>1, CallTypes, Indices DEF CallInv, CallPlaces, CallIndex, ObjectTypes
<1>4. ServerUpToDate' /\ Settled'
  BY <1>1, <1>3 DEF CallInv, ServerUpToDate, Settled, tableVars
<1>5. NoOrphan'
  BY <1>1, <1>3 DEF NoOrphan, Held, tableVars
<1> QED BY <1>2, <1>4, <1>5, Together DEF CallInv

LEMMA SketchKeeps == ObjectsInv /\ Sketch => ObjectsInv'
<1> SUFFICES ASSUME ObjectsInv, Sketch PROVE ObjectsInv'
  OBVIOUS
<1>1. ObjectTypes /\ CallInv /\ NoOrphan /\ TableTypeOK
  BY TypesTogether DEF ObjectsInv
<1>2. ASSUME NEW op \in Ops, NEW o \in Objects, NEW at \in Places, Enters(op, o, at)
      PROVE  /\ call.op = "none" /\ late' = FALSE
             /\ UNCHANGED <<tableVars, idx, unread, stale, sketch>>
             /\ call' \in Calls /\ call'.op = op /\ call'.h = o /\ call'.at = at
             /\ call'.udp = NoSock /\ call'.sockindex2 = NoSock
  BY <1>2, NoCallType DEF Enters, Calls
<1>3. ASSUME NEW c \in Clients, ConnectCall(c) PROVE ObjectsInv'
  <2>1. /\ sketch = "connect" /\ c \in Objects /\ idx[c] \in 0 .. NoSock
        /\ \E at \in Places : /\ Enters("connect", c, at)
                              /\ (at = "old" /\ idx[c] < NoSock)
                                 \/ (at \in {"begin", "resolve"} /\ ~(idx[c] < NoSock))
    BY <1>1, <1>3, Indices DEF ConnectCall, Targets, Places, ObjectTypes
  <2>2. PICK at \in Places : /\ Enters("connect", c, at)
                             /\ (at = "old" /\ idx[c] < NoSock)
                                \/ (at \in {"begin", "resolve"} /\ ~(idx[c] < NoSock))
    BY <2>1
  <2>3. /\ call.op = "none" /\ late' = FALSE
        /\ UNCHANGED <<tableVars, idx, unread, stale, sketch>>
        /\ call' \in Calls /\ call'.op = "connect" /\ call'.h = c /\ call'.at = at
        /\ call'.udp = NoSock /\ call'.sockindex2 = NoSock
    BY <1>2, <2>1, <2>2 DEF Ops
  <2>4. CallPlaces'
    BY <2>1, <2>2, <2>3 DEF CallPlaces, InConnect, InLookup, Asking
  <2>5. CallIndex'
    BY <2>1, <2>2, <2>3, Indices DEF CallIndex, InConnect, Asking, Sock
  <2> QED BY <2>2, <2>3, <2>4, <2>5, CallEntered
<1>4. ASSUME NEW c \in Clients, StopCall(c) PROVE ObjectsInv'
  <2>1. /\ call.op = "none" /\ late' = FALSE /\ idx[c] < NoSock
        /\ UNCHANGED <<tableVars, idx, unread, stale, sketch>>
        /\ call' \in Calls /\ call'.op = "stop" /\ call'.h = c /\ call'.at = "discon"
        /\ call'.udp = NoSock /\ call'.sockindex2 = NoSock
    BY <1>2, <1>4, Indices DEF StopCall, Ops, Places
  <2>2. CallPlaces' /\ CallIndex'
    BY <2>1, Indices DEF CallPlaces, CallIndex, Sock
  <2> QED BY <2>1, <2>2, CallEntered
<1>5. ASSUME NEW c \in Clients, ReadAll(c) PROVE ObjectsInv'
  <2>1. UNCHANGED <<tableVars, idx, call, late, stale, sketch>> /\ unread' \in [Socks -> BOOLEAN]
    BY <1>1, <1>5 DEF ReadAll, ObjectTypes
  <2> QED BY <1>1, <2>1, QuietKeeps DEF ObjectTypes
<1>6. CASE ServerBegin
  <2>1. /\ call.op = "none" /\ late' = FALSE /\ idx[Server] = NoSock /\ sketch # "connect"
        /\ UNCHANGED <<tableVars, idx, unread, stale, sketch>>
        /\ call' \in Calls /\ call'.op = "begin" /\ call'.h = Server /\ call'.at = "begin"
        /\ call'.udp = NoSock /\ call'.sockindex2 = NoSock
    BY <1>2, <1>6, Indices DEF ServerBegin, Ops, Places
  <2>2. CallPlaces' /\ CallIndex'
    BY <2>1, Indices DEF CallPlaces, CallIndex, Sock, Asking
  <2> QED BY <2>1, <2>2, CallEntered
<1>7. /\ idx[Server] \in 0 .. NoSock /\ PollEntry(idx[Server]) \in Places
      /\ \/ PollEntry(idx[Server]) = "status" /\ idx[Server] < NoSock
         \/ PollEntry(idx[Server]) = "begin" /\ ~(idx[Server] < NoSock)
  BY <1>1, Indices DEF ObjectTypes, PollEntry, Places
<1>8. CASE ServerWriteCall \/ \E c \in Clients : AvailableCall(c)
  <2>1. PICK o \in Objects, op \in {"write", "available"} :
          /\ sketch = "available" /\ Enters(op, o, PollEntry(idx[Server]))
          /\ (op = "write" /\ o = Server) \/ (op = "available" /\ o \in Clients)
    BY <1>8, Indices DEF ServerWriteCall, AvailableCall
  <2> DEFINE at == PollEntry(idx[Server])
  <2>a. at \in Places /\ op \in Ops /\ o \in Objects /\ Enters(op, o, at)
    BY <1>7, <2>1 DEF Ops
  <2> HIDE DEF at
  <2>2. /\ call.op = "none" /\ late' = FALSE
        /\ UNCHANGED <<tableVars, idx, unread, stale, sketch>>
        /\ call' \in Calls /\ call'.op = op /\ call'.h = o /\ call'.at = at
        /\ call'.udp = NoSock /\ call'.sockindex2 = NoSock
    BY <1>2, <2>a
  <2> USE DEF at
  <2>3. CallPlaces' /\ CallIndex'
    BY <1>7, <2>1, <2>2, Indices DEF CallPlaces, CallIndex, InServer, Asking
  <2> QED BY <1>7, <2>2, <2>3, CallEntered
<1>9. ASSUME NEW c \in Clients, AcceptCall(c) PROVE ObjectsInv'
  <2> DEFINE at == PollEntry(idx[Server])
  <2>1. /\ call.op = "none" /\ late' = FALSE /\ sketch = "accept" /\ idx[c] = NoSock
        /\ UNCHANGED <<tableVars, idx, unread, stale, sketch>>
    BY <1>9 DEF AcceptCall
  <2>2. /\ call' \in Calls /\ call'.op = "accept" /\ call'.h = c /\ call'.at = at
        /\ call'.udp = NoSock /\ call'.sockindex2 = idx[Server]
    <3>1. call' = [op |-> "accept", h |-> c, at |-> at, sockindex2 |-> idx[Server],
                   udp |-> NoSock]
      BY <1>9 DEF AcceptCall, NoCall
    <3>2. at \in Places /\ c \in Objects /\ "accept" \in Ops
      BY <1>7, Indices DEF Ops
    <3> HIDE DEF at
    <3> QED BY <1>7, <3>1, <3>2, Indices DEF Calls
  <2>3. CallPlaces' /\ CallIndex'
    BY <1>7, <2>1, <2>2, Indices DEF CallPlaces, CallIndex, InServer, Asking, Sock
  <2> QED BY <1>7, <2>1, <2>2, <2>3, CallEntered
<1> QED BY <1>3, <1>4, <1>5, <1>6, <1>8, <1>9 DEF Sketch, Poll

LEMMA AfterReturn ==
  ASSUME Returns
  PROVE  /\ call' \in Calls /\ CallPlaces' /\ CallIndex'
         /\ call'.op = "none" /\ call'.at = "none" /\ call'.udp = NoSock
  BY NoCallType, Indices DEF Returns, CallPlaces, CallIndex

(* socketBegin on behalf of an object: the scan and what it closes.        *)
LEMMA SocketSearches ==
  ObjectsInv /\ TableTypeOK' /\ (SocketBegin \/ SocketSearch) => ObjectsInv'
<1> SUFFICES ASSUME ObjectsInv, TableTypeOK', SocketBegin \/ SocketSearch PROVE ObjectsInv'
  OBVIOUS
<1>1. ObjectTypes /\ CallInv /\ NoOrphan /\ TableTypeOK
  BY TypesTogether DEF ObjectsInv
<1>2. CASE SocketBegin
  <2>1. /\ sb.at = "idle" /\ sb'.at = "scan" /\ sr' = sr
        /\ UNCHANGED <<idx, late, unread, stale, sketch>>
    BY <1>2 DEF SocketBegin, BeginCall, Idle
  <2>2. PICK at \in Places : /\ Goes(at)
                             /\ \/ call.at = "begin" /\ at = "table"
                                \/ call.at = "resolve" /\ at = "lookupTable"
    BY <1>2 DEF SocketBegin, Places
  <2>3. /\ call' \in Calls /\ call'.at = at /\ call'.op = call.op /\ call'.h = call.h
        /\ call'.sockindex2 = call.sockindex2 /\ call'.udp = call.udp
    BY <1>1, <2>2, GoesOn DEF ObjectTypes
  <2>4. ObjectTypes'
    BY <1>1, <2>1, <2>3 DEF ObjectTypes
  <2>5. CallPlaces'
    BY <1>1, <2>1, <2>2, <2>3
       DEF CallInv, CallPlaces, InConnect, InLookup, InServer, Asking
  <2>6. CallIndex'
    BY <1>1, <2>1, <2>2, <2>3 DEF CallInv, CallPlaces, CallIndex, InConnect, Asking, Sock
  <2>7. ServerUpToDate' /\ Settled'
    BY <1>1, <2>1, <2>2, <2>3 DEF CallInv, ServerUpToDate, Settled, Sock
  <2>8. NoOrphan'
    BY <1>1, <2>1, <2>2, <2>3 DEF NoOrphan, Held
  <2> QED BY <2>4, <2>5, <2>6, <2>7, <2>8, Together DEF CallInv
<1>3. CASE SocketSearch
  <2>1. /\ sb.at \in {"scan", "close"}
        /\ UNCHANGED <<idx, call, late, unread, stale, sketch>>
    BY <1>3 DEF SocketSearch, BeginScan, BeginClose, sketchVars
  <2>2. \A s \in Socks : sr'[s] \in Live => sr'[s] = sr[s]
    BY <1>1, <1>3 DEF SocketSearch, BeginScan, BeginClose, TableTypeOK, Live
  <2>3. ObjectTypes' /\ CallPlaces' /\ CallIndex'
    BY <1>1, <2>1 DEF ObjectTypes, CallInv, CallPlaces, CallIndex, Sock
  <2>4. ServerUpToDate' /\ Settled'
    BY <1>1, <2>1, <2>2 DEF CallInv, ServerUpToDate, Settled, Opening, Sock
  <2>5. NoOrphan'
    BY <1>1, <2>1, <2>2 DEF NoOrphan, Held
  <2> QED BY <2>3, <2>4, <2>5, Together DEF CallInv
<1> QED BY <1>2, <1>3

(* The socket that is opened has no connection any more, so an object that *)
(* still has its index answers for nothing, and the call answers for it.   *)
LEMMA SocketOpens ==
  TableInv /\ ObjectsInv /\ TableTypeOK' /\ SocketOpen => ObjectsInv'
<1> SUFFICES ASSUME TableInv, ObjectsInv, TableTypeOK', SocketOpen PROVE ObjectsInv'
  OBVIOUS
<1>1. ObjectTypes /\ CallInv /\ NoOrphan /\ TableTypeOK
  BY TypesTogether DEF ObjectsInv
<1>2. /\ call.at \in {"table", "lookupTable"} /\ UNCHANGED <<idx, call, late, sketch>>
      /\ stale' = stale \cup {o \in Objects : idx[o] = sb.s}
      /\ unread' = [unread EXCEPT ![sb.s] = FALSE]
  BY DEF SocketOpen
<1>3. PICK mode \in {"TCP", "UDP"}, port \in {0, 1} : BeginMake(mode, port)
  BY DEF SocketOpen
<1>4. /\ sb.at = "make" /\ sb'.at = "done" /\ sb'.s = sb.s
      /\ \A t \in Socks : t # sb.s => sr'[t] = sr[t]
  <2>1. sb' = [Idle EXCEPT !.at = "done", !.s = sb.s] /\ sb.at = "make"
    BY <1>3 DEF BeginMake
  <2>2. sr \in [Socks -> Status]
    BY <1>1 DEF TableTypeOK
  <2> QED BY <1>3, <2>1, <2>2 DEF BeginMake, Idle
<1>5. sb.s < NoSock
  BY <1>4 DEF TableInv, NotesHold, NoSock
<1>6. ObjectTypes'
  BY <1>1, <1>2 DEF ObjectTypes
<1>7. CallPlaces' /\ CallIndex'
  BY <1>1, <1>2 DEF CallInv, CallPlaces, CallIndex, Sock
<1>8. ServerUpToDate' /\ Settled'
  <2>1. sketch = "accept" => call.at = "table"
    BY <1>1, <1>2, CallTypes
       DEF CallInv, CallPlaces, ObjectTypes, Ops, InServer, Asking
  <2> QED BY <1>1, <1>2, <1>4, <1>5, <2>1 DEF CallInv, ServerUpToDate, Settled, Sock
<1>9. NoOrphan'
  BY <1>1, <1>2, <1>4 DEF NoOrphan, Held
<1> QED BY <1>6, <1>7, <1>8, <1>9, Together DEF CallInv

(* The index is handed over: to an object that had none, or to the server, *)
(* whose earlier socket is the one accept() returns.                       *)
LEMMA SocketIsTaken == ObjectsInv /\ TableTypeOK' /\ SocketTaken => ObjectsInv'
<1> SUFFICES ASSUME ObjectsInv, TableTypeOK', SocketTaken PROVE ObjectsInv'
  OBVIOUS
<1>1. ObjectTypes /\ CallInv /\ NoOrphan /\ TableTypeOK
  BY TypesTogether DEF ObjectsInv
<1> DEFINE o == IF call.op = "connect" THEN call.h ELSE Server
<1>2. /\ call.at = "table" /\ sb.at = "done" /\ sb'.at = "idle" /\ sr' = sr
      /\ UNCHANGED <<late, unread, sketch>> /\ Takes(o, sb.s, TRUE)
  BY DEF SocketTaken, BeginReturn, Idle
<1>3. o \in Objects /\ sb.s \in 0 .. NoSock
  BY <1>1, CallTypes, Indices, SocketAssumption DEF ObjectTypes, TableTypeOK, NoSock
<1>o. /\ call.op = "connect" => o = call.h
      /\ call.op # "connect" => o = Server
  OBVIOUS
<1> HIDE DEF o
<1>4. /\ idx' \in [Objects -> 0 .. NoSock] /\ stale' \subseteq Objects
      /\ idx'[o] = sb.s /\ o \notin stale'
      /\ \A p \in Objects : p # o => idx'[p] = idx[p] /\ (p \in stale' <=> p \in stale)
  BY <1>1, <1>2, <1>3, TakesIndex
<1>5. \A s \in Socks : call.udp # s
  BY <1>1, <1>2, CallTypes, Indices DEF CallInv, CallIndex, ObjectTypes
<1>6. CASE Returns
  <2>1. call.op = "connect" /\ sb.s = NoSock /\ sketch = "connect"
    <3>1. ASSUME NEW at \in {"command", "listen", "return"}, Goes(at) PROVE FALSE
      BY <1>1, <1>6, <3>1, GoesOn, NoCallType DEF Returns, ObjectTypes, Places
    <3>2. call.op = "connect" /\ sb.s = NoSock
      BY <3>1 DEF SocketTaken
    <3> QED BY <1>1, <3>2 DEF CallInv, CallPlaces
  <2>2. /\ call' \in Calls /\ CallPlaces' /\ CallIndex'
        /\ call'.op = "none" /\ call'.at = "none" /\ call'.udp = NoSock
    BY <1>6, AfterReturn
  <2>3. ObjectTypes'
    BY <1>1, <1>2, <1>4, <2>2 DEF ObjectTypes
  <2>4. Sock = NoSock /\ \A s \in Socks : s # NoSock
    BY <1>1, <1>2, <2>1, CallTypes, Indices
       DEF CallInv, CallIndex, ObjectTypes, InConnect, Sock
  <2>5. ServerUpToDate' /\ Settled'
    BY <1>1, <1>2, <1>5, <2>1, <2>2, <2>4 DEF CallInv, ServerUpToDate, Settled
  <2>6. NoOrphan'
    BY <1>1, <1>2, <1>4, <1>5, <1>o, <2>1, <2>4 DEF NoOrphan, Held, Sock
  <2> QED BY <2>2, <2>3, <2>5, <2>6, Together DEF CallInv
<1>7. ASSUME NEW at \in {"command", "listen", "return"}, Goes(at),
             at = "command" => call.op = "connect" /\ sb.s # NoSock,
             at # "command" => call.op # "connect",
             at = "listen" => sb.s # NoSock
      PROVE  ObjectsInv'
  <2>1. /\ call' \in Calls /\ call'.at = at /\ call'.op = call.op /\ call'.h = call.h
        /\ call'.sockindex2 = call.sockindex2 /\ call'.udp = call.udp
    BY <1>1, <1>7, GoesOn DEF ObjectTypes, Places
  <2>2. ObjectTypes'
    BY <1>1, <1>2, <1>4, <2>1 DEF ObjectTypes
  <2>3. CallPlaces'
    BY <1>1, <1>2, <1>7, <2>1
       DEF CallInv, CallPlaces, InConnect, InLookup, InServer, Asking
  <2>4. call.op \in {"connect", "begin", "accept", "available", "write"}
    BY <1>1, <1>2, CallTypes DEF CallInv, CallPlaces, ObjectTypes, Ops
  <2>5. CallIndex'
    <3>1. call.op = "accept" => call.h # o
      BY <1>1, <1>o, ClientAssumption DEF CallInv, CallPlaces
    <3>2. call.op = "accept" => Sock = NoSock /\ call.h \in Objects
      BY <1>1, CallTypes DEF CallInv, CallIndex, ObjectTypes
    <3>3. at \in {"command", "listen"} => sb.s < NoSock
      BY <1>3, <1>7, Indices
    <3>4. ~(call.udp < NoSock)
      BY <1>1, <1>2 DEF CallInv, CallIndex
    <3> QED BY <1>4, <1>7, <1>o, <2>1, <2>4, <3>1, <3>2, <3>3, <3>4
            DEF CallIndex, InConnect, Asking, Sock
  <2>6. ServerUpToDate'
    <3>1. sketch = "accept" => o = Server
      BY <1>1, <1>o DEF CallInv, CallPlaces
    <3> QED BY <1>2, <1>4, <3>1 DEF ServerUpToDate
  <2>7. Settled'
    <3> SUFFICES ASSUME sketch = "connect", NEW s \in Socks, sr[s] \in Opening
                 PROVE  call'.op = "connect" /\ call'.at = "command" /\ idx'[call'.h] = s
      BY <1>2 DEF Settled, Sock
    <3>1. sb.s = s
      BY <1>1, <1>2, <1>5 DEF CallInv, Settled
    <3>2. call.op = "connect"
      BY <1>1, <2>4 DEF CallInv, CallPlaces
    <3> QED BY <1>4, <1>7, <1>o, <2>1, <3>1, <3>2
  <2>8. NoOrphan'
    <3> SUFFICES ASSUME sketch # "available", NEW s \in Socks, sr[s] \in Live
                 PROVE  Held(s)'
      BY <1>2 DEF NoOrphan
    <3>1. Held(s)
      BY <1>1 DEF NoOrphan
    <3>2. CASE sb.s = s
      BY <1>3, <1>4, <3>2 DEF Held
    <3>3. CASE call.op = "accept" /\ call.sockindex2 = s
      BY <2>1, <3>3 DEF Held
    <3>4. CASE \E p \in Objects : idx[p] = s /\ p \notin stale
      <4>1. PICK p \in Objects : idx[p] = s /\ p \notin stale
        BY <3>4
      <4>2. CASE p # o
        BY <1>4, <4>1, <4>2 DEF Held
      <4>3. CASE p = o
        <5>1. idx[o] = NoSock \/ (call.op = "accept" /\ idx[o] = call.sockindex2)
          <6>1. CASE call.op = "connect"
            <7>1. ~(Sock < NoSock) /\ Sock \in 0 .. NoSock
              BY <1>1, <1>2, <1>3, <1>o, <6>1 DEF CallInv, CallIndex, InConnect, Sock, ObjectTypes
            <7> QED BY <1>o, <6>1, <7>1, Indices DEF Sock
          <6>2. CASE call.op = "begin"
            BY <1>1, <1>2, <1>o, <6>2 DEF CallInv, CallPlaces, CallIndex, Asking, Sock
          <6>3. CASE call.op = "accept"
            BY <1>1, <1>2, <1>o, <6>3 DEF CallInv, CallIndex, Asking
          <6>4. call.op \notin {"available", "write"}
            BY <1>1 DEF CallInv, CallPlaces
          <6> QED BY <2>4, <6>1, <6>2, <6>3, <6>4
        <5> QED BY <2>1, <4>1, <4>3, <5>1, Indices DEF Held
      <4> QED BY <4>2, <4>3
    <3> QED BY <1>5, <3>1, <3>2, <3>3, <3>4 DEF Held
  <2> QED BY <2>2, <2>3, <2>5, <2>6, <2>7, <2>8, Together DEF CallInv
<1> QED BY <1>6, <1>7 DEF SocketTaken

(* The lookup has its socket, and gives it back.                           *)
LEMMA LookupKeeps ==
  ObjectsInv /\ TableTypeOK' /\ (LookupTaken \/ LookupEnds) => ObjectsInv'
<1> SUFFICES ASSUME ObjectsInv, TableTypeOK', LookupTaken \/ LookupEnds PROVE ObjectsInv'
  OBVIOUS
<1>1. ObjectTypes /\ CallInv /\ NoOrphan /\ TableTypeOK
  BY TypesTogether DEF ObjectsInv
<1>2. /\ call.at \in {"lookupTable", "lookup"} /\ UNCHANGED <<idx, late, unread, stale, sketch>>
  BY DEF LookupTaken, LookupEnds
<1>3. call.op = "connect" /\ sketch = "connect"
  BY <1>1, <1>2, CallTypes
     DEF CallInv, CallPlaces, ObjectTypes, Ops, InServer, Asking
<1>4. call.udp \in 0 .. NoSock /\ (call.udp \in Socks <=> call.at = "lookup")
  BY <1>1, CallTypes, Indices DEF CallInv, CallIndex, ObjectTypes
\* What is answered for by an object stays so.
<1>5. ASSUME NEW s \in Socks, Held(s), call.udp # s,
             ~(call.at = "lookupTable" /\ sb.at = "done" /\ sb.s = s)
      PROVE  Held(s)'
  BY <1>2, <1>3, <1>5 DEF Held
<1>6. CASE LookupTaken /\ sb.s = NoSock
  <2>1. Returns /\ sr' = sr
    BY <1>6 DEF LookupTaken, BeginReturn
  <2>2. /\ call' \in Calls /\ CallPlaces' /\ CallIndex'
        /\ call'.op = "none" /\ call'.at = "none" /\ call'.udp = NoSock
    BY <2>1, AfterReturn
  <2>3. \A s \in Socks : s # NoSock /\ call.udp # s
    BY <1>4, <1>6, Indices DEF LookupTaken
  <2>4. ObjectTypes' /\ ServerUpToDate' /\ Settled'
    BY <1>1, <1>2, <1>3, <1>6, <2>1, <2>2, <2>3 DEF ObjectTypes, CallInv, ServerUpToDate, Settled
  <2>5. NoOrphan'
    BY <1>1, <1>2, <1>5, <1>6, <2>1, <2>3 DEF NoOrphan
  <2> QED BY <2>2, <2>4, <2>5, Together DEF CallInv
<1>7. CASE LookupTaken /\ sb.s # NoSock
  <2>1. /\ call' = [call EXCEPT !.at = "lookup", !.udp = sb.s] /\ sr' = sr
        /\ sb.s \in 0 .. NoSock /\ call.at = "lookupTable" /\ sb.at = "done"
    BY <1>1, <1>7, SocketAssumption DEF LookupTaken, BeginReturn, TableTypeOK, NoSock
  <2>2. /\ call' \in Calls /\ call'.at = "lookup" /\ call'.op = call.op /\ call'.h = call.h
        /\ call'.sockindex2 = call.sockindex2 /\ call'.udp = sb.s
    BY <1>1, <2>1 DEF ObjectTypes, Calls, Places
  <2>3. CallPlaces'
    BY <1>1, <1>2, <1>3, <2>2 DEF CallInv, CallPlaces, InLookup, InConnect
  <2>4. CallIndex'
    BY <1>1, <1>2, <1>3, <1>7, <2>1, <2>2, Indices
       DEF CallInv, CallIndex, InConnect, Asking, Sock
  <2>5. ObjectTypes' /\ ServerUpToDate'
    BY <1>1, <1>2, <1>3, <2>2 DEF ObjectTypes, ServerUpToDate
  <2>6. \A s \in Socks : call.udp # s
    BY <1>4, <2>1
  <2>7. Settled'
    BY <1>1, <1>2, <1>3, <2>1, <2>2, <2>6 DEF CallInv, Settled
  <2>8. NoOrphan'
    <3> SUFFICES ASSUME NEW s \in Socks, sr[s] \in Live PROVE Held(s)'
      BY <2>1 DEF NoOrphan
    <3>1. CASE sb.s = s
      BY <2>2, <3>1 DEF Held
    <3>2. CASE sb.s # s
      BY <1>1, <1>3, <1>5, <2>6, <3>2 DEF NoOrphan
    <3> QED BY <3>1, <3>2
  <2> QED BY <2>3, <2>4, <2>5, <2>7, <2>8, Together DEF CallInv
<1>8. CASE LookupEnds
  <2>1. /\ call.at = "lookup" /\ socketClose(call.udp) /\ call.udp \in Socks
        /\ Returns \/ call' = [call EXCEPT !.at = "begin", !.udp = NoSock]
    BY <1>4, <1>8 DEF LookupEnds
  <2>2. /\ sr'[call.udp] \notin Live
        /\ \A t \in Socks : t # call.udp => sr'[t] = sr[t]
        /\ sb.at = "idle" /\ sb' = sb
    BY <1>1, <2>1, ClosesTable
  <2>3. /\ call' \in Calls /\ CallPlaces' /\ CallIndex' /\ call'.at \in {"none", "begin"}
    <3>1. CASE Returns
      BY <3>1, AfterReturn
    <3>2. CASE call' = [call EXCEPT !.at = "begin", !.udp = NoSock]
      <4>1. /\ call' \in Calls /\ call'.at = "begin" /\ call'.op = call.op /\ call'.h = call.h
            /\ call'.sockindex2 = call.sockindex2 /\ call'.udp = NoSock
        BY <1>1, <3>2, Indices DEF ObjectTypes, Calls, Places
      <4>2. CallPlaces'
        BY <1>1, <1>2, <1>3, <4>1 DEF CallInv, CallPlaces, Asking
      <4>3. CallIndex'
        BY <1>1, <1>2, <1>3, <2>1, <4>1, Indices
           DEF CallInv, CallIndex, InConnect, Asking, Sock
      <4> QED BY <4>1, <4>2, <4>3
    <3> QED BY <2>1, <3>1, <3>2
  <2>4. ObjectTypes' /\ ServerUpToDate'
    BY <1>1, <1>2, <1>3, <2>3 DEF ObjectTypes, ServerUpToDate
  <2>5. Settled'
    BY <1>1, <1>2, <1>3, <2>1, <2>2, <2>3 DEF CallInv, Settled, Opening
  <2>6. NoOrphan'
    BY <1>1, <1>2, <1>3, <1>5, <2>1, <2>2 DEF NoOrphan
  <2> QED BY <2>3, <2>4, <2>5, <2>6, Together DEF CallInv
<1> QED BY <1>6, <1>7, <1>8

(* A step of connect() or stop() on the socket of its own object: the      *)
(* socket stays with the object, or is dropped when it is not live.        *)
LEMMA OwnSocket ==
  ASSUME ObjectsInv, call.op \in {"connect", "stop"}, Sock \in Socks,
         call.at \notin {"table", "lookupTable", "lookup"},
         \A t \in Socks : t # Sock => sr'[t] = sr[t],
         \/ UNCHANGED <<idx, stale>> /\ (sr'[Sock] \in Live => sr[Sock] \in Live)
         \/ Drops(call.h) /\ sr'[Sock] \notin Live,
         sr'[Sock] \in Opening /\ sketch = "connect" =>
            call'.op = "connect" /\ call'.at \in {"command", "wait", "close"}
            /\ call'.h = call.h /\ idx' = idx,
         call' \in Calls, UNCHANGED <<late, unread, sketch>>
  PROVE  /\ ObjectTypes' /\ ServerUpToDate' /\ Settled' /\ NoOrphan'
         /\ UNCHANGED <<idx, stale>>
            \/ (idx'[call.h] = NoSock /\ \A p \in Objects : p # call.h => idx'[p] = idx[p])
<1>1. ObjectTypes /\ CallInv /\ NoOrphan
  BY TypesTogether DEF ObjectsInv
<1>2. call.h \in Objects /\ call.h \in Clients /\ call.h # Server
  BY <1>1, CallTypes, ClientAssumption DEF ObjectTypes, CallInv, CallPlaces
<1>3. \A s \in Socks : call.udp # s
  BY <1>1, CallTypes, Indices DEF CallInv, CallIndex, ObjectTypes
<1>4. /\ idx' \in [Objects -> 0 .. NoSock] /\ stale' \subseteq Objects
      /\ \A p \in Objects : p # call.h => idx'[p] = idx[p] /\ (p \in stale' <=> p \in stale)
      /\ UNCHANGED <<idx, stale>> \/ idx'[call.h] = NoSock
  BY <1>1, <1>2, DropsIndex DEF ObjectTypes
<1>5. ObjectTypes'
  BY <1>1, <1>4 DEF ObjectTypes
<1>6. ServerUpToDate'
  BY <1>1, <1>2, <1>4, Indices DEF CallInv, ServerUpToDate
<1>7. Settled'
  BY <1>1, <1>3 DEF CallInv, Settled, Sock
<1>8. NoOrphan'
  <2> SUFFICES ASSUME sketch # "available", NEW s \in Socks, sr'[s] \in Live PROVE Held(s)'
    BY DEF NoOrphan
  <2>1. Held(s) /\ (s = Sock => UNCHANGED <<idx, stale>>)
    BY <1>1 DEF NoOrphan
  <2>2. PICK p \in Objects : idx[p] = s /\ p \notin stale
    BY <1>3, <2>1 DEF Held
  <2>3. idx'[p] = s /\ p \notin stale'
    BY <1>4, <2>1, <2>2 DEF Sock
  <2> QED BY <2>3 DEF Held
<1> QED BY <1>4, <1>5, <1>6, <1>7, <1>8

(* The places of connect() and stop() after such a step.                   *)
LEMMA OwnPlaces ==
  ASSUME ObjectTypes, CallPlaces, CallIndex, call.op \in {"connect", "stop"}, sketch' = sketch,
         call.at # "lookup",
         \/ Returns
         \/ \E at \in Places :
              /\ Goes(at)
              /\ call.op = "connect" => at \in InConnect \cup {"begin", "resolve"}
              /\ call.op = "stop" => at \in {"wait", "close"}
              /\ idx'[call.h] < NoSock <=> at \in InConnect
  PROVE  call' \in Calls /\ CallPlaces' /\ CallIndex'
<1>1. CASE Returns
  BY <1>1, AfterReturn
<1>2. ASSUME NEW at \in Places, Goes(at),
             call.op = "connect" => at \in InConnect \cup {"begin", "resolve"},
             call.op = "stop" => at \in {"wait", "close"},
             idx'[call.h] < NoSock <=> at \in InConnect
      PROVE  call' \in Calls /\ CallPlaces' /\ CallIndex'
  <2>1. /\ call' \in Calls /\ call'.at = at /\ call'.op = call.op /\ call'.h = call.h
        /\ call'.sockindex2 = call.sockindex2 /\ call'.udp = call.udp
    BY <1>2, GoesOn DEF ObjectTypes
  <2>2. CallPlaces'
    BY <1>2, <2>1 DEF CallPlaces, InLookup, Asking
  <2>3. CallIndex'
    BY <1>2, <2>1 DEF CallIndex, InConnect, Sock
  <2> QED BY <2>1, <2>2, <2>3
<1> QED BY <1>1, <1>2

LEMMA ConnectKeeps ==
  /\ ObjectsInv /\ TableTypeOK'
  /\ \/ ConnectOldStatus \/ ConnectOldDisconnect \/ ConnectCommand \/ ConnectPoll
     \/ ConnectGiveUp
  => ObjectsInv'
<1> SUFFICES ASSUME ObjectsInv, TableTypeOK',
                    \/ ConnectOldStatus \/ ConnectOldDisconnect \/ ConnectCommand \/ ConnectPoll
                    \/ ConnectGiveUp
             PROVE  ObjectsInv'
  OBVIOUS
<1>1. ObjectTypes /\ CallInv /\ NoOrphan /\ TableTypeOK /\ CallPlaces /\ CallIndex
  BY TypesTogether DEF ObjectsInv, CallInv
<1>2. /\ call.op = "connect" /\ call.at \in InConnect
      /\ UNCHANGED <<late, unread, sketch>>
      /\ call.at # "lookup" /\ call.at \notin {"table", "lookupTable", "lookup"}
  BY DEF ConnectOldStatus, ConnectOldDisconnect, ConnectCommand, ConnectPoll, ConnectGiveUp,
         InConnect
<1>3. call.h \in Objects /\ Sock \in Socks /\ idx[call.h] < NoSock /\ sketch = "connect"
  <2>1. Sock < NoSock /\ Sock \in 0 .. NoSock /\ call.h \in Objects
    BY <1>1, <1>2, CallTypes DEF CallIndex, ObjectTypes, Sock
  <2> QED BY <1>1, <1>2, <2>1, Indices DEF CallPlaces, Sock
<1>4. sr[Sock] \in Status /\ (sr[Sock] \in Opening => call.at \in {"command", "wait", "close"})
  <2>1. sr[Sock] \in Status /\ call.udp # Sock
    BY <1>1, <1>2, <1>3, CallTypes, Indices DEF TableTypeOK, CallIndex, ObjectTypes
  <2> QED BY <1>1, <1>2, <1>3, <2>1 DEF CallInv, Settled
\* The object keeps its socket and the call goes on.
<1>5. ASSUME NEW at \in {"oldDiscon", "wait", "close"}, Goes(at), UNCHANGED <<idx, stale>>,
             sr'[Sock] \in Live => sr[Sock] \in Live,
             \A t \in Socks : t # Sock => sr'[t] = sr[t],
             sr'[Sock] \in Opening => at # "oldDiscon"
      PROVE  ObjectsInv'
  <2>1. at \in Places /\ at \in InConnect
    BY <1>5 DEF Places, InConnect
  <2>2. call' \in Calls /\ CallPlaces' /\ CallIndex'
    BY <1>1, <1>2, <1>3, <1>5, <2>1, OwnPlaces
  <2>3. call'.op = "connect" /\ call'.at = at /\ call'.h = call.h
    BY <1>1, <1>2, <1>5, <2>1, GoesOn DEF ObjectTypes
  <2>4. ObjectTypes' /\ ServerUpToDate' /\ Settled' /\ NoOrphan'
    BY <1>2, <1>3, <1>5, <2>2, <2>3, OwnSocket
  <2> QED BY <2>2, <2>4, Together DEF CallInv
\* The object drops its socket, and the call goes on or returns.
<1>6. ASSUME Drops(call.h), Returns \/ \E at \in Targets : Goes(at),
             sr'[Sock] \notin Live, \A t \in Socks : t # Sock => sr'[t] = sr[t]
      PROVE  ObjectsInv'
  <2>1. idx'[call.h] = NoSock /\ ~(NoSock < NoSock)
    BY <1>1, <1>3, <1>6, DropsIndex, SocketAssumption DEF NoSock
  <2>2. \/ Returns
        \/ \E at \in Places : /\ Goes(at)
                              /\ at \in {"begin", "resolve"}
                              /\ idx'[call.h] < NoSock <=> at \in InConnect
    BY <1>6, <2>1 DEF Targets, Places, InConnect
  <2>3. call' \in Calls /\ CallPlaces' /\ CallIndex'
    BY <1>1, <1>2, <2>2, OwnPlaces
  <2>4. sr'[Sock] \notin Opening
    BY <1>6 DEF Opening
  <2>5. ObjectTypes' /\ ServerUpToDate' /\ Settled' /\ NoOrphan'
    BY <1>2, <1>3, <1>6, <2>3, <2>4, OwnSocket
  <2> QED BY <2>3, <2>5, Together DEF CallInv
<1>7. CASE ConnectOldStatus
  <2>1. sr' = sr /\ call.at = "old"
    BY <1>7 DEF ConnectOldStatus, tableVars
  <2>2. CASE sr[Sock] # "CLOSED" /\ Goes("oldDiscon") /\ UNCHANGED <<idx, stale>>
    BY <1>4, <1>5, <2>1, <2>2
  <2>3. CASE sr[Sock] = "CLOSED" /\ (\E at \in Targets : Goes(at)) /\ Drops(call.h)
    BY <1>6, <2>1, <2>3 DEF Live
  <2> QED BY <1>7, <2>2, <2>3 DEF ConnectOldStatus
<1>8. CASE ConnectOldDisconnect
  <2>1. sr'[Sock] \notin Live /\ \A t \in Socks : t # Sock => sr'[t] = sr[t]
    BY <1>1, <1>3, <1>4, <1>8, DisconnectsTable DEF ConnectOldDisconnect
  <2> QED BY <1>6, <1>8, <2>1 DEF ConnectOldDisconnect
<1>9. CASE ConnectCommand
  <2>1. Commanded(Sock, AfterConnect(sr[Sock])) /\ AfterConnect(sr[Sock]) \in Status
    BY <1>4, <1>9, CommandTypes DEF ConnectCommand, socketConnect
  <2>2. sr'[Sock] = AfterConnect(sr[Sock]) /\ \A t \in Socks : t # Sock => sr'[t] = sr[t]
    BY <1>1, <1>3, <2>1, CommandsTable
  <2>3. sr'[Sock] \in Live => sr[Sock] \in Live
    BY <2>2 DEF AfterConnect, Live
  <2> QED BY <1>5, <1>9, <2>2, <2>3 DEF ConnectCommand
<1>10. CASE ConnectPoll
  <2>1. sr' = sr /\ call.at = "wait" /\ UNCHANGED <<idx, stale>>
    BY <1>10 DEF ConnectPoll, tableVars
  <2>2. CASE sr[Sock] \in {"ESTABLISHED", "CLOSE_WAIT", "CLOSED"} /\ Returns
    <3>1. call' \in Calls /\ CallPlaces' /\ CallIndex'
      BY <2>2, AfterReturn
    <3>2. sr'[Sock] \notin Opening
      BY <2>1, <2>2 DEF Opening, Live
    <3>3. ObjectTypes' /\ ServerUpToDate' /\ Settled' /\ NoOrphan'
      BY <1>2, <1>3, <2>1, <3>1, <3>2, OwnSocket
    <3> QED BY <3>1, <3>3, Together DEF CallInv
  <2>3. CASE Goes("close")
    BY <1>5, <2>1, <2>3
  <2> QED BY <1>10, <2>2, <2>3 DEF ConnectPoll
<1>11. CASE ConnectGiveUp
  <2>1. sr'[Sock] \notin Live /\ \A t \in Socks : t # Sock => sr'[t] = sr[t]
    BY <1>1, <1>3, <1>11, ClosesTable DEF ConnectGiveUp
  <2> QED BY <1>6, <1>11, <2>1 DEF ConnectGiveUp
<1> QED BY <1>7, <1>8, <1>9, <1>10, <1>11

LEMMA StopKeeps ==
  ObjectsInv /\ TableTypeOK' /\ (StopDisconnect \/ StopPoll \/ StopForce) => ObjectsInv'
<1> SUFFICES ASSUME ObjectsInv, TableTypeOK', StopDisconnect \/ StopPoll \/ StopForce
             PROVE  ObjectsInv'
  OBVIOUS
<1>1. ObjectTypes /\ CallInv /\ NoOrphan /\ TableTypeOK /\ CallPlaces /\ CallIndex
  BY TypesTogether DEF ObjectsInv, CallInv
<1>2. /\ call.op = "stop" /\ call.at \in {"discon", "wait", "close"}
      /\ UNCHANGED <<late, unread, sketch>>
      /\ call.at # "lookup" /\ call.at \notin {"table", "lookupTable", "lookup"}
  BY DEF StopDisconnect, StopPoll, StopForce
<1>3. call.h \in Objects /\ Sock \in Socks /\ idx[call.h] < NoSock
  <2>1. Sock < NoSock /\ Sock \in 0 .. NoSock /\ call.h \in Objects
    BY <1>1, <1>2, CallTypes DEF CallIndex, ObjectTypes, Sock
  <2> QED BY <2>1, Indices DEF Sock
<1>4. sr[Sock] \in Status /\ (sketch = "connect" => sr[Sock] \notin Opening)
  <2>1. sr[Sock] \in Status /\ call.udp # Sock
    BY <1>1, <1>2, <1>3, CallTypes, Indices DEF TableTypeOK, CallIndex, ObjectTypes
  <2> QED BY <1>1, <1>2, <1>3, <2>1 DEF CallInv, Settled
<1>5. ASSUME NEW at \in {"wait", "close"}, Goes(at), UNCHANGED <<idx, stale>>,
             sr'[Sock] \in {sr[Sock], "CLOSED", "FIN_WAIT", "LAST_ACK"},
             \A t \in Socks : t # Sock => sr'[t] = sr[t]
      PROVE  ObjectsInv'
  <2>1. at \in Places /\ at \in InConnect
    BY <1>5 DEF Places, InConnect
  <2>2. call' \in Calls /\ CallPlaces' /\ CallIndex'
    BY <1>1, <1>2, <1>3, <1>5, <2>1, OwnPlaces
  <2>3. /\ sr'[Sock] \in Live => sr[Sock] \in Live
        /\ sr'[Sock] \in Opening => sr[Sock] \in Opening
    BY <1>5 DEF Live, Opening
  <2>4. ObjectTypes' /\ ServerUpToDate' /\ Settled' /\ NoOrphan'
    BY <1>2, <1>3, <1>4, <1>5, <2>2, <2>3, OwnSocket
  <2> QED BY <2>2, <2>4, Together DEF CallInv
<1>6. ASSUME Drops(call.h), Returns, sr'[Sock] = "CLOSED",
             \A t \in Socks : t # Sock => sr'[t] = sr[t]
      PROVE  ObjectsInv'
  <2>1. call' \in Calls /\ CallPlaces' /\ CallIndex'
    BY <1>6, AfterReturn
  <2>2. sr'[Sock] \notin Opening /\ sr'[Sock] \notin Live
    BY <1>6 DEF Opening, Live
  <2>3. ObjectTypes' /\ ServerUpToDate' /\ Settled' /\ NoOrphan'
    BY <1>2, <1>3, <1>6, <2>1, <2>2, OwnSocket
  <2> QED BY <2>1, <2>3, Together DEF CallInv
<1>7. CASE StopDisconnect
  <2>1. /\ sr'[Sock] \in {sr[Sock], "CLOSED", "FIN_WAIT", "LAST_ACK"}
        /\ \A t \in Socks : t # Sock => sr'[t] = sr[t]
    BY <1>1, <1>3, <1>7, DisconnectsTable DEF StopDisconnect
  <2> QED BY <1>5, <1>7, <2>1 DEF StopDisconnect
<1>8. CASE StopPoll
  <2>1. sr' = sr
    BY <1>8 DEF StopPoll, tableVars
  <2> QED BY <1>5, <1>6, <1>8, <2>1 DEF StopPoll
<1>9. CASE StopForce
  <2>1. sr'[Sock] = "CLOSED" /\ \A t \in Socks : t # Sock => sr'[t] = sr[t]
    BY <1>1, <1>3, <1>9, ClosesTable DEF StopForce
  <2> QED BY <1>6, <1>9, <2>1 DEF StopForce
<1> QED BY <1>7, <1>8, <1>9

(* connect() gives up before it has asked for a socket.                    *)
LEMMA NoAddressKeeps == ObjectsInv /\ TableTypeOK' /\ ConnectNoAddress => ObjectsInv'
<1> SUFFICES ASSUME ObjectsInv, TableTypeOK', ConnectNoAddress PROVE ObjectsInv'
  OBVIOUS
<1>1. ObjectTypes /\ CallInv /\ NoOrphan
  BY TypesTogether DEF ObjectsInv
<1>2. /\ call.op = "connect" /\ call.at = "begin" /\ Returns
      /\ UNCHANGED <<tableVars, idx, late, unread, stale, sketch>>
  BY DEF ConnectNoAddress
<1>3. call' \in Calls /\ CallPlaces' /\ CallIndex' /\ \A s \in Socks : call.udp # s
  BY <1>1, <1>2, AfterReturn, CallTypes, Indices DEF CallInv, CallIndex, ObjectTypes
<1>4. ObjectTypes' /\ ServerUpToDate' /\ Settled'
  BY <1>1, <1>2, <1>3 DEF ObjectTypes, CallInv, ServerUpToDate, Settled, tableVars
<1>5. NoOrphan'
  BY <1>1, <1>2, <1>3 DEF NoOrphan, Held, tableVars
<1> QED BY <1>3, <1>4, <1>5, Together DEF CallInv

(* A step of the server's calls on the server's own socket: the server     *)
(* drops it only when it is closed.  In a sketch that connects there is    *)
(* none.                                                                   *)
LEMMA ServerSocket ==
  ASSUME ObjectsInv, call.op \in {"begin", "accept", "available", "write"},
         call.at \notin {"table", "lookupTable"},
         \A t \in Socks : t # idx[Server] => sr'[t] = sr[t],
         idx[Server] \in Socks =>
           \/ UNCHANGED <<idx, stale>> /\ (sr'[idx[Server]] \in Live => sr[idx[Server]] \in Live)
           \/ Drops(Server) /\ sr'[idx[Server]] \notin Live,
         idx[Server] \in Socks \/ UNCHANGED <<idx, stale>>,
         call' \in Calls, UNCHANGED <<late, unread, sketch>>,
         sketch # "available" => call'.op = call.op /\
            \/ call'.sockindex2 = call.sockindex2
            \/ idx[Server] = call.sockindex2 /\ Drops(Server)
  PROVE  ObjectTypes' /\ ServerUpToDate' /\ Settled' /\ NoOrphan'
<1>1. ObjectTypes /\ CallInv /\ NoOrphan
  BY TypesTogether DEF ObjectsInv
<1>2. sketch # "connect" /\ (sketch # "available" => call.op \in {"begin", "accept"})
  BY <1>1 DEF CallInv, CallPlaces
<1>3. \A s \in Socks : sketch # "available" => call.udp # s
  BY <1>1, <1>2, CallTypes, Indices
     DEF CallInv, CallPlaces, CallIndex, ObjectTypes, Asking, InServer
<1>4. /\ idx' \in [Objects -> 0 .. NoSock] /\ stale' \subseteq Objects
      /\ \A p \in Objects : p # Server => idx'[p] = idx[p] /\ (p \in stale' <=> p \in stale)
      /\ UNCHANGED <<idx, stale>> \/ (idx'[Server] = NoSock /\ Server \notin stale')
  BY <1>1, DropsIndex, Indices DEF ObjectTypes
<1>5. ObjectTypes'
  BY <1>1, <1>4 DEF ObjectTypes
<1>6. ServerUpToDate' /\ Settled'
  BY <1>1, <1>2, <1>4 DEF CallInv, ServerUpToDate, Settled
<1>7. NoOrphan'
  <2> SUFFICES ASSUME sketch # "available", NEW s \in Socks, sr'[s] \in Live PROVE Held(s)'
    BY DEF NoOrphan
  <2>1. CASE s = idx[Server]
    <3>1. UNCHANGED <<idx, stale>> /\ sr[s] \in Live
      BY <2>1
    <3>2. Held(s)
      BY <1>1, <3>1 DEF NoOrphan
    <3>3. CASE \E p \in Objects : idx[p] = s /\ p \notin stale
      BY <3>1, <3>3 DEF Held
    <3>4. CASE call.op = "accept" /\ call.sockindex2 = s
      <4>1. Server \notin stale /\ Server \in Objects
        BY <1>1, <1>2, <3>4, Indices DEF CallInv, ServerUpToDate, CallPlaces
      <4> QED BY <2>1, <3>1, <4>1 DEF Held
    <3> QED BY <1>3, <3>2, <3>3, <3>4 DEF Held
  <2>2. CASE s # idx[Server]
    <3>1. Held(s)
      BY <1>1, <2>2 DEF NoOrphan
    <3>2. CASE \E p \in Objects : idx[p] = s /\ p \notin stale
      BY <1>4, <2>2, <3>2 DEF Held
    <3>3. CASE call.op = "accept" /\ call.sockindex2 = s
      BY <2>2, <3>3 DEF Held
    <3> QED BY <1>3, <3>1, <3>2, <3>3 DEF Held
  <2> QED BY <2>1, <2>2
<1> QED BY <1>5, <1>6, <1>7

LEMMA ServerKeeps ==
  /\ ObjectsInv /\ TableTypeOK'
  /\ \/ AcceptStatus \/ AvailableStatus \/ AvailableDrained \/ ServerListen
     \/ ServerWriteStatus \/ ServerSend
  => ObjectsInv'
<1> SUFFICES ASSUME ObjectsInv, TableTypeOK',
                    \/ AcceptStatus \/ AvailableStatus \/ AvailableDrained \/ ServerListen
                    \/ ServerWriteStatus \/ ServerSend
             PROVE  ObjectsInv'
  OBVIOUS
<1>1. ObjectTypes /\ CallInv /\ NoOrphan /\ TableTypeOK /\ CallPlaces /\ CallIndex
  BY TypesTogether DEF ObjectsInv, CallInv
<1>2. /\ call.at \in {"status", "drained", "listen", "return", "send"}
      /\ call.at = "return" => call.op = "write"
      /\ call.at \notin {"table", "lookupTable"}
      /\ UNCHANGED <<late, unread, sketch>>
  BY DEF AcceptStatus, AvailableStatus, AvailableDrained, ServerListen, ServerWriteStatus,
         ServerSend
<1>3. /\ call.op \in {"begin", "accept", "available", "write"}
      /\ call.h \in Objects /\ idx[Server] \in 0 .. NoSock
      /\ ~(call.udp < NoSock) /\ ~(NoSock < NoSock)
  BY <1>1, <1>2, CallTypes, Indices
     DEF CallPlaces, CallIndex, ObjectTypes, Ops, InConnect, InLookup, Asking
<1>4. /\ call.op = "accept" => call.h # Server /\ idx[call.h] = NoSock
      /\ call.op \in {"available", "write"} => sketch = "available"
  BY <1>1, ClientAssumption DEF CallPlaces, CallIndex, Sock
<1>5. idx[Server] \in Socks \/ call.at = "return"
  BY <1>1, <1>2, <1>3, Indices DEF CallIndex
\* The server keeps its socket.
<1>6. ASSUME NEW at \in {"return", "begin", "drained", "send"}, Goes(at), UNCHANGED <<idx, stale>>,
             idx[Server] \in Socks,
             at = "begin" => call.at \in {"status", "drained"},
             at = "drained" => call.op \in {"available", "write"},
             at = "send" => call.op = "write",
             sr'[idx[Server]] \in Live => sr[idx[Server]] \in Live,
             \A t \in Socks : t # idx[Server] => sr'[t] = sr[t]
      PROVE  ObjectsInv'
  <2>1. /\ call' \in Calls /\ call'.at = at /\ call'.op = call.op /\ call'.h = call.h
        /\ call'.sockindex2 = call.sockindex2 /\ call'.udp = call.udp
    BY <1>1, <1>6, GoesOn DEF ObjectTypes, Places
  <2>2. CallPlaces'
    BY <1>1, <1>2, <1>3, <1>6, <2>1 DEF CallPlaces, InServer, Asking
  <2>3. CallIndex'
    <3>1. idx[Server] < NoSock
      BY <1>3, <1>6, Indices
    <3>2. call.op = "begin" => at = "return"
      BY <1>1, <1>6 DEF CallPlaces, Asking
    <3>3. call.op = "accept" /\ at = "begin" => idx[Server] = call.sockindex2
      BY <1>1, <1>6 DEF CallPlaces, CallIndex, InServer, Asking
    <3> QED BY <1>3, <1>4, <1>6, <2>1, <3>1, <3>2, <3>3 DEF CallIndex, Asking, Sock
  <2>4. ObjectTypes' /\ ServerUpToDate' /\ Settled' /\ NoOrphan'
    BY <1>2, <1>3, <1>6, <2>1, ServerSocket
  <2> QED BY <2>2, <2>3, <2>4, Together DEF CallInv
\* The server's socket is closed: it drops it, and begins again.
<1>7. ASSUME Drops(Server), sr' = sr, idx[Server] \in Socks, sr[idx[Server]] = "CLOSED",
             call.at = "status", call' \in Calls, call'.at = "begin", call'.op = call.op,
             call'.h = call.h, call'.udp = call.udp,
             call.op = "accept" => call'.sockindex2 = NoSock,
             call.op # "accept" => call'.sockindex2 = call.sockindex2
      PROVE  ObjectsInv'
  <2>1. idx'[Server] = NoSock /\ \A p \in Objects : p # Server => idx'[p] = idx[p]
    BY <1>1, <1>7, DropsIndex, Indices
  <2>2. call.op # "begin"
    BY <1>1, <1>7 DEF CallPlaces, Asking
  <2>3. CallPlaces'
    BY <1>1, <1>2, <1>3, <1>7, <2>2 DEF CallPlaces, InServer, Asking
  <2>4. CallIndex'
    BY <1>3, <1>4, <1>7, <2>1, <2>2 DEF CallIndex, Asking, Sock
  <2>5. call.op = "accept" => idx[Server] = call.sockindex2
    BY <1>1, <1>7 DEF CallIndex
  <2>6. ObjectTypes' /\ ServerUpToDate' /\ Settled' /\ NoOrphan'
    BY <1>2, <1>3, <1>7, <2>5, ServerSocket DEF Live
  <2> QED BY <2>3, <2>4, <2>6, Together DEF CallInv
\* server.write() returns.
<1>8. ASSUME Returns, call.op = "write", UNCHANGED <<tableVars, idx, stale>> PROVE ObjectsInv'
  <2>1. call' \in Calls /\ CallPlaces' /\ CallIndex' /\ sketch = "available" /\ sr' = sr
    BY <1>4, <1>8, AfterReturn DEF tableVars
  <2>2. ObjectTypes' /\ ServerUpToDate' /\ Settled' /\ NoOrphan'
    BY <1>2, <1>3, <1>8, <2>1, ServerSocket
  <2> QED BY <2>1, <2>2, Together DEF CallInv
<1>9. CASE AcceptStatus
  <2>1. call.op = "accept" /\ call.at = "status" /\ sr' = sr /\ idx[Server] \in Socks
    BY <1>5, <1>9 DEF AcceptStatus, tableVars
  <2>2. CASE /\ sr[idx[Server]] = "CLOSED" /\ Drops(Server)
             /\ call' = [call EXCEPT !.at = "begin", !.sockindex2 = NoSock]
    <3>1. /\ call' \in Calls /\ call'.at = "begin" /\ call'.op = call.op /\ call'.h = call.h
          /\ call'.udp = call.udp /\ call'.sockindex2 = NoSock
      BY <1>1, <2>2, Indices DEF ObjectTypes, Calls, Places
    <3> QED BY <1>7, <2>1, <2>2, <3>1
  <2> QED BY <1>6, <1>9, <2>1, <2>2 DEF AcceptStatus
<1>10. CASE AvailableStatus
  <2>1. /\ call.op \in {"available", "write"} /\ call.at = "status" /\ sr' = sr
        /\ idx[Server] \in Socks
    BY <1>5, <1>10 DEF AvailableStatus, tableVars
  <2>2. CASE sr[idx[Server]] = "CLOSED" /\ Goes("begin") /\ Drops(Server)
    <3>1. /\ call' \in Calls /\ call'.at = "begin" /\ call'.op = call.op /\ call'.h = call.h
          /\ call'.udp = call.udp /\ call'.sockindex2 = call.sockindex2
      BY <1>1, <2>2, GoesOn DEF ObjectTypes, Places
    <3> QED BY <1>7, <2>1, <2>2, <3>1
  <2> QED BY <1>6, <1>10, <2>1, <2>2 DEF AvailableStatus
<1>11. CASE AvailableDrained
  <2>1. call.at = "drained" /\ idx[Server] \in Socks /\ call.op \in {"available", "write"}
    BY <1>1, <1>3, <1>5, <1>11 DEF AvailableDrained, CallPlaces, InServer, Asking
  <2>2. /\ sr'[idx[Server]] \in Live => sr[idx[Server]] \in Live
        /\ \A t \in Socks : t # idx[Server] => sr'[t] = sr[t]
    <3>1. CASE UNCHANGED tableVars
      BY <3>1 DEF tableVars
    <3>2. CASE socketDisconnect(idx[Server])
      BY <1>1, <2>1, <3>2, DisconnectsTable DEF Live
    <3> QED BY <1>11, <3>1, <3>2 DEF AvailableDrained
  <2> QED BY <1>6, <1>11, <2>1, <2>2 DEF AvailableDrained
<1>12. CASE ServerListen
  <2>1. call.at = "listen" /\ idx[Server] \in Socks
    BY <1>5, <1>12 DEF ServerListen
  <2>2. /\ sr'[idx[Server]] \in Live => sr[idx[Server]] \in Live
        /\ \A t \in Socks : t # idx[Server] => sr'[t] = sr[t]
    <3>1. CASE socketListen(idx[Server])
      <4>1. sr[idx[Server]] = "INIT" /\ Commanded(idx[Server], "LISTEN")
        BY <3>1 DEF socketListen, AfterListen
      <4> QED BY <1>1, <2>1, <4>1, CommandsTable DEF Live, Status
    <3>2. CASE socketDisconnect(idx[Server])
      BY <1>1, <2>1, <3>2, DisconnectsTable DEF Live
    <3> QED BY <1>12, <3>1, <3>2 DEF ServerListen
  <2> QED BY <1>6, <1>12, <2>1, <2>2 DEF ServerListen
<1>13. CASE ServerWriteStatus
  <2>1. CASE idx[Server] < NoSock /\ Goes("send")
    <3>1. idx[Server] \in Socks /\ sr' = sr /\ call.op = "write" /\ UNCHANGED <<idx, stale>>
      BY <1>3, <1>13, <2>1, Indices DEF ServerWriteStatus, tableVars
    <3> QED BY <1>6, <2>1, <3>1
  <2> QED BY <1>8, <1>13, <2>1 DEF ServerWriteStatus
<1>14. CASE ServerSend
  <2>1. call.op = "write"
    BY <1>1, <1>3, <1>14 DEF ServerSend, CallPlaces, InServer, Asking
  <2> QED BY <1>8, <1>14, <2>1 DEF ServerSend
<1> QED BY <1>9, <1>10, <1>11, <1>12, <1>13, <1>14

(* accept() hands over the socket the server has had, available() the one  *)
(* the server has.                                                         *)
LEMMA ReturnKeeps == ObjectsInv /\ TableTypeOK' /\ ServerReturn => ObjectsInv'
<1> SUFFICES ASSUME ObjectsInv, TableTypeOK', ServerReturn PROVE ObjectsInv'
  OBVIOUS
<1>1. ObjectTypes /\ CallInv /\ NoOrphan /\ TableTypeOK /\ CallPlaces /\ CallIndex
  BY TypesTogether DEF ObjectsInv, CallInv
<1>2. /\ call.at = "return" /\ call.op # "write" /\ Returns
      /\ UNCHANGED <<tableVars, late, unread, sketch>>
  BY DEF ServerReturn
<1>3. /\ call.op \in {"begin", "accept", "available"} /\ sketch # "connect"
      /\ call.h \in Objects /\ idx[Server] \in 0 .. NoSock /\ call.sockindex2 \in 0 .. NoSock
      /\ (call.op \in {"accept", "available"} => call.h # Server)
      /\ (call.op = "available" => sketch = "available")
      /\ \A s \in Socks : call.udp # s
  BY <1>1, <1>2, CallTypes, Indices, ClientAssumption
     DEF CallPlaces, CallIndex, ObjectTypes, Ops, InConnect, InLookup, Asking
<1>4. call' \in Calls /\ CallPlaces' /\ CallIndex'
  BY <1>2, AfterReturn
<1>5. CASE call.op = "begin"
  <2>1. UNCHANGED <<tableVars, idx, stale>>
    BY <1>2, <1>5 DEF ServerReturn
  <2>2. ObjectTypes' /\ ServerUpToDate' /\ Settled' /\ NoOrphan'
    BY <1>1, <1>2, <1>3, <1>4, <1>5, <2>1
       DEF ObjectTypes, CallInv, ServerUpToDate, Settled, NoOrphan, Held, tableVars
  <2> QED BY <1>4, <2>2, Together DEF CallInv
<1>6. CASE call.op \in {"accept", "available"}
  <2>1. Takes(call.h, Returned, Server \notin stale) /\ Returned \in 0 .. NoSock
    BY <1>3, <1>6 DEF ServerReturn, Returned
  <2>2. /\ idx' \in [Objects -> 0 .. NoSock] /\ stale' \subseteq Objects
        /\ idx'[call.h] = Returned /\ (call.h \in stale' <=> Returned # NoSock /\ Server \in stale)
        /\ \A p \in Objects : p # call.h => idx'[p] = idx[p] /\ (p \in stale' <=> p \in stale)
    BY <1>1, <1>3, <2>1, TakesIndex
  <2>3. ObjectTypes'
    BY <1>1, <1>2, <1>4, <2>2 DEF ObjectTypes
  <2>4. sketch = "accept" => Server \notin stale
    BY <1>1, <1>2 DEF CallInv, ServerUpToDate
  <2>5. ServerUpToDate' /\ Settled'
    BY <1>2, <1>3, <1>6, <2>2, <2>4, Indices DEF ServerUpToDate, Settled
  <2>6. NoOrphan'
    <3> SUFFICES ASSUME sketch # "available", NEW s \in Socks, sr[s] \in Live PROVE Held(s)'
      BY <1>2 DEF NoOrphan, tableVars
    <3>1. /\ call.op = "accept" /\ sketch = "accept" /\ Sock = NoSock
          /\ Returned = call.sockindex2 /\ s # NoSock /\ Held(s)
      BY <1>1, <1>3, <1>6, Indices DEF CallPlaces, CallIndex, Returned, NoOrphan
    <3>2. CASE \E p \in Objects : idx[p] = s /\ p \notin stale
      BY <2>2, <3>1, <3>2 DEF Held, Sock
    <3>3. CASE call.sockindex2 = s
      BY <1>3, <2>2, <2>4, <3>1, <3>3 DEF Held
    <3> QED BY <1>2, <1>3, <3>1, <3>2, <3>3 DEF Held
  <2> QED BY <1>4, <2>3, <2>5, <2>6, Together DEF CallInv
<1> QED BY <1>3, <1>5, <1>6

LEMMA ObjectsInvStep == TableInv /\ ObjectsInv /\ [Next]_vars => TableInv' /\ ObjectsInv'
<1> SUFFICES ASSUME TableInv, ObjectsInv, [Next]_vars PROVE TableInv' /\ ObjectsInv'
  OBVIOUS
<1>1. TableInv'
  BY StepOfTable, TableInvStep
<1>2. TableTypeOK'
  BY <1>1 DEF TableInv
<1>3. ObjectTypes
  BY TypesTogether DEF ObjectsInv
<1>4. CASE DataArrives
  <2>1. UNCHANGED <<tableVars, idx, call, late, stale, sketch>> /\ unread' \in [Socks -> BOOLEAN]
    BY <1>3, <1>4 DEF DataArrives, ObjectTypes
  <2> QED BY <1>1, <1>3, <2>1, QuietKeeps DEF ObjectTypes
<1>5. CASE TimePasses
  <2>1. UNCHANGED <<tableVars, idx, call, unread, stale, sketch>> /\ late' \in BOOLEAN
    BY <1>5 DEF TimePasses
  <2> QED BY <1>1, <1>3, <2>1, QuietKeeps DEF ObjectTypes
<1>6. CASE UNCHANGED vars
  <2>1. UNCHANGED <<tableVars, idx, call, late, unread, stale, sketch>>
    BY <1>6 DEF vars, sketchVars
  <2> QED BY <1>1, <1>3, <2>1, QuietKeeps DEF ObjectTypes
<1>7. CASE CallStep
  BY <1>1, <1>2, <1>7, SocketSearches, SocketOpens, SocketIsTaken, LookupKeeps, ConnectKeeps,
     StopKeeps, ServerKeeps, ReturnKeeps DEF CallStep
<1> QED BY <1>1, <1>2, <1>4, <1>5, <1>6, <1>7, NetworkMovesKeeps, NoAddressKeeps, SketchKeeps
        DEF Next

(***************************************************************************)
(* The theorems about the objects                                          *)
(***************************************************************************)

(* The inductive invariant of the objects over the table: what a call in   *)
(* progress knows of its sockets, and that every socket in use has an      *)
(* object, or a call, that answers for it.                                 *)
THEOREM ObjectsInvariant == Spec => []ObjectsInv
<1>1. Init => TableInv /\ ObjectsInv
  BY TableInit_Inv, ObjectsInit DEF Init
<1> QED BY <1>1, ObjectsInvStep, PTL DEF Spec

(* The objects' and the table's variables keep their types.                *)
THEOREM TypeCorrect == Spec => []TypeOK
  BY ObjectsInvariant, PTL DEF ObjectsInv

(* No socket leaks, however many clients connect, by address or by name,   *)
(* are accepted, stopped or time out.                                      *)
THEOREM NoSocketLeaks == Spec => []NoOrphan
  BY ObjectsInvariant, PTL DEF ObjectsInv

(* The objects implement the table: whatever connect(), stop(), its        *)
(* lookups and the server do to sockets is what SocketTable allows its     *)
(* callers, so that its theorems hold of them.                             *)
THEOREM ObjectsDriveTable == Spec => TableSpec
<1>1. Init => TableInit
  BY DEF Init
<1> QED BY <1>1, StepOfTable, ObjectsInvariant, PTL DEF Spec, TableSpec

(* With them, none of the objects' calls takes a live socket away from     *)
(* another.                                                                *)
THEOREM ConnectionsSafe == Spec => NeverTakesLiveSocket
  BY ObjectsDriveTable, LiveSocketsSafe, PTL

(* connect() and a lookup fail for want of a socket, and a server stays    *)
(* deaf for it, only when none was free.                                   *)
THEOREM RefusedMeansFull == Spec => FullMeansFull
  BY ObjectsDriveTable, FullIsFull, PTL

(* stop() ends with the socket closed and the object without one, whether  *)
(* the peer's FIN, a reset or the time limit comes first.                  *)
THEOREM StopEndsClosed == Spec => StopReleases
<1>1. ObjectsInv /\ [Next]_vars
        => [call.op = "stop" /\ call'.op = "none"
              => sr'[Sock] = "CLOSED" /\ idx'[call.h] = NoSock]_vars
  <2> SUFFICES ASSUME ObjectsInv, Next, call.op = "stop", call'.op = "none"
               PROVE  sr'[Sock] = "CLOSED" /\ idx'[call.h] = NoSock
    OBVIOUS
  <2>1. ObjectTypes /\ CallPlaces /\ CallIndex /\ TableTypeOK
    BY TypesTogether DEF ObjectsInv, CallInv
  <2>2. call.at \in {"discon", "wait", "close"} /\ call.h \in Objects
    BY <2>1, CallTypes DEF CallPlaces, ObjectTypes
  <2>3. Sock \in Socks
    <3>1. Sock < NoSock /\ Sock \in 0 .. NoSock
      BY <2>1, <2>2 DEF CallIndex, ObjectTypes, Sock
    <3> QED BY <3>1, Indices
  <2>4. ASSUME NEW at \in Places, Goes(at) PROVE FALSE
    BY <2>1, <2>4, GoesOn DEF ObjectTypes
  <2>5. CASE StopPoll
    <3>1. sr[Sock] = "CLOSED" /\ Drops(call.h) /\ sr' = sr
      BY <2>4, <2>5 DEF StopPoll, Places, tableVars
    <3> QED BY <2>1, <2>2, <3>1, DropsIndex
  <2>6. CASE StopForce
    <3>1. socketClose(Sock) /\ Drops(call.h)
      BY <2>6 DEF StopForce
    <3> QED BY <2>1, <2>2, <2>3, <3>1, ClosesTable, DropsIndex
  <2>7. call' # call
    OBVIOUS
  <2>8. ~StopDisconnect
    BY <2>4 DEF StopDisconnect, Places
  <2>9. StopPoll \/ StopForce
    BY <2>2, <2>7, <2>8
       DEF Next, NetworkMoves, DataArrives, TimePasses, CallStep, ConnectNoAddress, Sketch, Poll,
           SocketBegin, SocketSearch, SocketOpen, SocketTaken, LookupTaken, LookupEnds,
           ConnectOldStatus, ConnectOldDisconnect, ConnectCommand, ConnectPoll, ConnectGiveUp,
           AcceptStatus, AvailableStatus, AvailableDrained, ServerListen, ServerReturn,
           ServerWriteStatus, ServerSend, ConnectCall, StopCall, ReadAll, ServerBegin,
           ServerWriteCall, AcceptCall, AvailableCall, Enters, sketchVars
  <2> QED BY <2>5, <2>6, <2>9
<1> QED BY <1>1, ObjectsInvariant, PTL DEF Spec, StopReleases
=============================================================================
