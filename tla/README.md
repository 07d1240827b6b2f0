# Verification of EthernetAdv

TLA+ models of the EthernetAdv library (an Arduino library for the WIZnet
W5100, W5200 and W5500 Ethernet chips), TLC configurations that check them and
TLAPS proofs about them. `src/` below is the repository; the library is
`src/src/`. `PROJECT.json` lists, for every definition, the lines it models,
and for every property a change of the code that breaks it.

Contents: 1 the system, 2 what is hard in it, 3 the modules, 4 the runs,
5 bounds, 6 fairness, 7 proofs, 8 where the code and its documentation
disagree, 9 what is not modelled, 10 the plan.

## 1. The system

The chip holds a TCP/IP stack with four or eight *sockets*. The library is the
chip's driver: it has no threads, no interrupts and no timers of its own. A
sketch calls one function at a time from `loop()`; a function reads and writes
the chip's registers and buffers over SPI, and the chip, the network and the
clock move on between any two accesses. So there are two concurrent parties,
the call in progress and everything else, and the unit of atomicity is one
access of the chip.

| Component | State it keeps | Operations | What makes it correct |
|---|---|---|---|
| Chip drivers (`utility/W5x00`, `W5100`, `W5200`, `W5500`) | which chip, `maxSockNum`, `SSIZE`, `initialized`; in the chip, the memory given to each socket | `init`, `softReset`, `read`, `write`, 16-bit register reads | each access reaches the byte it is meant for; the library and the chip agree on buffer sizes; a size register is never seen torn; `init` returns without a chip |
| Socket allocation (`socket.cpp`) | `local_port`; in the chip, the status of each socket | `socketBegin`, `socketBeginMulticast`, `socketListen`, `socketConnect`, `socketDisconnect`, `socketClose` | a live socket is never taken away; "all sockets are in use" only if they were |
| TCP receive path (`socket.cpp`) | `socketState[s]`: `RX_RSR` (a cached count), `RX_RD` (the read pointer), `RX_inc` (space owed to the chip) | `socketRecv`, `socketRecvAvailable`, `socketPeek` | the bytes of the connection, in order, once; the window is given back; unread bytes are not overwritten |
| TCP transmit path (`socket.cpp`) | in the chip, `TX_WR`, `TX_FSR`, the interrupt register | `socketSend`, `socketSendAvailable` | what leaves the chip is what was written; unacknowledged bytes are not overwritten; calls return when the connection dies |
| `EthernetClient`, `EthernetServer` | `_sockindex` | `connect`, `stop`, `read`, `connected`, ...; `begin`, `available`, `accept`, `write` | no socket is open without an object that can stop it; calls return; a server keeps listening |
| `EthernetUDP` | `sockindex`, `_remaining`, `_offset`; in the chip, `TX_WR` | `begin`, `stop`, `parsePacket`, `read`; `beginPacket`, `write`, `endPacket` | datagrams stay framed; packets leave as they were written; a result tells the truth |
| DHCP client (`Dhcp.cpp`, `EthernetAdv.cpp`) | the address, mask, gateway and DNS server of the lease, the state of the exchange, the countdowns | `begin(mac)`, `maintain()` | only an acknowledged address is used; chip and lease agree; what an acknowledgement names is used as it names it; renewals are never late |
| DNS resolver (`Dns.cpp`) | the server, the identifier of the question, a UDP object | `getHostByName`, and through it `connect(host)` and `beginPacket(host)` | an answer belongs to the question; the socket is given back; a failed lookup goes nowhere; a lookup returns |
| `EthernetClass` configuration (`EthernetAdv.cpp`) | in the chip, the MAC address, three addresses and the retransmission; `_dnsServerAddress`, `_dhcp` | five `begin`, `maintain`, setters, getters | address, gateway, mask and DNS server are of one source; times do not overflow their register |

How they interact: client, server, UDP, DHCP and DNS objects all take sockets
from the one table of `socketBegin` and hold no more than the index of one.
TCP and UDP reading share `socketRecv` and the three counts of
`socketState[s]`; TCP and UDP writing share `write_data` and the interrupt
register. DHCP runs over a UDP object; `connect(name)` and DHCP use sockets
while other objects hold theirs. `maintain()` is the only thing that moves the
lease, and with it the DNS server that the next lookup asks; it is the sketch
that has to call it.

## 2. What is hard in it

`PROJECT.json` lists the hazards at their lines. They fall into these kinds.

* **Two accesses are not one.** A 16-bit register is read as two bytes;
  `socketRecv` reads a count and then a status; `socketBegin` decides on
  statuses it noted several accesses ago; `socketSend` reads the free room,
  then the status, then copies, then sends.
* **Caches and deferred commands.** `RX_RSR` is a cached count and RECV is
  deferred until 250 bytes are owed, in a `uint8_t`.
* **Wraps.** 16-bit pointers over buffers of another size, a millisecond clock
  of 32 bits, an ephemeral port counter of 16 bits.
* **Reuse.** A socket serves one connection after another, a UDP object one
  socket after another, the lease one server after another, and what one use
  leaves behind must not be taken for the next one's.
* **Waiting.** Calls poll the chip until something happens; it may not.
* **The network.** DHCP and DNS replies are lost, late, repeated, of another
  server, for another client or to another question; a peer closes, resets or
  vanishes at any time. Every DHCP reply that is parsed leaves its options in
  the members of `DhcpClass`, whether or not it is the one that grants.
* **Half of it.** One of several steps fails: a lease that is not granted
  behind an address already cleared, a lookup with a socket in hand, a packet
  begun and never ended.

## 3. The modules

`M` is the model, `MCM` instantiates it for TLC, `M_proofs` proves theorems.
The theorems about `RegisterRead` are in `RxPath_proofs`, those about
`SocketTable` in `ClientServer_proofs`, those about `UdpReceive` and `UdpSend`
in `EthernetUdp_proofs`, those about `LeaseTimer` in `Dhcp_proofs` and those
about `EthernetConfig` in `Dns_proofs`.

| Module | Code | State and actions |
|---|---|---|
| `RegisterRead` | `getSnRX_RSR`, `getSnTX_FSR` (`socket.cpp:228-245, 345-358`), `__SOCKET_REGISTER16` | The register `reg`, the locals `prev` and `val`, and one action per byte read; `stage` is the byte that comes next. The chip raises the register between any two. |
| `RxPath` | `socketRecv`, `socketRecvAvailable`, `socketPeek`, `read_data`; `EthernetClient` `read`, `available`, `peek`, `connected` | The chip's circular buffer with its pointers (`base`, `arrived`, `freed`), and `socketState[s]` as `ss`. `socketRecv` is four actions, one per access: `RecvRefresh` (count), `RecvStatus`, `RecvCopy`, `RecvCommit` (RECV). |
| `ByteStream` | - | The abstract specification of a byte stream; `RxPath` and `TxPath` both implement it. |
| `TxPath` | `socketSend`, `socketSendAvailable`, `write_data`; `EthernetClient` `write`, `availableForWrite`, `flush` | The chip's buffer with `queued`, `sent`, `acked`, `wr` (TX_WR) and `sendOk`. `socketSend` is a chain of actions: room, status, copy with TX_WR, SEND, then the poll of the interrupt and the status register, and the clearing of SEND_OK. |
| `WiznetSocket` | external | The statuses of a hardware socket and what commands, peers and timers do to it, modelled from how the library uses it. |
| `SocketTable` | `socketBegin`, `socketBeginMulticast`, `socketPortRand` and the socket commands | `sr` is the status of every socket, `sb` the `socketBegin` in progress with the statuses it noted; one action per status read. |
| `ClientServer` | `EthernetClient::connect` to an address and to a name, `stop`; `EthernetServer::begin`, `available`, `accept`, `write` | Extends `SocketTable`. `idx[o]` is `_sockindex` of object `o`, `call` the call in progress, `call.udp` the socket of its name lookup, `late` that it has waited for `_timeout`; `sketch` is what kind of sketch uses the objects. |
| `UdpReceive` | `EthernetUDP` `begin`, `beginMulticast`, `stop`, `parsePacket`, `read` | The receive buffer as a sequence of datagrams' ends, `ss` and `remaining`. `parsePacket` is an action for each turn of its discarding loop, for its check and for its header. |
| `DatagramQueue` | - | The abstract specification of receiving datagrams, implemented by `EthernetUdp`. |
| `UdpSend` | `beginPacket`, `write`, `endPacket` over `socketStartUDP`, `socketBufferData`, `socketSendUDP` | Extends `UdpReceive` by the sending half: `mem` is the transmit buffer by offset, `end` TX_WR, `ir` the interrupt register, `wire` what left. |
| `EthernetUdp` | one `EthernetUDP` object | The calls of both halves on one socket, one at a time; `begin` and `stop` act on both. |
| `EthernetConfig` | `EthernetClass::begin` (five), `maintain`, the setters | `regs`, `mac`, `rcr`, `rtr` are registers of the chip, `dnsServer` and `dhcp` members of `EthernetClass`. A DHCP exchange is one step, with or without a lease: what happens in it is `Dhcp`. With a lease, the four values `DhcpClass` holds are any combination (`Leases` is their product), for the code fills them from separate options of separate replies. |
| `Dns` | `DNSClient`, `connect(host)`, `beginPacket(host)` | Extends `EthernetConfig`. `dns` is the object, `call` the lookup with its locals, `asked` the questions whose answers may still be under way. `inet_aton` is a fold over the characters of a name; `ProcessResponse` one step, the checks of a datagram in their order (`Judged`). |
| `ChipMemory` | constructors, `init`, `softReset`, `SBASE`, `RBASE`, `read`, `write` of the three drivers | For an access, `want` is the byte of a socket's memory the library means and `hit` the one the chip reaches through the address put on the bus. |
| `Dhcp` | `DhcpClass`, `EthernetClass::begin(mac)`, `maintain` | `d` holds the members of `DhcpClass`, `net` the replies on their way, `inUse` the address, mask and gateway of the chip and the DNS server of `EthernetClass`. A mask, gateway or DNS server (`Settings`) is named by the server that sent it; a reply has options for some of them (`Gives`), and `Parsed` overwrites these and no others. One action is one turn of the loop of `request_DHCP_lease`; the sketch may call `begin(mac)` again at any time. |
| `LeaseTimer` | the arithmetic of `checkLease` (`Dhcp.cpp:351-381`) | The countdown in milliseconds with the wrap of `millis()`, which `Dhcp` takes in whole seconds. |
| `ModularArithmetic` | - | Lemmas about `%` that `RxPath_proofs`, `TxPath_proofs` and `Dhcp_proofs` rest on. |

How they fit: `RegisterRead` shows that reading a 16-bit size register in two
bytes is as good as one access, which is how `RxPath` and `TxPath` treat it.
`RxPath` shows that what arrives between the accesses of `socketRecv` does no
harm, which is why `UdpReceive` takes it in one step; `TxPath` shows that
`socketSend` returns, which is why `ClientServer` takes it in one.
`ClientServer` extends `SocketTable`, so that every step of the objects on a
socket is an action of the table, and name lookups compete with the sketch's
objects for sockets; how a lookup ends is `Dns`, which asks the server that
`EthernetConfig` knows. `LeaseTimer` is the clock that `Dhcp` leaves abstract.

Data are abstracted. A byte is the number of its position in the connection or
the packet; a datagram is its payload size; an address is its four octets; a
DNS answer is its identifier and one or two records; a DHCP message is its type,
identifier, address, server, times and the options it has; of ports only the ephemeral counter is
kept. Variables called *ghost* in a module hold what no variable of the code
holds, and no guard reads them.

## 4. The runs

Runs that pass:

| Run | States | What it shows |
|---|---|---|
| `register_read` | 5,875 | The double read returns a value the register really held, although none of its four byte reads is atomic with another, and it returns. |
| `rx_path` | 75,342 | The counts of library and chip balance, unread bytes are intact and no window is withheld from a peer when the cache is empty (`RxInv`), the path implements `ByteStream`, and a byte that arrived is handed over in the end to a sketch that keeps reading. `DisconnectedMeansDrained`: after the peer's FIN, `connected()` becomes false only when all is read. |
| `tx_path` | 178,843 | The mirror image: the pointers keep their order and unacknowledged bytes are not overwritten (`TxInv`), what leaves is what was written (`SendsTheStream`), the SEND_OK a write waits for is its own (`WrittenMeansSent`), `flush()` means acknowledged, every call returns when the connection dies under it. |
| `client_server` | 312,393 | Three kinds of sketch: clients that connect to addresses and names, a server polled with `accept()`, one polled with `available()` that also writes. `socketBegin` never takes a live socket away (`NeverTakesLiveSocket`): a socket noted as closing can by then only be closing or closed (`NotesHold`, a part of `TableInv`). A full table is reported only if no socket was free when the call began. With the first two sketches no socket stays open without an object or a lookup that answers for it (`NoOrphan`, a part of `ObjectsInv`); `stop()` leaves the socket closed; every call returns; a polled server is deaf only for want of a socket (`ServerListensAgain`). |
| `udp` | 567,135 | One object that receives and sends. `parsePacket()` finds the next header whatever was read of the datagram before (`InSync`, a part of `UdpInv`), implements `DatagramQueue`, and gets to every datagram. A packet leaves as it was written, whatever became of the packets before it (`PacketArrivesWhole`); a failure is reported only if the datagram did not leave; both kinds of call return (the comment at `EthernetUdp.cpp:109` asks). |
| `dns` | 1,337,738 | A lookup that returns 1 has an address of its host, although late and repeated answers to other questions, of other names and servers, arrive at its port (`ResolvesRight`); it gives its socket back (`LookupInv`) and returns; `beginPacket(host)` sends nowhere else. And a sketch that configures: what `EthernetClass` uses is all of one `begin()` of the sketch or all of DHCP, never a gateway, mask or DNS server of the one with an address of the other, whichever `begin()` and `maintain()` succeed and fail; times do not overflow their register (`ConfigurationOfOneSource`). |
| `chip_memory` | 4,612 | For the three chips and 0 to 9 sockets requested: block selects, base addresses and size registers fit together; `init()` returns without a chip. |
| `dhcp` | 1,095,190 | With two servers whose replies mix, some of them without options: only an acknowledged address is used, and the lease of the client is what chip and resolver use, settings included (`DhcpInv`). What is in use is the acknowledgement taken last, in every setting it names, although other replies were parsed into the same members before and since (`ConfigurationOfGrant`). A request returns; a client that went back to the start asks again. |
| `lease_timer` | 1,428 | Over wraps of the clock and irregular calls: the renewal is never late, no second is lost or counted twice, and it is early by less than two intervals. |

Runs that TLC must find violated, the subject of section 8: `rx_eof`,
`dhcp_retry` and `dns_connect`.

To run one: `tlc -config RxPath.cfg MCRxPath`. `CHECK_DEADLOCK FALSE` is set
only in `chip_memory`, where a driver asked for no sockets has nothing left to
do after `init`.

`rx_path` and `tx_path` take a chip that does not wrap addresses (W5100,
W5200), where a copy may fall into two; with the constant
`HasOffsetAddressMapping` TRUE they are the W5500's, where one copy does. The
theorems about `RxPath` and `TxPath` hold for both.

## 5. Bounds

| Run | Bound | Why it is enough |
|---|---|---|
| `rx_path`, `rx_eof` | `SSIZE` 4, `StartPtr` 65533, 6 bytes per connection, reads of 1, 2, 5; RECV at 3 owed; `RX_inc` modulo 4 | The 16-bit pointer wraps in the first connection and the buffer wraps in every one; reads are shorter than, as long as and longer than what is there; the threshold is below the buffer's size, as 250 is below 2048, and the counter has no more room than it needs. The number of connections is not bounded. |
| `tx_path` | the same buffer, 7 bytes per connection, writes of 1, 3, 5 bytes | A write that fits, one that fits only a nearly empty buffer and one that is cut. |
| `register_read` | 8 levels around carries | A torn read combines halves of two levels into one that is not among them. |
| `client_server` | 2 sockets, 2 client objects and a server, 1 ephemeral port | Fewer sockets than the objects, lookups and past connections want, so that sockets run out and are reused, from the first and from the second; the port counter wraps at every step. |
| `udp` | receive buffer 9, header 2, payloads 0 and 4, reads of 1, 3, 8, 2 datagrams per socket; transmit buffer 4, pieces of 1 and 3 bytes | One datagram's header fits behind another; reads end inside, at the end of and beyond a datagram; an empty datagram. Packets of several pieces, exactly full, and cut. The number of sockets and of packets is not bounded. |
| `dns`, `dns_connect` | 2 names (one begins like an address) and an address written out; all lengths of `begin(mac, ...)`, and DHCP that leaves one of 2 DNS servers, with a gateway or without; 5 retransmission times; 2 ports, 2 questions under way, a clock of 5, a time limit of 1, answers that live for 3 | Any late answer can meet the next question: with the same port, for the other name, from the other server. The clock wraps within a wait and an answer lives longer than a wait. Values of DHCP that do not belong together; the times on both sides of the longest the register can hold. The number of lookups, of leases and of other calls is not bounded. |
| `dhcp`, `dhcp_retry` | 2 servers with an address each, 2 replies in flight, replies with all options or none (in `dhcp_retry` none), one DISCOVER or renewal in a call and another as its time runs out, leases of 2 s with T1 1 s and T2 2 s, calls 1 or 2 s apart | Any two replies can be confused, across exchanges as well, an offer of one server with the acknowledgement of the other above all. The settings do not depend on each other, so that all or none of them tells as much as any subset. `maintain()` comes when nothing, T1 alone or both are due; more retransmissions repeat the same states with another identifier. The number of leases and of `begin()` is not bounded. |
| `lease_timer` | seconds of 3 ms, a clock of 16 ms, T1 of 7 s, calls up to 12 ms apart, 60 ms | The clock wraps between two renewals. |
| `chip_memory` | 3 polls of `softReset`; transfers that begin at the first or last two bytes of a buffer, their first three bytes; three registers | All chips and all numbers of sockets are exhausted; what can go wrong with an address does so at the border of a buffer, and a transfer of three bytes crosses it; the number of polls does not change what is reached. |

The theorems of section 7 hold without these bounds on sizes, thresholds,
socket numbers, addresses and clocks.

## 6. Fairness

| What is assumed | Where | Why |
|---|---|---|
| a call in progress makes its next access (`WF` of `CallStep`, `Library`, `Parses`, `EndsPacket`, `RequestStep`, `LookupStep`, `ResetUnanswered`) | all | the processor runs; nothing preempts a call for good |
| the sketch reads, parses, polls again and again (`SF(RecvCall)`, `SF(PollsForDatagrams)`, `SF(Poll)`; `WF(Polls)` in `Dhcp`) | only where a property is about a sketch that does | `loop()` repeats; the examples are written so. Strong, since other calls of the same `loop()` make the call impossible in between. |
| time passes (`WF(TimePasses)`, `WF(Tick)`) | `ClientServer`, `Dhcp`, `Dns` | `millis()`. `Tick` stops at the moment the time limit of a wait has passed: the loop polls every 50 ms. |
| on a live connection what was handed over is transmitted and acknowledged, or the chip closes the socket (`WF(Transmit)`, `WF(AckArrives)`) | `TxPath` | the chip retransmits and closes the socket when it gives up |
| a SEND of UDP ends with SEND_OK or TIMEOUT (`WF(ChipSends)`) | `EthernetUdp` | address resolution has a time limit in the chip |

Nothing is asked of the network elsewhere: a peer need not send, close, or
answer, and no DHCP or DNS server need reply.

## 7. Proofs

TLAPS proves these theorems for every value of the constants that satisfies
the `ASSUME`s of their modules.

* **`RxPath_proofs`**, the register read: `ReadTypeCorrect`,
  `DoubleReadIsExact`. The register only grows while a call reads it.
  `RegisterInv` says of each stage of the call what the bytes read so far
  prove: the first word is bounded by values `u <= v` the register held when
  its bytes were read (`Witness`), the second word by later ones. Two equal
  words with ordered witnesses leave only one value, and it was in the
  register.
* **`RxPath_proofs`**, the receive path: `TypeCorrect`, `AccountsBalance`,
  `WindowGivenBack`, `UnreadSafe`, `DisconnectedIsDrained`, all from
  `RxInvariant` (`Spec => []RxInv`), and `ImplementsByteStream`
  (`Spec => Stream!Spec`). The inductive invariant `RxInv` adds to the checked
  properties only `CallInv`, what a call in progress relies on. None of the
  parts is inductive alone: that a segment overwrites nothing needs
  `freed <= got`, which is `Accounting`; that RECV frees what was read needs
  the distance between two 16-bit pointers to be the number of bytes, which
  needs `got - freed <= SSIZE < 65536`, and `ModularArithmetic`. Assumed: the
  buffer size divides 65536 (it is a power of two), the threshold fits the
  counter.
* **`TxPath_proofs`**: `TxInvariant`, and from it `TypeCorrect`, `UnackedSafe`,
  `WrittenIsSent`, `FlushedIsAcked`; `ImplementsByteStream`. `TxInv` is
  `Accounting`, `UnackedIntact` and `CallInv`, the chain a `socketSend` hangs
  by: the room it saw can only grow until it copies; between copy and SEND the
  new bytes lie behind the queued ones and TX_WR points behind them; and
  between two writes SEND_OK is clear and everything queued has been sent, so
  that the SEND_OK of the next is its own. That a copy spares the
  unacknowledged bytes needs `queued + ret - acked <= SSIZE`: two numbers less
  than a buffer apart have different offsets. Assumed as for `RxPath`.
* **`ClientServer_proofs`**, the table: `TableInvariant`, and from it
  `TableTypeCorrect`, `PortsInRange`; `LiveSocketsSafe`, `FullIsFull`.
  `LiveSocketsSafe` rests on `NotesHold`, which is inductive because only
  `socketBegin` itself makes a closed socket live and no other command does so
  during one.
* **`ClientServer_proofs`**, the objects: `ObjectsInvariant`, and from it
  `TypeCorrect`, `NoSocketLeaks` (`NoOrphan`), `StopEndsClosed`;
  `ObjectsDriveTable` (`Spec => TableSpec`): every step of `connect`, `stop`,
  the lookup and the server is one the table allows its callers, and so
  `ConnectionsSafe` and `RefusedMeansFull` take the table's theorems over to
  the objects. `NoOrphan` is not inductive. `CallInv` strengthens it:
  `CallPlaces` and `CallIndex`, where a call can be and what it knows of its
  index there; `ServerUpToDate`, that `accept()` leaves the server with the
  socket it listens on; and `Settled`, that in a sketch that connects every
  socket still on its way to a connection is the call's own. Without `Settled`
  a `connect()` through an object that holds a socket would send DISCON into
  an unfinished handshake and go on, and the socket it let go might stay open;
  it is also why a sketch that both connects and serves is not in the model
  (section 9). Assumed: the server is not one of the client objects, and the
  fixed ports contain 0, which asks for an ephemeral one, and another.
* **`EthernetUdp_proofs`**: `UdpInvariant`, and from it `TypeCorrect`,
  `StaysInSync`, `PacketsLeaveWhole`, `FailuresAreReal`; `QueueIsDelivered`
  (`Spec => Queue!Spec`, where the abstract queue is the datagrams not yet
  parsed and the current one what `_remaining` leaves). Four parts of `UdpInv`
  are there for the induction. `Framed`: the ends of the datagrams keep room
  for a header between them, so that the header `parsePacket` reads is a whole
  one and the payload sizes of the queue are well defined. `ParseInv`: between
  its accesses the socket is open and `_remaining` is what its turn of the
  loop expects. `PacketInv`: the packet under construction lies in the
  transmit memory from its start, and TX_WR behind it once something was
  written. `SendInv`: outside `endPacket` no SEND runs and no flag is set, and
  within it the one flag that is set tells what became of the packet.
* **`ChipMemory_proofs`**: `AccessInvariant`, `MemoryIsDivided`. The invariant
  is `HitsOwnMemory` with `ToldTheChip`, the sizes `init` programs. The sizes
  follow by the cases of `init` on the number of sockets (`ProgrammedSizes`);
  the chip lays the areas one behind the other (`AreasInARow`: the recursive
  sum of the sizes, over eight sockets at most, has a closed form), so that
  those in use are pieces of SSIZE (`StartOfAreas`). On the W5100 and W5200 an
  access below SSIZE stays within its piece, and no other piece has its
  address (`AreaReached`); on the W5500 the block-select shift of each size
  class gives the socket, and 16-bit addresses wrap in the block where the
  buffer does, for transfers of any length (`BufferReachedByBlock`). Nothing
  is assumed but that a register pair lies within a socket's 256 registers.
* **`Dhcp_proofs`**, the client: `DhcpInvariant`, and from it `TypeCorrect`,
  `AddressAcknowledged`, `ChipAgrees`; `UsesWhatWasGranted`. The strengthening
  is `LeaseInv`: an acknowledgement on its way, and an address that is leased,
  are of a server that gave them; a client that asks holds no lease; and one
  that was just granted is not due for rebinding. The last is what
  `UsesWhatWasGranted` needs: `checkLease` goes on from a renewal to the test
  for a rebinding, which would throw the new lease away before `maintain()`
  tells the chip, were T2 not more than 0 (it is a received T2, or seven
  eighths of a lease of at least a second, rounded up: `LeaseOf`). No reply is
  parsed between the acknowledgement and the end of the request, so that the
  members still hold what it named (`AckIsTheLease`, `ReturnsAsGranted`).
* **`Dhcp_proofs`**, the timer: `TimerTypeCorrect`, `CountsEverySecond`,
  `RenewalNeverMissed`, `RenewalNotTooEarly`. `Counted` is the strengthening:
  seconds left and rest of a second always add up to the time that is left.
  Assumed: `maintain()` is called once in the clock's period.
* **`Dns_proofs`**: `ConfigurationHasOneSource`, for any combination of values
  that `DhcpClass` may hold; `ResolverInvariant`, and from it
  `LookupsApart`, `ResolvedIsRight`, `PacketsReachTheirHost`. An answer is
  matched by an identifier that is no more than the time, so the invariant
  follows the questions under way: from `BuildRequest` on none of the others
  has the identifier of the lookup's, and while it waits the one that has is
  its own (`QuestionsApart`). An answer that passes the checks then holds the
  records of the lookup's host, of which the first A record is an address
  (`RecordOfHost`). Error codes stay different from 1 in an `int` of either
  width (`CodesSurvive`). Assumed: what `inet_aton` does with the hosts of an
  instance (`HostsAssumption`, which TLC evaluates; that a fold over the
  characters of any name does it is an induction over data).

So every safety and action property that a passing run checks is a theorem,
and both abstract specifications are implemented for every value of the
constants. Out of the prover's reach, and left to TLC, is everything under
fairness: `EveryByteDelivered`, `CallReturns` (of `RegisterRead` and
`TxPath`), `CallsReturn` (of `ClientServer` and `EthernetUdp`),
`ServerListensAgain`, `RequestReturns`, `RetriesFromStart`,
`EveryDatagramParsed`, `LookupReturns`, `InitReturns`. What `inet_aton`
computes for any name is an induction over data and enters as
`HostsAssumption`. What the proofs do not say, since no module states it, is
that one model may take another's call in one step (section 3, "How they
fit"): that is an argument between modules, made in prose.

## 8. Where the code and its documentation disagree

Three runs have counterexamples; `PROJECT.json` quotes the statements.

* `rx_eof`: `socketRecv` takes the count before the status. Data and FIN that
  arrive in between make `read()` report the end of file with data unread.
  `connected()` takes them the other way round, and is right
  (`DisconnectedMeansDrained`).
* `dhcp_retry`: a renewal that runs out of time leaves a state from which
  `maintain()` never asks again, although `EthernetAdv.cpp:134` says "it will
  retry though". It does so from START (`RetriesFromStart`).
* `dns_connect`: `connect(host)` takes every error code of `getHostByName` but 0
  for success, and connects to what is in the result: 0.0.0.0, which is refused
  further on, or the octets that `inet_aton` read before it gave the name up
  (`Dns.cpp:70`). `beginPacket(host)` asks for 1 and is right
  (`PacketGoesToHost`).

Others the models contain, as the code has them, without a run of their own:

* `connected()` is false for a CLOSED socket with unread data
  (`EthernetClient.cpp:171`; `docs/api.md:1398` counts it as connected).
* A client object whose connection ended goes on with whatever its socket
  serves next: each call checks only that its index is a socket's
  (`EthernetClient.cpp:97`). `NoOrphan` therefore counts only objects that took
  the socket in its present use; the ghost `stale` tells them apart.
* `available()` returns clients without data, and the listening socket itself
  (`EthernetServer.cpp:69`; `docs/api.md:1037`), and forgets an open connection
  when it has to listen on another socket (`docs/api.md:941`). For this reason
  `NoOrphan` leaves that kind of sketch out: that its connections get lost is in
  the model, and no property denies it.
* `accept()` returns the listening socket, and the same socket again once a
  client has connected to it; its branch for connected clients
  (`EthernetServer.cpp:79`) asks for `_sockindex == maxSocketNum()` inside a
  test that it is less, and is dead (`docs/api.md:943`).
* Subnet mask, gateway and DNS server are stored option by option from every
  reply of the exchange that is parsed, offers of other servers included
  (`Dhcp.cpp:280-294`), and neither a refusal nor a timeout clears them
  (`Dhcp.cpp:92-100`); only `begin()` and a rebinding do. An offer of server B
  and then an acknowledgement of server A without one of the three leave A's
  address with B's value, and `begin()` and `maintain()` put it to use. No
  comment promises otherwise; `Dhcp` contains it, and `ConfigurationOfGrant`
  says what does hold.
* A T1 calculated for one lease is kept for the next of another length: "if we
  didn't get it" (`Dhcp.cpp:81`) asks whether T1 is 0, and only `begin()`
  clears it. The same holds of T2.
* `write()` of more than the buffer reports more than was sent
  (`EthernetClient.cpp:98`; `docs/api.md:1783`).
* `EthernetUDP::read(buffer, len)` returns -1 for "none are available", which
  `EthernetAdv.h:215` documents as 0.
* `server.write()` writes to the socket the server holds after its own call of
  `available()`, which moves it to a new listening socket as soon as a client
  is connected (`EthernetServer.cpp:68`), so that it rarely reaches anybody;
  `docs/api.md:1138` has it write to "all the clients connected".
* `beginPacket(host)` returns the error codes of the lookup where
  `EthernetAdv.h:197` and `docs/api.md:2213` promise 0.
* The lookup asks once, although the comment says "Try up to three times"
  (`Dns.cpp:103`; the loop is commented out), and the repetition of the wait
  works only where an `int` has 16 bits: `ProcessResponse` returns `TIMED_OUT`
  as a `uint16_t` (`Dns.cpp:119`). A datagram that is not the answer ends the
  lookup with an error code; it does not go on waiting.
* An empty UDP packet after an abandoned one goes out with the abandoned one's
  length, for `beginPacket()` does not reset TX_WR (`EthernetUdp.cpp:82`);
  `PacketArrivesWhole` is about packets to which something was written.

## 9. What is not modelled

* The layout of DNS messages: `Dns` assumes that a response is complete and well
  formed. One that ends within its records is read on with an uninitialized
  length (`Dns.cpp:313`). Names without empty labels are assumed.
* What `Dns` assumes of time: a lookup takes a millisecond, so that two
  questions have different identifiers (`millis()` in 16 bits), and an answer
  is under way for less than the 65 s in which they repeat.
* Servers that do not keep to their part: in `Dhcp` one offers and acknowledges
  only addresses of its own (`Pool`, any sets of addresses, which may overlap).
* That a reply is one server's and its options agree with each other: `Dhcp`
  takes the values a server sends for always the same, and an option that is
  present for well formed and not zero. The runs do not tell one option from
  another; the theorems do.
* `maintain()` after a `begin(mac)` that found no chip and never got to
  `beginWithDHCP()`: it reads a `DhcpClass` of which no member was ever set.
* A sketch that changes from DHCP to a fixed address keeps its `DhcpClass`, and
  `maintain()` puts the lease back: `EthernetConfig` contains it, no property is
  about it. The setters are not used with DHCP.
* What the chip does with a SEND on a socket that is not connected: it is not
  settled by the code. `socketSend` of `server.write()` is one step.
* Calls through an object without a socket that the code does not guard
  (`EthernetClient::read()`, `EthernetUDP::parsePacket` after `stop`): they
  reach behind an array, and their outcome is not the library's.
* SPI signalling, link status, the Arduino core, the example sketches beyond
  the way they poll, printing of addresses, the getters.
* Packet memory as a whole in `UdpSend`: the circular copy is `TxPath`'s.
* A sketch that both connects and serves: connecting again through an object
  that holds a socket in the middle of a handshake depends on what DISCON does
  there, which the code does not settle. For sketches that only connect the
  proof shows that this cannot happen (`Settled`).

## 10. Plan

Done: the receive path first, since every other component reads through it;
then the register read it rests on, the socket table, the objects over it, the
DHCP client and its timer, the transmit path, UDP, the chips; then the two
halves of a UDP object put together, the configuration calls, the resolver over
them with its proofs, name lookups and `server.write()` on the socket table;
then the proofs of every safety property and of the refinements, the objects'
into the table among them.

Next: `Dhcp` composed with `LeaseTimer`, so that the seconds a failed request
takes (`Dhcp.cpp:110`) are counted against the rebinding, with the theorems of
both taken over to the composition; then a property of the objects that go
on with a socket of a later use (`EthernetClient.cpp:97`), which the ghost
`stale` tells apart.
