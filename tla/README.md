# mSniff: specifications, model checks and proofs

mSniff is a packet sniffer on a CC2652RB: the radio core receives BLE or
IEEE 802.15.4 packets into a ring, a task takes them out and sends them as UDP
datagrams through a W5500 Ethernet chip, and a second task serves a web page on
which the sniffer is configured. This directory holds TLA+ modules translated
from its C code, the TLC configurations that check them on small instances, and
proofs checked by TLAPS for all values of the constants.

Source paths below are relative to the root of the repository.

## The system

| Part | State | Operations | Talks to |
|---|---|---|---|
| radio queue (`radio_queue.c`) | ring of data entries, two pointers | take, release, reset | RF core (shared memory), Ethernet task, RF driver callback |
| radio task (`radio_task.c`) | RF commands, protocol, statistics | start, callback, channel and protocol change | RF driver, queue; called by the dashboard |
| Ethernet task (`ethernet_task.c`) | `bReadyToSend`, `hEthUdp`, addresses | poll and forward, change target, start, stop | queue, UDP; called by the dashboard |
| dashboard task (`dashboard_task.c`, `html.c`) | server, the client being served | accept, read request, change parameters, send page | TCP server and client, Ethernet and radio task |
| TCP (`EthernetServer.c`, `EthernetClient.c`) | `Ethernet_server_port`, socket of a client | begin, accept, available, read, write, stop | socket layer |
| UDP (`EthernetUdp.c`) | socket, offset, rest of a datagram | begin, stop, send, parse, read | socket layer |
| sockets and chip (`socket.c`, `w5500.c`, `SPIfg.c`) | eight sockets with status, buffers, interrupts | open, listen, send, disconnect, close | chip over SPI |
| DHCP client (`Dhcp.c`, `Ethernet.c`) | client state, transaction id, lease and timers | get a lease, maintain it | UDP, servers |
| DNS client (`Dns.c`) | server, request id, retries | resolve a name or an address in text | UDP; called for connections and datagrams to a name |
| Bonjour (`EthernetBonjour.c`) | the device's name, registered services, two queries, timers | run, resolve, discover, register, remove | UDP multicast, callbacks of the program |
| conversions (`IPAddress.c`, `Printfg.c`, ...) | none | pure functions | |

`PROJECT.json` lists every part with what is and is not modelled of it.

What is hard about this code:

* the ring has three users (RF core, driver callback, task) and no lock;
* the two network tasks share sockets and rely on having the same priority: a
  task is interrupted only where it sleeps, so every sleep, and every loop
  without one, matters;
* connections open, half-close, reset and time out at any moment, also during
  the sleeps of the code that closes them;
* DHCP works over lost, late, repeated and foreign datagrams with transaction
  ids that start at 1 in every session, and with counters in signed and
  unsigned words;
* a form on the page reaches the addresses, the ring's reader and the radio
  commands through texts that nobody validates, in the order of its fields;
* Bonjour calls the program back in the middle of a packet, and names in packets
  point to each other;
* failures are mostly not reported: a full ring, no free socket, a SEND that was
  not answered, an SPI peripheral that is already open.

## Modules

| Module | What it is |
|---|---|
| `RadioQueue` | the ring, one action per memory access, with RF core, driver, callback and task |
| `FrameBuffer` | what the ring promises: a bounded FIFO of whole packets |
| `MCRadioQueue` | instance for TLC |
| `RadioQueueProofs` | proofs about `RadioQueue`, and that it implements `FrameBuffer` |
| `Dhcp` | the DHCP client with its callers, servers and network |
| `MCDhcp` | instances for TLC |
| `DhcpProofs` | proofs about `Dhcp` |
| `NetworkTasks` | Ethernet and Dashboard task over the socket table of the chip |
| `MCNetworkTasks` | instances for TLC |
| `NetworkProofs` | proofs about `NetworkTasks` |
| `UdpSend` | a frame becomes a datagram in the transmit memory of the chip |
| `MCUdpSend` | instances for TLC |
| `UdpSendProofs` | proofs about `UdpSend` |
| `RadioControl` | the commands of the radio task against what the radio core does |
| `Settings` | a request's parameters: addresses, target, radio, and the page that shows them; extends `RadioControl` |
| `MCSettings` | instances for TLC |
| `SettingsProofs` | proofs about `RadioControl`, about `Settings`, and that the second implements the first |
| `Dns` | the DNS client with its callers, server and network |
| `MCDns` | an instance for TLC |
| `DnsProofs` | proofs about `Dns` |
| `Bonjour` | multicast DNS: the loop, its timers and packets, and other hosts |
| `MCBonjour` | instances for TLC |
| `BonjourProofs` | proofs about `Bonjour` |
| `Induction` | induction over numbers, what folds and recursive functions compute, and remainders, for the proofs |

The modules meet at the two tasks. `RadioQueue` contains the
`RadioQueue_takePacket` of the Ethernet task, `UdpSend` what it does with the
packet, `NetworkTasks` its scheduling and its socket, `Dhcp` the start of the
chip it waits for. `NetworkTasks` and `Settings` are the two sides of a request
to the Dashboard task: one has its lines, sleeps and sockets, the other its
parameters and what they change. `UdpSend` relies on two things `NetworkTasks`
shows: the sender always has an open socket, and a change of the target never
meets the task inside a frame. `Dns` and `Bonjour` are libraries on the same UDP
layer; in this application the DNS client is reached only through connections
and datagrams to a name, and Bonjour is compiled but not started.

Operators named `..._Something` with a comment "Mutant:" are not part of the
models. Each is a plausible bug of the definition that follows it and is used
to show that a property can fail.

### RadioQueue

`Radio_mainTask` has created the ring and posted the first RX command: `Init`.
`RF_Begin`, `RF_Finish`, `RF_FlushCrc` and `RF_BufFull` are the RF core and its
driver as the queue's settings (auto-flush, event mask) make them behave.
`Radio_callback` and the four `RadioQueue_reset_*`/`Radio_beginRX` steps are the
callback, `RadioQueue_hasPacket` to `RadioQueue_nextEntry_advance` the memory
accesses of `RadioQueue_takePacket`; the copy of a packet has two halves, so
that a torn copy shows. The callback runs above the task (no `Task` action while
`cb # "idle"`), the RF core beside both. `RadioQueue_ReadEntry` is a plain
static: at each later use (`ReadEntryLoads`) the compiled code may have kept the
old value or load it again, and the model allows both.

A reset that meets a take or a reception in progress really does disturb the
ring: the task may release an entry that the reset has just handed to the RF
core and move the read pointer on. The history variable `clean` is FALSE from
such a reset to the next one that meets neither, and the ordering properties
speak of the time in which it is TRUE. `NeverDeaf` and the typing hold always.
Not modelled: the branch for a packet longer than the caller's buffer (2047
bytes; no packet of either PHY is as long).

Properties: `UnreadIsWindow` (statuses and pointers agree),
`TakesWholeInOrder`, `FreesOnlyCopied`, `NeverDeaf` (reception goes on or an
event that turns it on is on its way), and `ImplementsFrameBuffer`: under the
mapping `frames <- Unread, last <- taken, intact <- clean` every step is a step
of `FrameBuffer` or none, and a packet that is not reset away is taken.

### Dhcp

One action per step of `DHCP_request_DHCP_lease`: sending, waiting (`Tick`,
`NoResponse`), each kind of answer (`TakeOffer`, `TakeAck`, `TakeNak`,
`TakeUnexpected`, `Ignore`), the end of the call (`Return`). `Ethernet_begin_mac`
may fire at any moment and any number of times up to `MaxBegins`: the device was
reset and has booted. (At run time the second call does not get as far, see
`NetworkTasks`.) `Ethernet_maintain` is `DHCP_checkLease` with its countdown.

The object both work on is a local variable of `Ethernet_begin_mac`
(Ethernet.c:18-20), which `Ethernet._dhcp` goes on pointing to. From the return
on (`ObjectGone`) it is what the stack holds: the object, if no call has written
there since, or anything. Every use of it is therefore a choice: the actions of
an intact object, or `UseOverwritten`, after which the chip may have any address
and `pc` is `"lost"` until the next boot. What is shown of the boot (getting an
address and asking for it) holds without reserve; what is shown of renewing and
rebinding holds only for an object that is intact. No task of this program calls
`Ethernet_maintain`.

The network is a set of replies that only grows, so any reply may be lost, late,
repeated or out of order, also across a reset. `Foreign` are the broadcast
replies to other clients. Server `s` leases the address `s`; subnet, gateway
and DNS server come and go with the address. `Word` is the size of a word;
T1 and T2 go through `Signed` as in the code. Bounds: `MaxXid` (larger ids are
taken as equal, which only lets more replies in: the window the code accepts is
`[1, current]`), `MaxBegins`, `MaxLate`, and the two timeouts in ticks of the
receive loop. Left out: malformed and short datagrams, the expiry of leases at
the servers.

### NetworkTasks

`status`, `rx` and `port` are the chip's socket table and
`Ethernet_server_port`. The Dashboard task is a program counter through
`EthernetServer_accept` (one step per socket of its loop, a step before and one
after the sleep in `EthernetClient_stop`), `EthernetServer_available`, the inner
loop over the lines of a request, the parameters, and `send()` for each part of
the page. The Ethernet task runs (`Ethernet_poll`) only where the Dashboard task
sleeps (`Yielded`), because main.c gives both priority 2. The chip and the peers
act between any two steps. A request is a number of lines; its parameters are
told apart by what they do: `tgt`, `run`, `dhcp`, and `other` for those that
touch neither socket nor `bReadyToSend`.

`send()` has two loops without a sleep. The first goes round until the part of
the page fits into what the peer's acknowledgements have left free of the transmit
buffer (`BufferFull`, which keeps `PrintPart` from being taken); `unacked` counts
the parts that are still there, of which `Room` fit, and `Acknowledge` is the
peer's. The second (`"wait"`) goes round until the chip says SEND_OK or the
connection is closed. The peer decides when either ends, so acknowledgements and
SEND_OK belong to chip and peers, and no fairness of the tasks covers them.

The clock ticks even when both tasks are
stuck, which is why no run of this module needs `CHECK_DEADLOCK FALSE`.

`Ethernet_startDhcp` ends in `"SPI_begin"`, from which there is no step:
`SPI_begin` opens the peripheral a second time, gets NULL and loops. That
`SPI_open` refuses an open peripheral is the one thing taken from the TI driver.

### UdpSend

`Ethernet_handleRFpacket` sets the address register and writes the protocol byte,
for BLE the access address, and the frame as pieces. `bufferData` compares each
piece with the free size of the chip (`WriteWhole`, `WriteTooLong`) and reads the
free size again if it has to cut (`WriteCut`). `EthernetUDP_endPacket` is the SEND
command, `EndPacketReturns` the one look at SEND_OK that follows it. The chip
(`Chip_send`, `Chip_timeout`) takes the bytes from the memory as they are at that
moment. `Ethernet_setTargetIp` closes and opens the socket. A byte is the number
of its frame and its index in it, so a damaged datagram shows.

Two things are taken from how the code uses the chip. `Sn_TX_WR` reads as the
place the last SEND left off at: the pieces are written at an offset from it that
grows with each. And a SEND that comes before the end of the one before is done
after it, since the code issues it without waiting. `bReadyToSend` is left to
`NetworkTasks`; addresses are not wrapped at 2^16, a multiple of the memory size.

### RadioControl and Settings

`RadioControl` keeps what `radio_task.c` writes into its commands (`fs`,
`channel`, `bOverride`) apart from what the core was last given (`core`). A
change of channel only writes; `Radio_setFS`, the one operation that tunes by the
synthesizer, is called at the start and in a change of protocol. Two operations
have two parts, since `Radio_callback`, a software interrupt, may come between
their statements: a BLE channel and its whitening, and the change of protocol,
during which the driver is closed. `torn` remembers that the callback has come
between channel and whitening.

`Settings` is `Dashboard_handleHttp` from the query to the page: the fields
(`NextParameter` is `strtok`, which skips an empty value and takes the next field
for it, and which has a null pointer for the value of an empty field at the end),
the setters of `ethernet_task.c`, and the getters that fill the page. A
text is a sequence of digits, dots and one other character. `FromStringStep` is
the loop of `IPAddress_fromString`, which writes each byte as it comes; `Asked`
is the reference for it, by the parts between the dots. `want` is what the last
text for each field asked for. `ChangesProtocol` puts the call of
`Radio_setCurrentProtocol` in place that is commented out in
dashboard_task.c:171; `settings` has it, so that the order of all radio
operations is covered, and `settings_channel` is the code as it is. What is
read through a null pointer is not defined; here it is any of `NullTexts`, and the
properties promise nothing for the field, only for the others. The page does send
such forms: the mask and the target come last in theirs and may be empty. Left
out: the statistics on the page and `Radio_getRXChannel`.

### Dns

`DNSClient_getHostByName` up to the request is one action, which may fail at the
socket and at `EthernetUDP_endPacket`; then `TakeDatagram`, `Delay` and `GiveUp`
are the turns of the loop in `DNSClient_ProcessResponse`. Requests and answers
are bytes: `QuestionName` writes labels and their lengths, `SkipQuestionName` and
`SkipAnswerName` walk over them as the code does, with the 255 that `while(len--)`
leaves behind. A walk that loses its place ends in `"stuck"`, from which there is
no step. `DNSClient_inet_aton` is the conversion that comes first, with its test
for digits that is always true: "a" is the number 49 to it, and any name whose
characters, read as digits, come to numbers below 256 is an address. The sum is an
`int` (`IntOf`): names of ten and more letters overflow it, which C leaves
undefined and this build wraps, and a sum that comes out negative is an address
too. `IntSpace` is 2^32 in the code and 2^27 in the run, for TLC's own numbers.
The server
and the network only add answers, so any of them may be lost, late or repeated;
the server follows RFC 1035. That, too, is where the assumptions on the zone come
from: no label is longer than 63 characters, the data of an address record are
four bytes, and those of any record have a length that fits into a byte (a
narrowing: the field has two). `AreLabelsOf` is the reference
for the labels of a name: the non-empty parts between its dots, in order.

### Bonjour

The library is one loop, and a run of it one action: `Run` reads the clock, takes
a packet or none (`processMDNSQuery`), then looks at the timers of the two
queries and of the services (`CheckName`, `CheckService`, `AnnounceDue`). What a
run does is composed from operators on a record `dev` that holds the queries,
what was sent, reported and begun, in the order of the code; the callback for a
name may begin another query in the middle of it (`finishedResolvingName` and
`then`). The other actions are the calls of the program.

A packet is a sequence of records, not of bytes. A pointer is a place in it:
each record has four (its name, its data, the target of a SRV, a place inside its
name), and the code compares places without following them (`Answers`,
`HandleAdditional`, `AddressOf`). `NameAt` and `FullName`, in the properties,
follow them as RFC 1035 says, and are the reference. `Junk` is what an
uninitialised port or place holds. Other hosts are `known` (how long they go on
remembering a service) and `Peer`, a host running this library that hears a
query or does not.

Assumed: allocations succeed, the callbacks are set, no service is registered
twice, the callback for services makes no calls, packets have no authority
section, the labels in them are not empty and have no dots of their own (RFC 6763
allows these in the name of a service). A label is compared as a whole, where the
code compares it in pieces of twelve characters, the size of a header; one that is
longer than what is left of a service's name is passed over, as there
(EthernetBonjour.c:827). Transaction ids, classes and received TTLs are not looked
at by the code and left out.

## Runs

| Run | Instance | What it shows |
|---|---|---|
| `radio_queue_safety` | 3 entries, 7 packets, 2 RX commands, fair | all safety properties of the ring, the inductive invariant `QueueInv`, and that the ring implements `FrameBuffer`, fairness included; a ring overflows twice and resets meet every step of a take |
| `dhcp_acquire` | 2 symmetric servers, 3 ids, 2 boots | an address is used only when acknowledged, until an overwritten object is used, and only offered ones are requested |
| `dhcp_timers` | 1 server, 4-bit words, leases of 0, 6, 15 and none, fair | every call returns that works on an intact object |
| `network` | 3 sockets, 2 lines, 2 sends of which 1 fits the buffer, 2 parameters, tasks fair | sender, listener and client keep their sockets apart; the Ethernet task runs again and again, unless a peer stays and takes no more of the page or the chip is started a second time; the server always listens again if no peer stays |
| `network_dhcp` | 2 sockets, fair | violation: a request with `dhcp=1` never comes back |
| `udp_send` | 7 bytes, 4 frames of 2 to 6 bytes, 2 targets | datagrams go where and are what they should be while there is room, and are not reported twice |
| `settings` | three forms with every combination of 3 texts and 4 channels, the protocol change in place | the page shows what was set, frames go where it says, the commands agree and the core receives the protocol frames are labelled with |
| `settings_channel` | the same, the protocol change commented out | violation: a channel set on the page is not tuned to |
| `dns_lookup` | 2 lookups of 5 names, answers late, twice or never, a stranger | a name gets its own address and nobody else's, answers are taken apart as the server put them together, every lookup ends |
| `bonjour_packets` | 2 names, 2 services, 24 packets, 3 calls, no time | questions are answered, names and services are reported as the packets have them, the callback comes once |
| `bonjour_timers` | 1 service, clock of 12, timeouts of 0 and 3, fair | services are announced before they are forgotten, queries time out, a query is answered in the end |
| `bonjour_begun` | 2 services, 3 calls | violation: a query that the callback for a name begins is closed behind its back |

Why the bounds are enough. Three entries is the ring of the source, and seven
packets fill it, overflow it, and fill it again. Two servers are enough for a
reply of one to meet a request to the other; three ids for a late reply to be
inside, at the edge of and outside the window. A four-bit word has the overflow
of a 32-bit one at lengths a run can reach. Three sockets hold the sender, a
listener and a client being served; with all in use none is left for a connection
that waits to be closed, which is the case `ListensAgain` has to survive. More
sockets add connections that wait; the safety properties are proved for any
number. A page longer than the buffer, by one part, meets both loops of
`send()`.

Seven bytes hold one to three frames, so that pieces end before, at and after the
end of the memory, two frames wait at once, and a frame meets too little room.

The forms of `settings` are those of the page, with texts that are an address, an
address with empty and zero-padded parts, no address, and empty, inside a form and
at its end, and channels of both protocols, of none, and above a byte. The names
of `dns_lookup` have empty labels, aliases, no address, digits only, and no entry
and letters enough to overflow `inet_aton`, which still takes it for no address;
two lookups are enough for an answer to meet another one's request, ports and ids
being set by the clock. The packets of `bonjour_packets` are those of this library
and, for services, the forms of RFC 6763 responders: one service, two on a host,
two on two hosts in either order, one without its address, another type; three
calls register two services and begin a query. `bonjour_timers` scales the times:
services are remembered for 9, announced after more than 6, queries repeated after
more than 1 (2 for a service), runs are at most 1 apart, the longest pause with
which an announcement still comes in time, and the clock starts again after 12, so
that deadlines and intervals meet its end. Two calls and one service are enough
there, since the timers of queries and of services share only the clock.

`CHECK_DEADLOCK FALSE` stands where the packets, the boots or the calls of a run
are used up and the model stops for that reason.

## Fairness

* `RadioQueue`: the RF core ends a reception it has begun, the driver delivers
  events and runs the callback to its end, the task is scheduled again and
  again. It polls only while `bReadyToSend` is set; the property is about that
  time.
* `Dhcp`: the running task goes on, time passes, and the application calls
  `Ethernet_maintain` regularly. The library asks for that; this application
  does not do it (listed as a hazard), so `dhcp_timers` is about the library.
* `NetworkTasks`: a task that can run does, weakly for the Dashboard task and
  strongly for `Ethernet_poll`: its task is in the first-in first-out queue of its
  priority and runs at the next sleep of the other one, however short. That is all
  of `FairSpec`, under which `SnifferKeepsRunning` is checked: nothing is asked of
  chip and peers, and a peer that stays without taking the page, which does keep
  the Ethernet task from running, is excepted by name (`WaitsForPeer`).
  `PeerFairness`, the premise of `ListensAgain`, says that the peer acknowledges
  what it gets, that the chip says SEND_OK, and that no peer holds a connection
  for ever. That is an assumption about the network, not about the code: one idle
  client blocks the server otherwise, and `ListensAgain` fails without it.
* `Dns`: weak fairness of a turn of the loop that waits (`Wait`): the task that
  looks a name up is scheduled. Nothing is asked of server and network, so
  `LookupEnds` holds if every answer is lost.
* `Bonjour`: the program calls `EthernetBonjour_run` again and again and time
  passes, so the clock goes round (`[]<>(millis = 0)`, `[]<>(millis # 0)`: what
  weak fairness of a run that takes time comes to, in a form TLC evaluates
  quickly). `NameIsResolved` also asks that the peer does not miss every query
  (`SF_vars(PeerHears)`) and that what it answers is read in the end
  (`[]<>(~asked)`): an assumption about the network, as in any retry protocol.

## Proofs

All theorems are for every value of the constants that the named `ASSUME` of the
module allows.

* `RadioQueueProofs`: `QueueInv` is inductive. `UnreadIsWindow` alone is not:
  that a step keeps it depends on where the RF core is writing (`ActiveInv`,
  `WritingInv`), on what a take holds (`TakeInv`), on how far a reset has come
  (`ResetInv`), and order on `OrderInv` and `BoundInv`. `TypeCorrect`,
  `QueueInvariant`, `UnreadIsWindowAlways`, `TakesWholeInOrderAlways`,
  `NeverDeafAlways` and the action property `FreesOnlyCopiedAlways` follow.
  The rotation of the ring (`Rank`, `Occupancy`) is treated in lemmas of its own.
  `QueueIsFIFO` is the refinement: `Init` maps to `FBInit` and each step, from a
  state in which `QueueInv` holds, to a step of `FrameBuffer` or to none.
* `DhcpProofs`: `LeaseInvariant` ties `localIp` to the client's state, replies to
  the servers that sent them and acknowledged addresses to replies.
  `AddressIsGrantedAlways` and `RequestsOfferedAddressAlways` follow, for any
  servers, options and timings. `DhcpTypedAlways` keeps times and counters within
  their words, signed and unsigned. `LeaseInv` speaks
  of the chip's address except where an overwritten object has been used, and of
  the object as long as it is intact.
* `NetworkProofs`: `NetInv` adds to typing that the sender has socket 0
  (`SenderFirst`: it closes its socket before it looks for the first free one),
  that only server sockets listen (`Owners`), that the client's socket is kept
  (`ClientKept`), and that the part of the table that `EthernetServer_accept` has
  scanned holds no listener it has not seen (`Scanned`), without which
  `OneListener` would not be inductive. The three safety properties and
  `NetworkTyped` follow.
* `UdpSendProofs`: typing needs `CutInv` (the second reading of the free size has
  a piece to cut). `GoesToItsTargetAlways` rests on `TargetInv`: all SENDs that
  wait are for the target that is set, because the socket is emptied with each
  change. `OneAnswerEachAlways` is inductive with typing. `WholeWhenRoomAlways`
  needs `WholeInv`: the SENDs that wait follow each other without a gap from the
  read pointer to the base of the next frame and are together no longer than the
  memory (`ChainInv`), the memory holds the frame of each (`QueuedInv`) and the
  part of the new one that is written (`BuildInv`). That a piece does not write
  over what waits is arithmetic modulo the size of the memory: two places less
  than one memory apart are different bytes of it.
* `Induction`: induction over the natural numbers with sets in place of
  predicates, which is the form the provers can use; from it, that a fold from the
  left is the last of a run of values (`FoldRun`) and that a recursive function
  whose argument descends exists and steps as it is written (`WalkExists`; with
  `WalkTyped`, that its values have a type). A recursive function of TLA+ is a
  CHOOSE, so without that nothing can be said of its values. The rest is
  arithmetic modulo a number: of places in a memory (`UdpSend`) and of a clock
  that starts again (`ClockGoesOn`, `Bonjour`).
* `SettingsProofs`, the radio: `CommandsAgree` and `ReceivesItsProtocol` are not
  inductive: `ChannelInv` adds that the whitening is the initial one exactly as
  long as no channel was set, but for the moment between the two statements, and
  `ClosedInv` that nothing is received while the protocol changes. `RadioInv` is
  their conjunction, kept by each action for every number that comes in as a
  channel. The theorems are about `RadioSpec`, in which channels and protocols
  change at any time; `Settings` takes only such steps or leaves the radio alone.
* `SettingsProofs`, the page: `FromStringReads` and `ToStringIsText` are about the two
  conversions of `IPAddress.c`, for every text and every address: a text that is an
  address is read as that address whatever the variable held before, and what is
  shown for an address is a text of it. Their invariants say, for each prefix of
  the text, which bytes are complete and what the number so far is. `SettingsInv`
  then ties what was asked for to the chip, the target to its text, the page to the
  chip once it is sent. `SettingsImplementsRadio` is the refinement: each step of
  a request is a step of `RadioControl` or leaves the radio alone, and the radio's
  theorems hold behind the dashboard. The forms are any sequences of fields, and a
  null pointer gives any text.
* `DnsProofs`: three parts. Where the walks over names and records end: over any
  labels, over a name in an answer with or without a pointer (`AnswerNameSkipped`,
  `OwnerSkipped`), over any number of records to the first address among them
  (`FindAddressFinds`). What the request is: the bytes that `QuestionName` writes
  are labels again, and they are the parts of the name (`QuestionMade`, with the
  fold's invariant `Written`). What a lookup does: `DnsInv` says that every request
  is from a lookup, every answer from a request, what waits in the socket is a
  stranger's or was sent to our port, and the lookup that waits is one of those
  asked. `DnsTyped`, `AsksForTheNameAlways`, `TakesAnswersApartAlways` and
  `ResolvesToItsAddressAlways` follow. The last has a hypothesis of its own,
  `NumbersOnly`: of the names that are looked up, `DNSClient_inet_aton` takes only
  those of digits and dots for numbers, which the code should see to and does not.
  Assumed of the zone is what RFC 1035 says of it, and that no record is 0.0.0.0,
  which the caller takes for a failure. That an answer's walk always ends
  (`FindAddress` never gives `Never`) comes with these proofs; that the lookup
  does is liveness and left to TLC.
* `BonjourProofs`: for any packets, names and numbers of services. A run is a
  composition of folds over the records of a packet, so its properties are
  invariants of the folds first: `Handled`, for what a run holds while it works
  through a packet and its timers, says that messages, queries and reports are
  typed, and `ToldOnce` that either the callback has not come and the open query
  for a name is the one from before, or it has come once, with the address of a
  record that matches, and no query for a name is open. That an answer which
  comes after the callback cannot match is why the second lasts. `AnsweredOnce`
  asks for less: a query the callback has begun may stay open, as it would if the
  late closing of a query (finding 3) were repaired.
  `BonjourTyped` and `AnsweredOnceAlways` follow. `TellsWhatWasAnsweredAlways`
  needs besides what matching means: `MatchedIsSpelled` shows that labels matched
  one by one, dots skipped, leave nothing of the name only if joined they are the
  name without its dots. `StaysKnownAlways` is about the timer: `KnownInv` says
  that each service has one slot (`OnceEach`), and that other hosts will remember
  it for what is left of `MDNS_RESPONSE_TTL` since the last announcement, on a
  clock that starts again at `ClockSpace` (`Remembered`). `BonjourAssumption` asks
  that `8 * MaxPause` is less than `MDNS_RESPONSE_TTL`: two pauses fit into the
  quarter that is left when services are announced. For the 120 seconds of the code
  the program must call `EthernetBonjour_run` less than 15 seconds apart; a slower
  loop does let services be forgotten, which is the hazard.
  `AnswersWhatIsAskedAlways` has two hypotheses, which define the packets it is
  about and which `MCBonjour` assumes, so that TLC evaluates them for the names and
  packets of the runs: `OwnNames`, that the names the device answers to have no
  empty labels, and `AskedByName`, that a question whose letters are those of its
  own name has the labels of that name. Without the second it is false, since
  names are compared without label boundaries: a question for "a.b.local" is
  answered by a device called "ab.local". One direction needs `MatchedIsSpelled`,
  the other `NameMatches`: the labels `writeDNSName` writes, matched one by one,
  leave nothing of the name. Between them, `QuestionsAsked` shows that a packet's
  flags hold what some question of it hits, and `RunHandled` that all a run sends
  besides its answers, for the callback, the timers and the announcements, are
  messages of other types (`SaysMore`).

Only model-checked: liveness (`CallsReturn`, `SnifferKeepsRunning`,
`ListensAgain`, `LookupEnds`, `QueryEnds`, `NameIsResolved`, and the fairness in
`ImplementsFrameBuffer`, of which `QueueIsFIFO` proves the rest), and of `Bonjour`
`FindsServices`, which compares the services a packet describes with those the
code makes of it. It holds of the packets of its run, which have the form
`Compressed` in several orders, and is not proved for all packets of that form:
the place a pointer leads to is guessed, and its reference definition follows
pointers through the packet. The violations are counterexamples and need no proof.

## Findings

1. `network_dhcp`: `dhcp=1` resets the chip and hangs both network tasks
   (ethernet_task.c:243-251, SPIfg.c:48-52). The "Refresh" button of the page
   sends it.
2. `settings_channel`: a channel set on the page changes the commands but not the
   frequency (dashboard_task.c:205, radio_task.c:470-500).
3. `bonjour_begun`: a query that the callback for a name begins is closed when the
   callback returns (EthernetBonjour.c:1479), against UnitTest.c:237.

Deviations that the models contain and no run is spent on:

* `RadioQueue_reset` (radio_queue.c:121) promises to set both pointers to the
  first entry; the pending store of a take undoes it.
* `Ethernet_maintain` works on a local variable of `Ethernet_begin_mac` that no
  longer exists (Ethernet.c:18-20, 90) and sets the address of the chip from it
  (`UseOverwritten`). No task of this program calls it.
* A renewal that finds no free socket leaves the client in
  `STATE_DHCP_REREQUEST`, one that times out may leave it in `STATE_DHCP_REQUEST`,
  and `DHCP_checkLease` acts in neither (Dhcp.c:436-442), where Ethernet.c:105
  says it will retry.
* T2 is `T1 << 1`, the whole lease, where Dhcp.c:110 says 7/8; T1 and T2 of the
  first lease are kept for all later ones (Dhcp.c:104-112); T1 and T2 are copied
  to signed counters, so that with an endless lease the client rebinds on every
  check (113); an offer of another server may be requested from the first one
  (Dhcp.c:341).
* `bufferData` may buffer more than `len` bytes (socket.c:355-357), where
  socket.h:34 says up to `len`; a SEND_OK that comes after the one look at it
  answers the next datagram (socket.c:389).
* `DNSClient_ProcessResponse` returns a `uint16_t` (Dns.c:170): errors come back
  as 65526 to 65535, are not "negative", and only one of three waits is made; the
  callers compare with 1 and are not misled, but hand the number on.
* The page shows the default target 192.168.5.12 before one is set, and after
  START that the sniffer runs, while every packet is taken and dropped: the line
  that parses the default is commented out (ethernet_task.c:62, 85).
  `SendsWhereThePageSays` excepts it (`hTargetIp # NoAddress`).
* An empty field of a form takes the next one, name included, as its value, and
  that one is lost (dashboard_task.c:109); at the end of a form it has a null
  pointer, which the setters read as a text (114). A text that is no address leaves a
  mixture of the old and the new bytes (IPAddress.c).
* Bonjour: services announced by this library itself are reported with an
  uninitialised port and an unterminated name, since their SRV record comes among
  the answers and is looked for in the additional records
  (EthernetBonjour.c:824, 897). A bare pointer to the name of the first answer
  counts as the name asked for (861): of a packet about several hosts the wrong
  address may be taken. A question for the IPv6 address behind one for the IPv4
  address is not answered (696). Names are compared without label boundaries, and
  questions with pointers or for an instance of a service are not answered.
  Deadlines in the last moments of the clock are missed (1106), which `QueryEnds`
  excepts. `removeServiceRecordByName` reads the port of empty slots through a
  null pointer (1285).

## Plan

Done: the ring with its abstract specification, its proofs and the proof that it
implements that specification; the DHCP client, the two network tasks, the UDP
sender, the radio's commands, the page's settings over them and the DNS client,
each with proofs of all its safety properties; Bonjour, with proofs of all but one
of them.

Next, in this order:

1. The answer of `EthernetUDP_endPacket` against the datagram it is about
   (socket.h:42).
2. The numbers of `Printfg.c` and the statistics of the page, against a reference
   definition.
3. The stream parsers of `EthernetClient.c` (find, parseInt), if they get a caller.

## Not modelled

The text around the values of the page, the formats of DHCP datagrams, `Print`,
byte transfers over SPI, the rest of the generated configuration under `Debug/`,
the macros of `data_packet.h`, the Wireshark dissector, the unit test of the
library, and the WebSocket stub: they keep no state of their own or are constant
data. Of modelled parts: statistics and `Radio_getRXChannel`, which only read;
`EthernetClient`'s stream parsers, `EthernetServer_write`,
`EthernetClient_connect`, `sendto`, `recvfrom` and `igmpsend`, which have no
caller; malformed DHCP and DNS datagrams, and Bonjour packets above 255 bytes,
whose places overflow. Stack sizes and buffer lengths are outside of these
models.
