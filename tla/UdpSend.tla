------------------------------- MODULE UdpSend -------------------------------
(***************************************************************************)
(* How a captured frame becomes a datagram: Ethernet_handleRFpacket of     *)
(* ethernet_task.c builds it in the transmit memory of a W5500 socket with *)
(* one EthernetUDP_write per piece (EthernetUdp.c, socket.c, w5500.c).     *)
(*                                                                         *)
(* The task does not sleep in between, so the Dashboard task, which may    *)
(* change the target, only runs between two frames.  The chip empties the  *)
(* memory at any time.                                                     *)
(*                                                                         *)
(* Taken from how the code uses the chip: Sn_TX_WR reads as the address    *)
(* the last SEND left off at (each piece is written at an offset from it), *)
(* and a SEND that comes before the end of the last one is done after it.  *)
(* Addresses count on where the chip's wrap at 2^16, a multiple of Size.   *)
(***************************************************************************)
EXTENDS Integers, Sequences

CONSTANTS
    Size,       \* bytes of transmit memory of a socket (2 KB)
    Headers,    \* lengths of the pieces before the frame: the protocol byte and,
                \* for BLE, the access address
    Payloads,   \* lengths of a frame
    Targets,    \* addresses datagrams can be sent to
    NoTarget,   \* the address 0.0.0.0
    MaxFrames   \* bound: frames that are forwarded

ASSUME UdpSendAssumption ==
    /\ Size \in Nat \ {0}
    /\ \A h \in Headers : h \in Seq(Nat) /\ Len(h) \in {1, 2}
    /\ Payloads \subseteq Nat
    /\ NoTarget \notin Targets
    /\ MaxFrames \in Nat

VARIABLES
    hTargetIp,
    dip,        \* Sn_DIPR of the socket
    mem,        \* transmit memory: mem[c] is the byte <<frame, index>> at c
    base,       \* where the last SEND left off: what Sn_TX_WR reads as
    wr,         \* what has been written to Sn_TX_WR
    rd,         \* Sn_TX_RD
    queue,      \* the SENDs the chip has not done yet
    sendOk,     \* SEND_OK in Sn_IR
    pc,         \* the task: "poll", "write", "cut" or "answer"
    left,       \* lengths of the pieces of the datagram still to be written
    offset,     \* hEthUdp._offset
    given,      \* bytes of the pieces handed to EthernetUDP_write so far
    cur,        \* history: number, length and target of the last frame taken
    out,        \* history: the last datagram sent, the frame it was made for, and
                \* what crowded was
    sends,      \* history: datagrams the chip has sent
    answers,    \* history: calls of EthernetUDP_endPacket that returned 1
    crowded     \* history: a frame has met too little room since the last open

memory == <<mem, base, wr, rd>>
socket == <<dip, memory, queue, sendOk>>
task == <<pc, left, offset, given, cur>>
history == <<out, sends, answers, crowded>>
vars == <<hTargetIp, socket, task, history>>

Cell == 0 .. Size - 1
Nothing == <<0, 0>>     \* whatever the memory, or the stack, holds
Frame == [number : Nat, length : Nat, to : Targets \cup {NoTarget}]

Init ==
    /\ hTargetIp = NoTarget /\ dip = NoTarget
    /\ mem = [c \in Cell |-> Nothing]
    /\ base = 0 /\ wr = 0 /\ rd = 0
    /\ queue = <<>> /\ sendOk = FALSE
    /\ pc = "poll" /\ left = <<>> /\ offset = 0 /\ given = 0
    /\ cur = [number |-> 0, length |-> 0, to |-> NoTarget]
    /\ out = [of |-> cur, data |-> <<>>, to |-> NoTarget, crowded |-> FALSE]
    /\ sends = 0 /\ answers = 0 /\ crowded = FALSE

\* Mutant: the free size is not kept from going below zero.
W5500_getTXFreeSize_Below == Size - (base - rd)

\* Sn_TX_FSR.
W5500_getTXFreeSize == IF base - rd > Size THEN 0 ELSE Size - (base - rd)

LengthOf(h, n) == n + (IF Len(h) = 1 THEN h[1] ELSE h[1] + h[2])
-----------------------------------------------------------------------------
(* The Ethernet task *)

\* Mutant: the offset of the last datagram is kept.
EthernetUDP_beginPacket_ip_NoReset == dip' = hTargetIp /\ UNCHANGED offset

EthernetUDP_beginPacket_ip == dip' = hTargetIp /\ offset' = 0

\* A frame has been taken from the radio queue; without a target it is dropped.
Ethernet_handleRFpacket(h, n) ==
    /\ pc = "poll" /\ hTargetIp # NoTarget
    /\ cur.number < MaxFrames
    /\ cur' = [number |-> cur.number + 1, length |-> LengthOf(h, n), to |-> hTargetIp]
    /\ EthernetUDP_beginPacket_ip
    /\ left' = Append(h, n) /\ given' = 0
    /\ crowded' = (crowded \/ W5500_getTXFreeSize < LengthOf(h, n))
    /\ pc' = "write"
    /\ UNCHANGED <<hTargetIp, memory, queue, sendOk, out, sends, answers>>

\* Mutant: every piece is written where the last datagram ended.
W5500_send_data_processing_offset_None(from, n, size) ==
    /\ mem' = [c \in Cell |->
                 LET i == (c - base) % Size
                 IN  IF i >= n THEN mem[c] ELSE <<cur.number, given + i>>]
    /\ wr' = base + n

\* n bytes of memory from a piece of the given size, written at an offset.
W5500_send_data_processing_offset(from, n, size) ==
    /\ mem' = [c \in Cell |->
                 LET i == (c - (base + from)) % Size
                 IN  IF i >= n THEN mem[c]
                     ELSE IF i < size THEN <<cur.number, given + i>>
                     ELSE Nothing]
    /\ wr' = base + from + n

\* The rest of bufferData and of EthernetUDP_write once n is known.
Buffer(n) ==
    /\ W5500_send_data_processing_offset(offset, n, Head(left))
    /\ offset' = offset + n
    /\ given' = given + Head(left)
    /\ left' = Tail(left)
    /\ pc' = "write"
    /\ UNCHANGED <<hTargetIp, dip, base, rd, queue, sendOk, cur, history>>

WriteWhole ==
    /\ pc = "write" /\ left # <<>>
    /\ Head(left) <= W5500_getTXFreeSize
    /\ Buffer(Head(left))

\* The piece does not fit, so it is cut to the free size, which is read again ...
WriteTooLong ==
    /\ pc = "write" /\ left # <<>>
    /\ Head(left) > W5500_getTXFreeSize
    /\ pc' = "cut"
    /\ UNCHANGED <<hTargetIp, socket, left, offset, given, cur, history>>

\* ... and may have grown.
WriteCut ==
    /\ pc = "cut"
    /\ Buffer(W5500_getTXFreeSize)

\* sendUDP: the SEND command, ...
EthernetUDP_endPacket ==
    /\ pc = "write" /\ left = <<>>
    /\ base' = wr
    /\ queue' = Append(queue, [end |-> wr, frame |-> cur])
    /\ pc' = "answer"
    /\ UNCHANGED <<hTargetIp, dip, mem, wr, rd, sendOk, left, offset, given, cur, history>>

\* Mutant: SEND_OK is not cleared.
sendUDP_NotCleared ==
    /\ answers' = IF sendOk THEN answers + 1 ELSE answers
    /\ UNCHANGED sendOk

\* ... and one look at SEND_OK.
sendUDP ==
    \/ ~sendOk /\ UNCHANGED <<sendOk, answers>>
    \/ sendOk /\ sendOk' = FALSE /\ answers' = answers + 1

EndPacketReturns ==
    /\ pc = "answer"
    /\ sendUDP
    /\ pc' = "poll"
    /\ UNCHANGED <<hTargetIp, dip, memory, queue, left, offset, given, cur, out, sends, crowded>>
-----------------------------------------------------------------------------
(* The Dashboard task *)

\* Mutant: the socket stays open while the target changes.
Ethernet_setTargetIp_SocketKept(t) ==
    /\ pc = "poll"
    /\ hTargetIp' = t
    /\ UNCHANGED <<socket, task, history>>

\* The socket is closed, which clears its interrupts and drops what waits in
\* it, and opened again.
Ethernet_setTargetIp(t) ==
    /\ pc = "poll"
    /\ hTargetIp' = t
    /\ queue' = <<>> /\ sendOk' = FALSE
    /\ rd' = base
    /\ crowded' = FALSE
    /\ UNCHANGED <<dip, mem, base, wr, task, out, sends, answers>>
-----------------------------------------------------------------------------
(* The chip *)

Chip_send ==
    /\ queue # <<>>
    /\ LET s == Head(queue)
       IN  /\ out' = [of |-> s.frame, to |-> dip, crowded |-> crowded,
                      data |-> [i \in 1 .. s.end - rd |-> mem[(rd + i - 1) % Size]]]
           /\ rd' = s.end
    /\ queue' = Tail(queue)
    /\ sendOk' = TRUE
    /\ sends' = sends + 1
    /\ UNCHANGED <<hTargetIp, dip, mem, base, wr, task, answers, crowded>>

\* Nobody answers the ARP request for the target.
Chip_timeout ==
    /\ queue # <<>>
    /\ rd' = Head(queue).end
    /\ queue' = Tail(queue)
    /\ UNCHANGED <<hTargetIp, dip, mem, base, wr, sendOk, task, history>>

Next ==
    \/ \E h \in Headers, n \in Payloads : Ethernet_handleRFpacket(h, n)
    \/ WriteWhole \/ WriteTooLong \/ WriteCut
    \/ EthernetUDP_endPacket \/ EndPacketReturns
    \/ \E t \in Targets \cup {NoTarget} : Ethernet_setTargetIp(t)
    \/ Chip_send \/ Chip_timeout

Spec == Init /\ [][Next]_vars
-----------------------------------------------------------------------------
(* Properties *)

TypeOK ==
    /\ hTargetIp \in Targets \cup {NoTarget} /\ dip \in Targets \cup {NoTarget}
    /\ mem \in [Cell -> Nat \X Nat]
    /\ base \in Nat /\ wr \in Nat /\ rd \in Nat
    /\ queue \in Seq([end : Nat, frame : Frame])
    /\ sendOk \in BOOLEAN /\ crowded \in BOOLEAN
    /\ pc \in {"poll", "write", "cut", "answer"}
    /\ left \in Seq(Nat)
    /\ offset \in Nat /\ given \in Nat
    /\ cur \in Frame
    /\ out.of \in Frame /\ out.to \in Targets \cup {NoTarget} /\ out.crowded \in BOOLEAN
    /\ sends \in Nat /\ answers \in Nat

\* A datagram goes to the target that was set when its frame was taken, also if
\* the target changes while it waits in the chip: Ethernet_setTargetIp closes the
\* socket before it changes the address.
GoesToItsTarget == out.to = out.of.to

\* As long as each frame finds room in the socket's memory for all of its pieces,
\* every datagram is its frame, whole and nothing else: the pieces written at
\* _offset follow each other, also around the end of the memory, and the next
\* frame does not touch the ones that wait.
WholeWhenRoom ==
    ~out.crowded =>
        out.data = [i \in 1 .. out.of.length |-> <<out.of.number, i - 1>>]

\* sendUDP returns 1 for a datagram the chip has sent, and once for each: an answer
\* may be late but is not given twice.
OneAnswerEach == answers + (IF sendOk THEN 1 ELSE 0) <= sends
=============================================================================
