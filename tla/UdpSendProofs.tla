---------------------------- MODULE UdpSendProofs ----------------------------
(***************************************************************************)
(* Typing of UdpSend and two of its invariants, for any memory size,       *)
(* pieces, frames and targets that UdpSendAssumption allows.               *)
(***************************************************************************)
EXTENDS UdpSend, Induction, SequenceTheorems

\* A frame has one or two header pieces: what LengthOf adds up is a length.
LEMMA LengthIsNat ==
    ASSUME NEW h \in Headers, NEW n \in Payloads
    PROVE  LengthOf(h, n) \in Nat /\ Append(h, n) \in Seq(Nat)
<1>1. h \in Seq(Nat) /\ Len(h) \in {1, 2} /\ n \in Nat
  BY UdpSendAssumption
<1>2. CASE Len(h) = 1
  <2>1. h[1] \in Nat BY <1>1, <1>2
  <2> QED BY <1>1, <1>2, <2>1 DEF LengthOf
<1>3. CASE Len(h) = 2
  <2>1. 1 \in 1 .. Len(h) /\ 2 \in 1 .. Len(h) BY <1>3
  <2>2. \A i \in 1 .. Len(h) : h[i] \in Nat BY <1>1
  <2> QED BY <1>1, <1>3, <2>1, <2>2 DEF LengthOf
<1> QED BY <1>1, <1>2, <1>3

\* The free size the chip shows is never negative, whatever has been written.
LEMMA FreeSizeIsNat ==
    ASSUME base \in Nat, rd \in Nat
    PROVE  W5500_getTXFreeSize \in Nat
BY UdpSendAssumption DEF W5500_getTXFreeSize

\* Writing a piece into the memory of the chip keeps the type of the state.
LEMMA BufferTyped ==
    ASSUME TypeOK, NEW n \in Nat, left # <<>>, Buffer(n)
    PROVE  TypeOK'
<1>1. Head(left) \in Nat /\ Tail(left) \in Seq(Nat)
  BY DEF TypeOK
<1>2. offset' \in Nat /\ given' \in Nat /\ wr' \in Nat /\ left' \in Seq(Nat)
  BY <1>1 DEF TypeOK, Buffer, W5500_send_data_processing_offset
<1>3. mem' \in [Cell -> Nat \X Nat]
  <2>1. ASSUME NEW c \in Cell
        PROVE  (c - (base + offset)) % Size \in Nat
    <3>1. c - (base + offset) \in Int BY DEF TypeOK, Cell
    <3> QED BY <3>1, UdpSendAssumption
  <2>2. cur.number \in Nat BY DEF TypeOK, Frame
  <2> DEFINE at(c) == (c - (base + offset)) % Size
             byte(c) == IF at(c) >= n THEN mem[c]
                        ELSE IF at(c) < Head(left) THEN <<cur.number, given + at(c)>>
                        ELSE Nothing
  <2>3. mem' = [c \in Cell |-> byte(c)]
    BY DEF Buffer, W5500_send_data_processing_offset
  <2>4. ASSUME NEW c \in Cell PROVE byte(c) \in Nat \X Nat
    <3>1. mem[c] \in Nat \X Nat BY DEF TypeOK
    <3>2. at(c) \in Nat BY <2>1
    <3>3. given + at(c) \in Nat BY <3>2 DEF TypeOK
    <3> HIDE DEF at
    <3> QED BY <2>2, <3>1, <3>3 DEF Nothing
  <2> HIDE DEF byte
  <2> QED BY <2>3, <2>4
<1> QED
  BY <1>2, <1>3 DEF TypeOK, Buffer, history
\* A queue that is not empty has a head and a tail of its type.
LEMMA HeadAndTail ==
    ASSUME NEW S, NEW q \in Seq(S), q # <<>>
    PROVE  Head(q) \in S /\ Tail(q) \in Seq(S)
OBVIOUS
-----------------------------------------------------------------------------
\* What typing rests on: the free size is read a second time for a piece only.
CutInv == pc = "cut" => left # <<>>

\* Every variable of the sender and of its socket keeps its type.
THEOREM UdpSendTyped == Spec => []TypeOK
<1>1. Init => TypeOK /\ CutInv
  <2> SUFFICES ASSUME Init PROVE TypeOK /\ CutInv
    OBVIOUS
  <2>1. Nothing \in Nat \X Nat
    BY DEF Nothing
  <2>2. mem \in [Cell -> Nat \X Nat]
    BY <2>1 DEF Init
  <2>3. cur \in Frame
    BY DEF Init, Frame
  <2>4. out.of \in Frame /\ out.to \in Targets \cup {NoTarget} /\ out.crowded \in BOOLEAN
    BY <2>3 DEF Init
  <2>5. queue \in Seq([end : Nat, frame : Frame]) /\ left \in Seq(Nat)
    BY DEF Init
  <2>6. sendOk \in BOOLEAN /\ crowded \in BOOLEAN
    BY DEF Init
  <2> QED
    BY <2>2, <2>3, <2>4, <2>5, <2>6 DEF Init, TypeOK, CutInv
<1>2. TypeOK /\ CutInv /\ [Next]_vars => CutInv'
  BY DEF CutInv, Next, Ethernet_handleRFpacket, WriteWhole, WriteTooLong, WriteCut, Buffer,
         EthernetUDP_endPacket, EndPacketReturns, Ethernet_setTargetIp, Chip_send,
         Chip_timeout, vars, task
<1>3. TypeOK /\ CutInv /\ [Next]_vars => TypeOK'
  <2> SUFFICES ASSUME TypeOK, CutInv, [Next]_vars PROVE TypeOK'
    OBVIOUS
  <2> USE DEF history, memory, socket, task
  <2>1. ASSUME NEW h \in Headers, NEW n \in Payloads, Ethernet_handleRFpacket(h, n)
        PROVE  TypeOK'
    <3>1. cur' \in Frame
      BY <2>1, LengthIsNat DEF TypeOK, Ethernet_handleRFpacket, Frame
    <3> QED
      BY <2>1, <3>1, LengthIsNat
      DEF TypeOK, Ethernet_handleRFpacket, EthernetUDP_beginPacket_ip
  <2>2. CASE WriteWhole
    <3>1. Head(left) \in Nat BY <2>2 DEF WriteWhole, TypeOK
    <3> QED BY <2>2, <3>1, BufferTyped DEF WriteWhole
  <2>3. CASE WriteTooLong
    BY <2>3 DEF WriteTooLong, TypeOK
  <2>4. CASE WriteCut
    <3>1. left # <<>> BY <2>4 DEF CutInv, WriteCut
    <3>2. W5500_getTXFreeSize \in Nat BY FreeSizeIsNat DEF TypeOK
    <3> QED BY <2>4, <3>1, <3>2, BufferTyped DEF WriteCut
  <2>5. CASE EthernetUDP_endPacket
    BY <2>5 DEF EthernetUDP_endPacket, TypeOK
  <2>6. CASE EndPacketReturns
    <3>1. sendOk' \in BOOLEAN /\ answers' \in Nat
      <4>1. CASE ~sendOk /\ UNCHANGED <<sendOk, answers>>
        BY <4>1 DEF TypeOK
      <4>2. CASE sendOk /\ sendOk' = FALSE /\ answers' = answers + 1
        <5>1. answers' \in Nat BY <4>2 DEF TypeOK
        <5>2. sendOk' \in BOOLEAN BY <4>2
        <5> QED BY <5>1, <5>2
      <4> QED BY <2>6, <4>1, <4>2 DEF EndPacketReturns, sendUDP
    <3> QED BY <2>6, <3>1 DEF EndPacketReturns, TypeOK
  <2>7. ASSUME NEW t \in Targets \cup {NoTarget}, Ethernet_setTargetIp(t)
        PROVE  TypeOK'
    <3>1. queue' \in Seq([end : Nat, frame : Frame])
      BY <2>7 DEF Ethernet_setTargetIp
    <3> QED BY <2>7, <3>1 DEF Ethernet_setTargetIp, TypeOK
  <2>8. CASE Chip_send
    <3>1. Head(queue) \in [end : Nat, frame : Frame] /\ Tail(queue) \in Seq([end : Nat, frame : Frame])
      BY <2>8, HeadAndTail DEF Chip_send, TypeOK
    <3>2. out'.of \in Frame /\ out'.to \in Targets \cup {NoTarget} /\ out'.crowded \in BOOLEAN
      <4>1. out'.of = Head(queue).frame /\ out'.to = dip /\ out'.crowded = crowded
        BY <2>8 DEF Chip_send
      <4> QED BY <3>1, <4>1 DEF TypeOK
    <3>3. rd' \in Nat
      BY <2>8, <3>1 DEF Chip_send
    <3> QED BY <2>8, <3>1, <3>2, <3>3 DEF Chip_send, TypeOK
  <2>9. CASE Chip_timeout
    <3>1. Head(queue) \in [end : Nat, frame : Frame] /\ Tail(queue) \in Seq([end : Nat, frame : Frame])
      BY <2>9, HeadAndTail DEF Chip_timeout, TypeOK
    <3> QED BY <2>9, <3>1 DEF Chip_timeout, TypeOK
  <2>10. CASE UNCHANGED vars
    BY <2>10 DEF vars, TypeOK
  <2> QED
    BY <2>1, <2>2, <2>3, <2>4, <2>5, <2>6, <2>7, <2>8, <2>9, <2>10 DEF Next
<1> QED BY <1>1, <1>2, <1>3, PTL DEF Spec
-----------------------------------------------------------------------------
\* What waits in the chip, and what the task is building, is for the target that is
\* set, and that target is in the socket's register.
TargetInv ==
    /\ GoesToItsTarget
    /\ pc # "poll" => dip = hTargetIp /\ cur.to = hTargetIp
    /\ queue # <<>> => dip = hTargetIp
    /\ \A i \in 1 .. Len(queue) : queue[i].frame.to = hTargetIp

\* A datagram goes to the target its frame was taken for, for every order of sends
\* and changes of the target.
THEOREM GoesToItsTargetAlways == Spec => []GoesToItsTarget
<1>1. Init => TargetInv
  BY DEF Init, TargetInv, GoesToItsTarget
<1>2. TypeOK /\ TargetInv /\ [Next]_vars => TargetInv'
  <2> SUFFICES ASSUME TypeOK, TargetInv, [Next]_vars PROVE TargetInv'
    OBVIOUS
  <2> DEFINE Q == [end : Nat, frame : Frame]
  <2> USE DEF history, memory, socket, task
  <2>0. queue \in Seq(Q)
    BY DEF TypeOK
  <2>1. ASSUME NEW h \in Headers, NEW n \in Payloads, Ethernet_handleRFpacket(h, n)
        PROVE  TargetInv'
    BY <2>1 DEF Ethernet_handleRFpacket, EthernetUDP_beginPacket_ip, TargetInv, GoesToItsTarget
  <2>2. CASE WriteWhole \/ WriteTooLong \/ WriteCut
    BY <2>2 DEF WriteWhole, WriteTooLong, WriteCut, Buffer, TargetInv, GoesToItsTarget
  <2>3. CASE EthernetUDP_endPacket
    <3> DEFINE q == [end |-> wr, frame |-> cur]
    <3>1. queue' = Append(queue, q) /\ q \in Q /\ cur.to = hTargetIp
      BY <2>3 DEF EthernetUDP_endPacket, TargetInv, TypeOK
    <3>2. \A i \in 1 .. Len(queue') : queue'[i].frame.to = hTargetIp
      <4> SUFFICES ASSUME NEW i \in 1 .. Len(queue') PROVE queue'[i].frame.to = hTargetIp
        OBVIOUS
      <4>1. CASE i = Len(queue) + 1
        BY <2>0, <3>1, <4>1
      <4>2. CASE i # Len(queue) + 1
        <5>1. i \in 1 .. Len(queue) /\ queue'[i] = queue[i]
          BY <2>0, <3>1, <4>2
        <5> QED BY <5>1 DEF TargetInv
      <4> QED BY <4>1, <4>2
    <3> QED BY <2>3, <3>2 DEF EthernetUDP_endPacket, TargetInv, GoesToItsTarget
  <2>4. CASE EndPacketReturns
    BY <2>4 DEF EndPacketReturns, TargetInv, GoesToItsTarget
  <2>5. ASSUME NEW t \in Targets \cup {NoTarget}, Ethernet_setTargetIp(t)
        PROVE  TargetInv'
    BY <2>5 DEF Ethernet_setTargetIp, TargetInv, GoesToItsTarget
  <2>6. CASE Chip_send \/ Chip_timeout
    <3>1. queue # <<>> /\ queue' = Tail(queue) /\ hTargetIp' = hTargetIp /\ dip' = dip
          /\ pc' = pc /\ cur' = cur
      BY <2>6 DEF Chip_send, Chip_timeout
    <3>2. \A i \in 1 .. Len(queue') : i + 1 \in 1 .. Len(queue) /\ queue'[i] = queue[i + 1]
      BY <2>0, <3>1
    <3>3. Head(queue).frame.to = hTargetIp /\ dip = hTargetIp
      <4>1. 1 \in 1 .. Len(queue) /\ Head(queue) = queue[1]
        BY <2>0, <3>1
      <4> QED BY <3>1, <4>1 DEF TargetInv
    <3>4. GoesToItsTarget'
      <4>1. CASE Chip_send
        <5>1. out'.of = Head(queue).frame /\ out'.to = dip
          BY <4>1 DEF Chip_send
        <5> QED BY <3>3, <5>1 DEF GoesToItsTarget
      <4>2. CASE Chip_timeout
        BY <4>2 DEF Chip_timeout, TargetInv, GoesToItsTarget
      <4> QED BY <2>6, <4>1, <4>2
    <3> QED BY <3>1, <3>2, <3>3, <3>4 DEF TargetInv
  <2>7. CASE UNCHANGED vars
    BY <2>7 DEF vars, TargetInv, GoesToItsTarget
  <2> QED
    BY <2>1, <2>2, <2>3, <2>4, <2>5, <2>6, <2>7 DEF Next
<1>3. TargetInv => GoesToItsTarget
  BY DEF TargetInv
<1> QED BY <1>1, <1>2, <1>3, UdpSendTyped, PTL DEF Spec
-----------------------------------------------------------------------------
\* EthernetUDP_endPacket returns 1 at most once for every datagram the chip has sent.
THEOREM OneAnswerEachAlways == Spec => []OneAnswerEach
<1>1. Init => OneAnswerEach
  BY DEF Init, OneAnswerEach
<1>2. TypeOK /\ OneAnswerEach /\ [Next]_vars => OneAnswerEach'
  <2> SUFFICES ASSUME TypeOK, OneAnswerEach, [Next]_vars PROVE OneAnswerEach'
    OBVIOUS
  <2> USE DEF history, memory, socket, task
  <2>0. answers \in Nat /\ sends \in Nat
    BY DEF TypeOK
  <2>1. CASE UNCHANGED <<sendOk, answers, sends>>
    BY <2>1 DEF OneAnswerEach
  <2>2. CASE EndPacketReturns
    <3>1. sends' = sends /\ (UNCHANGED <<sendOk, answers>> \/ (sendOk /\ ~sendOk' /\ answers' = answers + 1))
      BY <2>2 DEF EndPacketReturns, sendUDP
    <3> QED BY <2>0, <3>1 DEF OneAnswerEach
  <2>3. ASSUME NEW t \in Targets \cup {NoTarget}, Ethernet_setTargetIp(t)
        PROVE  OneAnswerEach'
    BY <2>0, <2>3 DEF Ethernet_setTargetIp, OneAnswerEach
  <2>4. CASE Chip_send
    BY <2>0, <2>4 DEF Chip_send, OneAnswerEach
  <2>5. CASE Chip_timeout \/ WriteWhole \/ WriteTooLong \/ WriteCut
             \/ EthernetUDP_endPacket \/ UNCHANGED vars
    BY <2>1, <2>5 DEF Chip_timeout, WriteWhole, WriteTooLong, WriteCut, Buffer,
                      EthernetUDP_endPacket, vars
  <2>6. ASSUME NEW h \in Headers, NEW n \in Payloads, Ethernet_handleRFpacket(h, n)
        PROVE  OneAnswerEach'
    BY <2>1, <2>6 DEF Ethernet_handleRFpacket
  <2> QED
    BY <2>2, <2>3, <2>4, <2>5, <2>6 DEF Next
<1> QED BY <1>1, <1>2, UdpSendTyped, PTL DEF Spec

-----------------------------------------------------------------------------
(* Addresses in the transmit memory wrap around: arithmetic modulo n. *)
-----------------------------------------------------------------------------
(* Datagrams are whole when there is room. *)

\* Where the datagram of the i-th waiting SEND starts.
StartOf(i) == IF i = 1 THEN rd ELSE queue[i - 1].end

\* Bytes the pieces in l have.
Total(l) ==
    IF Len(l) = 0 THEN 0
    ELSE IF Len(l) = 1 THEN l[1]
    ELSE IF Len(l) = 2 THEN l[1] + l[2]
    ELSE l[1] + (l[2] + l[3])

\* From address a on, the memory holds the first k bytes of frame f.
Holds(a, k, f) == \A p \in a .. a + k - 1 : mem[p % Size] = <<f.number, p - a>>

\* Sn_TX_WR is base plus what the task has written since the last SEND.
PointerInv == wr = base + (IF pc \in {"write", "cut"} THEN offset ELSE 0)

\* The SENDs that wait follow each other from rd to base.
ChainInv ==
    /\ rd <= base /\ base - rd <= Size
    /\ queue = <<>> => rd = base
    /\ queue # <<>> => queue[Len(queue)].end = base
    /\ \A i \in 1 .. Len(queue) :
          /\ rd <= queue[i].end /\ queue[i].end <= base
          /\ StartOf(i) <= queue[i].end
          /\ queue[i].end = StartOf(i) + queue[i].frame.length
    /\ \A i, j \in 1 .. Len(queue) : i <= j => queue[i].end <= queue[j].end

QueuedInv == \A i \in 1 .. Len(queue) : Holds(StartOf(i), queue[i].frame.length, queue[i].frame)

BuildInv ==
    pc = "write" =>
        /\ offset = given /\ Len(left) <= 3
        /\ offset + Total(left) = cur.length
        /\ base - rd + cur.length <= Size
        /\ Holds(base, offset, cur)

WholeInv ==
    /\ WholeWhenRoom
    /\ PointerInv
    /\ ~crowded => pc # "cut" /\ ChainInv /\ QueuedInv /\ BuildInv

\* The next piece is the head of what is left, and the rest is its tail.
LEMMA TotalOfHeadAndTail ==
    ASSUME NEW l \in Seq(Nat), l # <<>>, Len(l) <= 3
    PROVE  /\ Head(l) \in Nat /\ Tail(l) \in Seq(Nat) /\ Len(Tail(l)) <= 3
           /\ Total(Tail(l)) \in Nat
           /\ Total(l) = Head(l) + Total(Tail(l))
<1> DEFINE t == Tail(l)
           x == Head(l)
<1>1. Len(l) \in Nat /\ Len(l) # 0
  BY EmptySeq
<1>2. x = l[1] /\ t \in Seq(Nat) /\ Len(t) = Len(l) - 1
  BY <1>1
<1>3. \A i \in 1 .. Len(l) - 1 : t[i] = l[i + 1]
  BY <1>1
<1>4. \A i \in 1 .. Len(l) : l[i] \in Nat
  BY <1>1
<1>5. \A k \in Nat : k # 0 /\ k <= 3 => k \in {1, 2, 3}
  OBVIOUS
<1> HIDE DEF t, x
<1>6. Len(l) \in {1, 2, 3}
  <2> DEFINE n == Len(l)
  <2>1. n \in Nat /\ n # 0 /\ n <= 3
    BY <1>1
  <2> HIDE DEF n
  <2>2. n \in {1, 2, 3}
    BY <1>5, <2>1
  <2> QED BY <2>2 DEF n
<1>7. x \in Nat /\ Len(t) <= 3
  BY <1>2, <1>4, <1>6
<1>8. ASSUME Len(l) = 1 PROVE Total(t) \in Nat /\ Total(l) = x + Total(t)
  <2>1. Total(l) = x /\ Total(t) = 0 BY <1>2, <1>8 DEF Total
  <2> QED BY <1>7, <2>1
<1>9. ASSUME Len(l) = 2 PROVE Total(t) \in Nat /\ Total(l) = x + Total(t)
  <2>1. Len(t) = 1 /\ t[1] = l[2] /\ l[2] \in Nat BY <1>2, <1>3, <1>4, <1>9
  <2>2. Total(l) = x + l[2] /\ Total(t) = l[2] BY <1>2, <1>9, <2>1 DEF Total
  <2> QED BY <1>7, <2>1, <2>2
<1>10. ASSUME Len(l) = 3 PROVE Total(t) \in Nat /\ Total(l) = x + Total(t)
  <2>1. Len(t) = 2 /\ t[1] = l[2] /\ t[2] = l[3] /\ l[2] \in Nat /\ l[3] \in Nat
    BY <1>2, <1>3, <1>4, <1>10
  <2>2. Total(l) = x + (l[2] + l[3]) /\ Total(t) = l[2] + l[3]
    BY <1>2, <1>10, <2>1 DEF Total
  <2> QED BY <1>7, <2>1, <2>2
<1>11. Total(t) \in Nat /\ Total(l) = x + Total(t)
  BY <1>6, <1>8, <1>9, <1>10
<1> QED
  BY <1>2, <1>7, <1>11 DEF x, t

\* A frame's pieces add up to its length.
LEMMA TotalOfFrame ==
    ASSUME NEW h \in Headers, NEW n \in Payloads
    PROVE  Len(Append(h, n)) <= 3 /\ Total(Append(h, n)) = LengthOf(h, n)
<1>1. h \in Seq(Nat) /\ Len(h) \in {1, 2} /\ n \in Nat
  BY UdpSendAssumption
<1>2. Len(Append(h, n)) = Len(h) + 1
  BY <1>1
<1>3. Append(h, n)[Len(h) + 1] = n
  BY <1>1
<1>4. \A i \in 1 .. Len(h) : Append(h, n)[i] = h[i] /\ h[i] \in Nat
  BY <1>1
<1>5. CASE Len(h) = 1
  <2>1. 1 \in 1 .. Len(h) BY <1>5
  <2>2. Append(h, n)[1] = h[1] /\ h[1] \in Nat /\ Append(h, n)[2] = n
    BY <1>3, <1>4, <1>5, <2>1
  <2> QED BY <1>1, <1>2, <1>5, <2>2 DEF Total, LengthOf
<1>6. CASE Len(h) = 2
  <2>1. 1 \in 1 .. Len(h) /\ 2 \in 1 .. Len(h) BY <1>6
  <2>2. /\ Append(h, n)[1] = h[1] /\ h[1] \in Nat
        /\ Append(h, n)[2] = h[2] /\ h[2] \in Nat
    BY <1>4, <2>1
  <2>3. Append(h, n)[3] = n
    BY <1>3, <1>6
  <2> QED BY <1>1, <1>2, <1>6, <2>2, <2>3 DEF Total, LengthOf
<1> QED BY <1>1, <1>5, <1>6

\* A piece that fits is written whole at its offset, and what was in the memory from
\* rd on stays, also when the piece goes on at the start of the memory.
LEMMA PieceWritten ==
    ASSUME TypeOK, NEW n \in Nat,
           W5500_send_data_processing_offset(offset, n, n),
           rd <= base, base + offset + n - rd <= Size
    PROVE  /\ \A p \in base + offset .. base + offset + n - 1 :
                 mem'[p % Size] = <<cur.number, given + (p - (base + offset))>>
           /\ \A p \in rd .. base + offset - 1 : mem'[p % Size] = mem[p % Size]
<1> DEFINE at(c) == (c - (base + offset)) % Size
           byte(c) == IF at(c) >= n THEN mem[c]
                      ELSE IF at(c) < n THEN <<cur.number, given + at(c)>>
                      ELSE Nothing
<1>1. mem' = [c \in Cell |-> byte(c)]
  BY DEF W5500_send_data_processing_offset
<1>2. /\ Size \in Nat \ {0} /\ base \in Nat /\ offset \in Nat /\ rd \in Nat
      /\ base + offset \in Int
  BY UdpSendAssumption DEF TypeOK
<1>3. \A p \in Int : p % Size \in Cell
  BY <1>2, DivisionAndRemainder DEF Cell
<1>4. ASSUME NEW p \in base + offset .. base + offset + n - 1
      PROVE  mem'[p % Size] = <<cur.number, given + (p - (base + offset))>>
  <2>1. p \in Int /\ p - (base + offset) \in 0 .. Size - 1
    BY <1>2
  <2>2. at(p % Size) = p - (base + offset)
    BY <1>2, <2>1, DistanceAhead
  <2>3. at(p % Size) < n /\ ~(at(p % Size) >= n)
    BY <1>2, <2>2
  <2>4. mem'[p % Size] = byte(p % Size)
    BY <1>1, <1>3, <2>1
  <2> HIDE DEF at
  <2> QED BY <2>2, <2>3, <2>4
<1>5. ASSUME NEW p \in rd .. base + offset - 1
      PROVE  mem'[p % Size] = mem[p % Size]
  <2>1. p \in Int /\ p - (base + offset) \in -Size .. -1
    BY <1>2
  <2>2. at(p % Size) = p - (base + offset) + Size
    BY <1>2, <2>1, DistanceBehind
  <2>3. at(p % Size) >= n
    BY <1>2, <2>2
  <2>4. mem'[p % Size] = byte(p % Size)
    BY <1>1, <1>3, <2>1
  <2> HIDE DEF at
  <2> QED BY <2>3, <2>4
<1> QED BY <1>4, <1>5

\* What a waiting SEND is made of.
LEMMA EntryTyped ==
    ASSUME TypeOK
    PROVE  \A i \in 1 .. Len(queue) :
              /\ queue[i].end \in Nat /\ queue[i].frame \in Frame
              /\ queue[i].frame.number \in Nat /\ queue[i].frame.length \in Nat
<1> DEFINE Q == [end : Nat, frame : Frame]
<1>1. \A q \in Q : q.end \in Nat /\ q.frame \in Frame /\ q.frame.number \in Nat /\ q.frame.length \in Nat
  BY DEF Frame
<1>2. queue \in Seq(Q)
  BY DEF TypeOK
<1> HIDE DEF Q
<1>3. \A i \in 1 .. Len(queue) : queue[i] \in Q
  BY <1>2
<1> QED
  BY <1>1, <1>3

\* A step that leaves memory, pointers, queue and task alone keeps what holds of them.
LEMMA WholeFrame ==
    ASSUME WholeInv, UNCHANGED <<memory, queue, task, crowded>>, WholeWhenRoom'
    PROVE  WholeInv'
BY DEF WholeInv, PointerInv, ChainInv, QueuedInv, BuildInv, Holds, StartOf, memory, task

\* The task starts on a frame.
LEMMA TakeKeepsWhole ==
    ASSUME TypeOK, WholeInv, NEW h \in Headers, NEW n \in Payloads,
           Ethernet_handleRFpacket(h, n)
    PROVE  WholeInv'
<1> USE DEF memory, task
<1>1. /\ UNCHANGED <<mem, base, wr, rd, queue, out>>
      /\ pc = "poll" /\ pc' = "write"
      /\ offset' = 0 /\ given' = 0 /\ left' = Append(h, n)
      /\ cur'.length = LengthOf(h, n)
      /\ crowded' = (crowded \/ W5500_getTXFreeSize < LengthOf(h, n))
  BY DEF Ethernet_handleRFpacket, EthernetUDP_beginPacket_ip
<1>2. /\ Size \in Nat \ {0} /\ base \in Nat /\ rd \in Nat /\ wr \in Nat
      /\ LengthOf(h, n) \in Nat
  BY UdpSendAssumption, LengthIsNat DEF TypeOK
<1>3. PointerInv' /\ WholeWhenRoom'
  BY <1>1, <1>2 DEF PointerInv, WholeInv, WholeWhenRoom
<1>4. ASSUME ~crowded'
      PROVE  ~crowded /\ ChainInv' /\ QueuedInv' /\ BuildInv'
  <2>1. ~crowded /\ ~(W5500_getTXFreeSize < LengthOf(h, n))
    BY <1>1, <1>4
  <2>2. ChainInv /\ QueuedInv
    BY <2>1 DEF WholeInv
  <2>3. ChainInv' /\ QueuedInv'
    BY <1>1, <2>2 DEF ChainInv, QueuedInv, StartOf, Holds
  <2>4. base - rd + LengthOf(h, n) <= Size
    BY <1>2, <2>1, <2>2 DEF ChainInv, W5500_getTXFreeSize
  <2>5. Holds(base, offset, cur)'
    BY <1>1, <1>2 DEF Holds
  <2>6. BuildInv'
    <3>1. Len(left') <= 3 /\ Total(left') = LengthOf(h, n)
      BY <1>1, TotalOfFrame
    <3>2. offset' = given' /\ offset' + Total(left') = cur'.length /\ base' - rd' + cur'.length <= Size
      BY <1>1, <1>2, <2>4, <3>1
    <3> QED BY <2>5, <3>1, <3>2 DEF BuildInv
  <2> QED BY <2>1, <2>3, <2>6
<1>5. pc' # "cut"
  BY <1>1
<1> QED
  BY <1>3, <1>4, <1>5 DEF WholeInv

\* A piece that fits is added to the datagram, and the datagrams that wait are not
\* touched.
LEMMA WriteWholeKeepsWhole ==
    ASSUME TypeOK, WholeInv, WriteWhole
    PROVE  WholeInv'
<1> USE DEF memory, task, history
<1> DEFINE n == Head(left)
<1>1. /\ UNCHANGED <<base, rd, queue, out, cur, crowded>>
      /\ pc = "write" /\ pc' = "write" /\ left # <<>>
      /\ offset' = offset + n /\ given' = given + n /\ left' = Tail(left)
      /\ wr' = base + offset + n
      /\ W5500_send_data_processing_offset(offset, n, n)
  BY DEF WriteWhole, Buffer, W5500_send_data_processing_offset
<1>2. /\ Size \in Nat \ {0} /\ base \in Nat /\ rd \in Nat
      /\ offset \in Nat /\ given \in Nat /\ left \in Seq(Nat)
      /\ queue \in Seq([end : Nat, frame : Frame]) /\ cur \in Frame
  BY UdpSendAssumption DEF TypeOK
<1>3. n \in Nat
  BY <1>1, <1>2, SMTT(20)
<1> HIDE DEF n
<1>4. PointerInv' /\ WholeWhenRoom'
  BY <1>1, <1>2, <1>3 DEF PointerInv, WholeInv, WholeWhenRoom
<1>5. ASSUME ~crowded'
      PROVE  ChainInv' /\ QueuedInv' /\ BuildInv'
  <2>1. ChainInv /\ QueuedInv /\ BuildInv
    BY <1>1, <1>5 DEF WholeInv
  <2>2. /\ offset = given /\ Len(left) <= 3
        /\ offset + Total(left) = cur.length
        /\ base - rd + cur.length <= Size
        /\ Holds(base, offset, cur)
    BY <1>1, <2>1 DEF BuildInv
  <2>3. /\ Len(left') <= 3 /\ Total(left') \in Nat
        /\ Total(left) = n + Total(left')
    BY <1>1, <1>2, <2>2, TotalOfHeadAndTail DEF n
  <2>4. cur.length \in Nat
    BY <1>2 DEF Frame
  <2>5. base + offset + n - rd <= Size /\ rd <= base
    BY <1>2, <1>3, <2>1, <2>2, <2>3, <2>4 DEF ChainInv
  <2>6. /\ \A p \in base + offset .. base + offset + n - 1 :
              mem'[p % Size] = <<cur.number, given + (p - (base + offset))>>
        /\ \A p \in rd .. base + offset - 1 : mem'[p % Size] = mem[p % Size]
    BY <1>1, <1>3, <2>5, PieceWritten
  <2>7. ChainInv'
    BY <1>1, <2>1 DEF ChainInv, StartOf
  <2>8. QueuedInv'
    <3> SUFFICES ASSUME NEW i \in 1 .. Len(queue),
                        NEW p \in StartOf(i) .. StartOf(i) + queue[i].frame.length - 1
                 PROVE  mem'[p % Size] = <<queue[i].frame.number, p - StartOf(i)>>
      BY <1>1 DEF QueuedInv, Holds, StartOf
    <3>1. StartOf(i) \in Nat /\ rd <= StartOf(i)
          /\ StartOf(i) + queue[i].frame.length <= base /\ queue[i].frame.length \in Nat
      <4>1. queue[i].end \in Nat /\ queue[i].frame.length \in Nat
        BY EntryTyped
      <4>2. queue[i].end <= base /\ queue[i].end = StartOf(i) + queue[i].frame.length
        BY <2>1 DEF ChainInv
      <4>3. CASE i = 1
        BY <1>2, <4>1, <4>2, <4>3 DEF StartOf
      <4>4. CASE i # 1
        <5>1. i - 1 \in 1 .. Len(queue) BY <1>2, <4>4
        <5>2. queue[i - 1].end \in Nat /\ rd <= queue[i - 1].end
          BY <2>1, <5>1, EntryTyped DEF ChainInv
        <5> QED BY <4>1, <4>2, <4>4, <5>2 DEF StartOf
      <4> QED BY <4>3, <4>4
    <3>2. p \in rd .. base + offset - 1
      <4> DEFINE a == StartOf(i)
                 k == queue[i].frame.length
      <4>1. a \in Nat /\ k \in Nat /\ rd <= a /\ a + k <= base /\ p \in a .. a + k - 1
        BY <3>1
      <4> HIDE DEF a, k
      <4> QED BY <1>2, <4>1
    <3>3. mem[p % Size] = <<queue[i].frame.number, p - StartOf(i)>>
      BY <2>1 DEF QueuedInv, Holds
    <3> QED BY <2>6, <3>2, <3>3
  <2>9. Holds(base, offset, cur)'
    <3> SUFFICES ASSUME NEW p \in base .. base + (offset + n) - 1
                 PROVE  mem'[p % Size] = <<cur.number, p - base>>
      BY <1>1 DEF Holds
    <3>1. CASE p \in base .. base + offset - 1
      <4>1. mem[p % Size] = <<cur.number, p - base>>
        BY <2>2, <3>1 DEF Holds
      <4>2. p \in rd .. base + offset - 1
        BY <1>2, <2>5, <3>1
      <4> QED BY <2>6, <4>1, <4>2
    <3>2. CASE p \in base + offset .. base + offset + n - 1
      <4>1. mem'[p % Size] = <<cur.number, given + (p - (base + offset))>>
        BY <2>6, <3>2
      <4>2. given + (p - (base + offset)) = p - base
        BY <1>2, <2>2, <3>2
      <4> QED BY <4>1, <4>2
    <3> QED BY <1>2, <1>3, <3>1, <3>2
  <2>10. BuildInv'
    <3>1. offset' = given' /\ offset' + Total(left') = cur'.length
          /\ base' - rd' + cur'.length <= Size
      BY <1>1, <1>2, <1>3, <2>2, <2>3
    <3> QED BY <2>3, <2>9, <3>1 DEF BuildInv
  <2> QED BY <2>7, <2>8, <2>10
<1> QED
  BY <1>1, <1>4, <1>5 DEF WholeInv

\* The SEND takes what the task has built into the queue.
LEMMA EndKeepsWhole ==
    ASSUME TypeOK, WholeInv, EthernetUDP_endPacket
    PROVE  WholeInv'
<1> USE DEF memory, task, history
<1> DEFINE Q == [end : Nat, frame : Frame]
           q == [end |-> wr, frame |-> cur]
           m == Len(queue)
<1>1. /\ UNCHANGED <<mem, rd, wr, out, cur, crowded>>
      /\ pc = "write" /\ pc' = "answer" /\ left = <<>>
      /\ base' = wr /\ queue' = Append(queue, q)
  BY DEF EthernetUDP_endPacket
<1>2. /\ Size \in Nat \ {0} /\ base \in Nat /\ rd \in Nat /\ wr \in Nat
      /\ offset \in Nat /\ cur.length \in Nat /\ q \in Q /\ queue \in Seq(Q)
  BY UdpSendAssumption DEF TypeOK, Frame
<1>3. PointerInv' /\ WholeWhenRoom' /\ pc' # "cut" /\ BuildInv'
  BY <1>1, <1>2 DEF PointerInv, WholeInv, WholeWhenRoom, BuildInv
<1>4. /\ m \in Nat /\ Len(queue') = m + 1 /\ queue'[m + 1] = q
      /\ \A i \in 1 .. m : queue'[i] = queue[i]
  BY <1>1, <1>2
<1>5. q.end = wr /\ q.frame = cur
  OBVIOUS
<1>6. queue' # <<>>
  BY <1>1, <1>2, <1>4, EmptySeq
<1> HIDE DEF Q, q
<1>7. ASSUME ~crowded'
      PROVE  ChainInv' /\ QueuedInv'
  <2>1. ChainInv /\ QueuedInv /\ BuildInv
    BY <1>1, <1>7 DEF WholeInv
  <2>2. /\ offset = cur.length /\ Holds(base, offset, cur)
        /\ base - rd + cur.length <= Size
    <3>1. Total(left) = 0
      BY <1>1 DEF Total
    <3>2. offset + Total(left) = cur.length /\ Holds(base, offset, cur)
          /\ base - rd + cur.length <= Size
      BY <1>1, <2>1 DEF BuildInv
    <3> QED BY <1>2, <3>1, <3>2
  <2>3. wr = base + cur.length
    BY <1>1, <1>2, <2>2 DEF PointerInv, WholeInv
  <2>4. \A i \in 1 .. m : StartOf(i)' = StartOf(i)
    BY <1>1, <1>4 DEF StartOf
  <2>5. ASSUME NEW i \in 1 .. m + 1, i = m + 1
        PROVE  (StartOf(i))' = base
    <3>1. CASE m = 0
      <4>1. queue = <<>> BY <1>2, <3>1, EmptySeq
      <4>2. rd = base BY <2>1, <4>1 DEF ChainInv
      <4>3. i = 1 BY <2>5, <3>1
      <4> QED BY <1>1, <4>2, <4>3 DEF StartOf
    <3>2. CASE m # 0
      <4>1. queue # <<>> BY <3>2, EmptySeq
      <4>2. queue[m].end = base BY <2>1, <4>1 DEF ChainInv
      <4>3. m \in 1 .. m /\ i # 1 /\ i - 1 = m BY <1>4, <2>5, <3>2
      <4>4. (StartOf(i))' = queue'[i - 1].end BY <4>3 DEF StartOf
      <4> QED BY <1>4, <4>2, <4>3, <4>4
    <3> QED BY <3>1, <3>2
  <2>6. /\ rd' <= base' /\ base' - rd' <= Size
        /\ queue'[Len(queue')].end = base'
    BY <1>1, <1>2, <1>4, <1>5, <2>1, <2>2, <2>3 DEF ChainInv
  <2>7. ASSUME NEW i \in 1 .. Len(queue')
        PROVE  /\ rd' <= queue'[i].end /\ queue'[i].end <= base'
               /\ (StartOf(i))' <= queue'[i].end
               /\ queue'[i].end = (StartOf(i))' + queue'[i].frame.length
               /\ Holds(StartOf(i), queue[i].frame.length, queue[i].frame)'
    <3>1. CASE i = m + 1
      <4>1. queue'[i].end = wr /\ queue'[i].frame = cur /\ (StartOf(i))' = base
        BY <1>4, <1>5, <2>5, <3>1
      <4>2. Holds(StartOf(i), queue[i].frame.length, queue[i].frame)'
        BY <1>1, <2>2, <4>1 DEF Holds
      <4> QED BY <1>1, <1>2, <2>1, <2>3, <4>1, <4>2 DEF ChainInv
    <3>2. CASE i # m + 1
      <4>1. i \in 1 .. m /\ queue'[i] = queue[i]
        BY <1>4, <3>2
      <4>2. (StartOf(i))' = StartOf(i)
        BY <2>4, <4>1
      <4>3. Holds(StartOf(i), queue[i].frame.length, queue[i].frame)'
        BY <1>1, <2>1, <4>1, <4>2 DEF Holds, QueuedInv
      <4>4. queue[i].end \in Nat
        BY <4>1, EntryTyped
      <4> QED BY <1>1, <1>2, <2>1, <2>3, <4>1, <4>2, <4>3, <4>4 DEF ChainInv
    <3> QED BY <3>1, <3>2
  <2>8. ASSUME NEW i \in 1 .. Len(queue'), NEW j \in 1 .. Len(queue'), i <= j
        PROVE  queue'[i].end <= queue'[j].end
    <3>1. CASE j = m + 1
      <4>1. queue'[j].end = base'
        BY <1>1, <1>4, <1>5, <3>1
      <4> QED BY <2>7, <4>1
    <3>2. CASE j # m + 1
      <4>1. i \in 1 .. m /\ j \in 1 .. m /\ queue'[i] = queue[i] /\ queue'[j] = queue[j]
        BY <1>4, <2>8, <3>2
      <4> QED BY <2>1, <2>8, <4>1 DEF ChainInv
    <3> QED BY <3>1, <3>2
  <2>9. ChainInv'
    BY <1>6, <2>6, <2>7, <2>8 DEF ChainInv
  <2>10. QueuedInv'
    BY <2>7 DEF QueuedInv
  <2> QED BY <2>9, <2>10
<1> QED
  BY <1>1, <1>3, <1>7 DEF WholeInv

\* The chip is done with the first SEND that waits.
LEMMA DoneKeepsWhole ==
    ASSUME TypeOK, WholeInv, queue # <<>>, WholeWhenRoom',
           queue' = Tail(queue), rd' = Head(queue).end,
           UNCHANGED <<mem, base, wr, task, crowded>>
    PROVE  WholeInv'
<1> USE DEF task
<1> DEFINE Q == [end : Nat, frame : Frame]
           m == Len(queue)
<1>1. queue \in Seq(Q) /\ base \in Nat /\ rd \in Nat /\ Size \in Nat
  BY UdpSendAssumption DEF TypeOK
<1> HIDE DEF Q
<1>2. m \in Nat \ {0}
  BY <1>1, EmptySeq
<1>3. /\ Head(queue) = queue[1] /\ Len(queue') = m - 1
      /\ \A i \in 1 .. m - 1 : i + 1 \in 1 .. m /\ queue'[i] = queue[i + 1]
  BY <1>1, <1>2
<1>4. PointerInv'
  BY DEF PointerInv, WholeInv
<1>5. ASSUME ~crowded'
      PROVE  pc' # "cut" /\ ChainInv' /\ QueuedInv' /\ BuildInv'
  <2>1. pc # "cut" /\ ChainInv /\ QueuedInv /\ BuildInv
    BY <1>5 DEF WholeInv
  <2>2. /\ 1 \in 1 .. m /\ m \in 1 .. m
        /\ \A i \in 1 .. m : queue[i].end \in Nat /\ queue[i].frame.length \in Nat
    BY <1>2, EntryTyped
  <2>3. rd' \in Nat /\ rd <= rd' /\ rd' <= base
    BY <1>3, <2>1, <2>2 DEF ChainInv
  <2>4. \A i \in 1 .. m - 1 : (StartOf(i))' = StartOf(i + 1)
    <3> SUFFICES ASSUME NEW i \in 1 .. m - 1 PROVE (StartOf(i))' = StartOf(i + 1)
      OBVIOUS
    <3>1. CASE i = 1
      BY <1>3, <3>1 DEF StartOf
    <3>2. CASE i # 1
      <4>1. i - 1 \in 1 .. m - 1 /\ (i - 1) + 1 = i /\ (i + 1) - 1 = i /\ i + 1 # 1
        BY <1>2, <3>2
      <4> QED BY <1>3, <3>2, <4>1 DEF StartOf
    <3> QED BY <3>1, <3>2
  <2>5. queue' = <<>> => rd' = base'
    <3> SUFFICES ASSUME queue' = <<>> PROVE rd' = base
      OBVIOUS
    <3>1. m = 1 BY <1>2, <1>3
    <3>2. queue[m].end = base BY <2>1 DEF ChainInv
    <3> QED BY <1>3, <3>1, <3>2
  <2>6. queue' # <<>> => queue'[Len(queue')].end = base'
    <3> SUFFICES ASSUME queue' # <<>> PROVE queue'[Len(queue')].end = base
      OBVIOUS
    <3>0. queue' \in Seq(Q) BY <1>1
    <3>1. Len(queue') \in Nat \ {0} BY <3>0, EmptySeq
    <3>2. m - 1 \in 1 .. m - 1 /\ (m - 1) + 1 = m BY <1>2, <1>3, <3>1
    <3>3. queue[m].end = base BY <2>1 DEF ChainInv
    <3> QED BY <1>3, <3>2, <3>3
  <2>7. ASSUME NEW i \in 1 .. Len(queue')
        PROVE  /\ rd' <= queue'[i].end /\ queue'[i].end <= base'
               /\ (StartOf(i))' <= queue'[i].end
               /\ queue'[i].end = (StartOf(i))' + queue'[i].frame.length
               /\ Holds(StartOf(i), queue[i].frame.length, queue[i].frame)'
    <3>1. i \in 1 .. m - 1 /\ i + 1 \in 1 .. m /\ 1 <= i + 1 /\ queue'[i] = queue[i + 1]
      BY <1>2, <1>3
    <3>2. (StartOf(i))' = StartOf(i + 1)
      BY <2>4, <3>1
    <3>3. rd' <= queue[i + 1].end
      BY <1>3, <2>1, <2>2, <3>1 DEF ChainInv
    <3>4. Holds(StartOf(i), queue[i].frame.length, queue[i].frame)'
      BY <2>1, <3>1, <3>2 DEF Holds, QueuedInv
    <3> QED BY <2>1, <3>1, <3>2, <3>3, <3>4 DEF ChainInv
  <2>8. ASSUME NEW i \in 1 .. Len(queue'), NEW j \in 1 .. Len(queue'), i <= j
        PROVE  queue'[i].end <= queue'[j].end
    <3>1. /\ i + 1 \in 1 .. m /\ j + 1 \in 1 .. m /\ i + 1 <= j + 1
          /\ queue'[i] = queue[i + 1] /\ queue'[j] = queue[j + 1]
      BY <1>2, <1>3, <2>8
    <3> QED BY <2>1, <3>1 DEF ChainInv
  <2>9. ChainInv'
    <3>1. rd' <= base' /\ base' - rd' <= Size
      BY <1>1, <2>1, <2>3 DEF ChainInv
    <3> QED BY <2>5, <2>6, <2>7, <2>8, <3>1 DEF ChainInv
  <2>10. QueuedInv'
    BY <2>7 DEF QueuedInv
  <2>11. BuildInv'
    <3> SUFFICES ASSUME pc = "write"
                 PROVE  /\ offset = given /\ Len(left) <= 3
                        /\ offset + Total(left) = cur.length
                        /\ base - rd' + cur.length <= Size
                        /\ Holds(base, offset, cur)'
      BY DEF BuildInv
    <3>1. cur.length \in Nat
      BY DEF TypeOK, Frame
    <3>2. Holds(base, offset, cur)'
      BY <2>1 DEF BuildInv, Holds
    <3> QED BY <1>1, <2>1, <2>3, <3>1, <3>2, SMTT(20) DEF BuildInv
  <2> QED BY <2>1, <2>9, <2>10, <2>11
<1> QED
  BY <1>4, <1>5 DEF WholeInv

\* The chip sends the first datagram that waits: it is the frame.
LEMMA SendIsWhole ==
    ASSUME TypeOK, WholeInv, Chip_send
    PROVE  WholeWhenRoom'
<1> DEFINE s == Head(queue)
           k == s.frame.length
<1> SUFFICES ASSUME ~out'.crowded
             PROVE  out'.data = [i \in 1 .. out'.of.length |-> <<out'.of.number, i - 1>>]
  BY DEF WholeWhenRoom
<1>1. /\ out'.of = s.frame /\ out'.crowded = crowded
      /\ out'.data = [i \in 1 .. s.end - rd |-> mem[(rd + i - 1) % Size]]
  BY DEF Chip_send
<1>2. ChainInv /\ QueuedInv
  BY <1>1 DEF WholeInv
<1>3. 1 \in 1 .. Len(queue) /\ s = queue[1]
  <2> DEFINE Q == [end : Nat, frame : Frame]
  <2>1. queue \in Seq(Q) /\ queue # <<>>
    BY DEF TypeOK, Chip_send
  <2> HIDE DEF Q
  <2> QED BY <2>1, EmptySeq
<1>4. s.end \in Nat /\ k \in Nat /\ rd \in Nat
  BY <1>3, EntryTyped DEF TypeOK
<1>5. s.end = rd + k /\ Holds(rd, k, s.frame)
  BY <1>2, <1>3 DEF ChainInv, QueuedInv, StartOf
<1> HIDE DEF s, k
<1>6. s.end - rd = k
  BY <1>4, <1>5
<1>7. ASSUME NEW i \in 1 .. k
      PROVE  mem[(rd + i - 1) % Size] = <<s.frame.number, i - 1>>
  <2>1. rd + i - 1 \in rd .. rd + k - 1 /\ (rd + i - 1) - rd = i - 1
    BY <1>4
  <2> QED BY <1>5, <2>1 DEF Holds
<1>8. out'.data = [i \in 1 .. k |-> <<s.frame.number, i - 1>>]
  BY <1>1, <1>6, <1>7
<1> QED
  BY <1>1, <1>8 DEF k

\* Every step keeps what makes datagrams whole.
LEMMA WholeInvInductive ==
    ASSUME TypeOK, WholeInv, [Next]_vars
    PROVE  WholeInv'
<1> USE DEF memory, task, history
<1>0. WholeWhenRoom
  BY DEF WholeInv
<1>1. ASSUME NEW h \in Headers, NEW n \in Payloads, Ethernet_handleRFpacket(h, n)
      PROVE  WholeInv'
  BY <1>1, TakeKeepsWhole
<1>2. CASE WriteWhole
  BY <1>2, WriteWholeKeepsWhole
<1>3. CASE WriteTooLong
  \* Only a frame that met too little room is cut.
  <2>1. crowded
    <3> SUFFICES ASSUME ~crowded PROVE FALSE
      OBVIOUS
    <3>1. ChainInv /\ BuildInv /\ pc = "write" /\ left # <<>>
      BY <1>3 DEF WholeInv, WriteTooLong
    <3>2. /\ left \in Seq(Nat) /\ Len(left) <= 3 /\ offset + Total(left) = cur.length
          /\ base - rd + cur.length <= Size /\ rd <= base
      BY <3>1 DEF BuildInv, ChainInv, TypeOK
    <3>3. /\ Head(left) \in Nat /\ Total(Tail(left)) \in Nat
          /\ Total(left) = Head(left) + Total(Tail(left))
      BY <3>1, <3>2, TotalOfHeadAndTail
    <3>4. base \in Nat /\ rd \in Nat /\ Size \in Nat /\ offset \in Nat
      BY UdpSendAssumption DEF TypeOK
    <3>5. Head(left) <= Size - (base - rd) /\ ~(base - rd > Size)
      BY <3>2, <3>3, <3>4, SMTT(20)
    <3>6. Head(left) <= W5500_getTXFreeSize
      BY <3>5 DEF W5500_getTXFreeSize
    <3>7. W5500_getTXFreeSize \in Nat
      BY <3>4, FreeSizeIsNat
    <3> QED BY <1>3, <3>3, <3>6, <3>7 DEF WriteTooLong
  <2>2. /\ UNCHANGED <<base, wr, offset, out, crowded>>
        /\ pc = "write" /\ pc' = "cut"
    BY <1>3 DEF WriteTooLong, socket
  <2> QED BY <1>0, <2>1, <2>2 DEF WholeInv, PointerInv, WholeWhenRoom
<1>4. CASE WriteCut
  <2>1. crowded /\ pc = "cut"
    BY <1>4 DEF WholeInv, WriteCut
  <2>2. /\ UNCHANGED <<base, out, crowded>> /\ pc' = "write"
        /\ wr' = base + offset + W5500_getTXFreeSize
        /\ offset' = offset + W5500_getTXFreeSize
    BY <1>4 DEF WriteCut, Buffer, W5500_send_data_processing_offset
  <2>3. base \in Nat /\ offset \in Nat /\ W5500_getTXFreeSize \in Nat
    BY FreeSizeIsNat DEF TypeOK
  <2>4. PointerInv'
    BY <2>2, <2>3 DEF PointerInv
  <2> QED BY <1>0, <2>1, <2>2, <2>4 DEF WholeInv, WholeWhenRoom
<1>5. CASE EthernetUDP_endPacket
  BY <1>5, EndKeepsWhole
<1>6. CASE EndPacketReturns
  <2>1. /\ UNCHANGED <<memory, queue, left, offset, given, cur, out, crowded>>
        /\ pc = "answer" /\ pc' = "poll"
    BY <1>6 DEF EndPacketReturns
  <2> QED
    BY <1>0, <2>1 DEF WholeInv, WholeWhenRoom, PointerInv, ChainInv, QueuedInv, BuildInv,
                      Holds, StartOf
<1>7. ASSUME NEW t \in Targets \cup {NoTarget}, Ethernet_setTargetIp(t)
      PROVE  WholeInv'
  <2>1. /\ UNCHANGED <<mem, base, wr, task, out>>
        /\ pc = "poll" /\ queue' = <<>> /\ rd' = base
    BY <1>7 DEF Ethernet_setTargetIp
  <2>2. base \in Nat /\ Size \in Nat
    BY UdpSendAssumption DEF TypeOK
  <2>3. Len(queue') = 0
    BY <2>1
  <2>4. ChainInv' /\ QueuedInv'
    BY <2>1, <2>2, <2>3 DEF ChainInv, QueuedInv
  <2>5. PointerInv' /\ BuildInv' /\ pc' # "cut" /\ WholeWhenRoom'
    BY <1>0, <2>1 DEF WholeInv, PointerInv, BuildInv, WholeWhenRoom
  <2> QED BY <2>4, <2>5 DEF WholeInv
<1>8. CASE Chip_send
  BY <1>8, SendIsWhole, DoneKeepsWhole DEF Chip_send
<1>9. CASE Chip_timeout
  <2>1. WholeWhenRoom'
    BY <1>0, <1>9 DEF Chip_timeout, WholeWhenRoom
  <2> QED BY <1>9, <2>1, DoneKeepsWhole DEF Chip_timeout
<1>10. CASE UNCHANGED vars
  <2>1. WholeWhenRoom'
    BY <1>0, <1>10 DEF vars, WholeWhenRoom
  <2> QED BY <1>10, <2>1, WholeFrame DEF vars, socket
<1> QED
  BY <1>1, <1>2, <1>3, <1>4, <1>5, <1>6, <1>7, <1>8, <1>9, <1>10 DEF Next

\* As long as every frame finds room for all of its pieces, every datagram is its
\* frame, whole and nothing else, for any size of the memory, any pieces and any
\* order of writing, sending and changing the target.
THEOREM WholeWhenRoomAlways == Spec => []WholeWhenRoom
<1>1. Init => WholeInv
  <2> SUFFICES ASSUME Init PROVE WholeInv
    OBVIOUS
  <2>1. WholeWhenRoom
    <3>1. out.of.length = 0 /\ out.data = <<>>
      BY DEF Init
    <3>2. [i \in 1 .. 0 |-> <<out.of.number, i - 1>>] = <<>>
      OBVIOUS
    <3> QED BY <3>1, <3>2 DEF WholeWhenRoom
  <2>2. PointerInv /\ pc # "cut" /\ BuildInv
    BY DEF Init, PointerInv, BuildInv
  <2>3. Len(queue) = 0
    BY DEF Init
  <2>4. ChainInv /\ QueuedInv
    BY <2>3, UdpSendAssumption DEF Init, ChainInv, QueuedInv
  <2> QED BY <2>1, <2>2, <2>4 DEF WholeInv
<1>2. TypeOK /\ WholeInv /\ [Next]_vars => WholeInv'
  BY WholeInvInductive
<1>3. WholeInv => WholeWhenRoom
  BY DEF WholeInv
<1> QED BY <1>1, <1>2, <1>3, UdpSendTyped, PTL DEF Spec
=============================================================================
