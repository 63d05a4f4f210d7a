----------------------------- MODULE DhcpProofs -------------------------------
(***************************************************************************)
(* The address the sniffer answers to has been acknowledged by a server,   *)
(* and it asks only for addresses offered to it, as long as its object is  *)
(* intact; every variable keeps its type, the counters within their words: *)
(* proved for any servers, any options, any bounds.                        *)
(***************************************************************************)
EXTENDS Dhcp, TLAPS

(***************************************************************************)
(* The servers acknowledge what they lease, and every address they lease   *)
(* has an ACK on the network.                                              *)
(***************************************************************************)
NetInv ==
  /\ \A m \in replies : m.type = "ACK" => m.yiaddr \in granted
  /\ \A a \in granted : \E m \in replies : m.type = "ACK" /\ m.yiaddr = a

(***************************************************************************)
(* The address in the DHCP object, by the state of the client, and the     *)
(* chip's, unless an overwritten object has been used.                     *)
(***************************************************************************)
ObjectInv ==
  /\ state \in {"LEASED", "REREQUEST"} => localIp \in granted
  /\ state = "REQUEST" =>
       \E m \in replies : m.type \in {"OFFER", "ACK"} /\ m.yiaddr = localIp
  /\ pc # "lost" /\ chipIp # NoAddress => chipIp \in granted

\* A type that DHCP replies have, and whose replies they are.
ReplyInv ==
  \A m \in replies : m.type \in {"OFFER", "ACK", "NAK"} /\ m.mine

LeaseInv == NetInv /\ ObjectInv /\ ReplyInv

-----------------------------------------------------------------------------
\* A step that leaves the network and the object's address alone keeps the
\* invariant if it does not reach a state that promises more.
LEMMA QuietStep ==
  ASSUME LeaseInv, UNCHANGED <<netVars, localIp>>,
         state' \in {state, "START", "DISCOVER"},
         UNCHANGED chipIp, pc # "lost"
  PROVE  LeaseInv'
BY DEF LeaseInv, NetInv, ObjectInv, ReplyInv, netVars

\* Offers and refusals do not touch what is granted.
LEMMA OfferedKeeps ==
  ASSUME LeaseInv, NEW id, Offered(id)
  PROVE  /\ NetInv' /\ ReplyInv'
         /\ replies \subseteq replies' /\ granted \subseteq granted'
BY DEF LeaseInv, NetInv, ReplyInv, Offered, Reply

LEMMA RequestedKeeps ==
  ASSUME LeaseInv, NEW id, NEW s, NEW ip, Requested(id, s, ip)
  PROVE  /\ NetInv' /\ ReplyInv'
         /\ replies \subseteq replies' /\ granted \subseteq granted'
<1>1. CASE UNCHANGED netVars
  BY <1>1 DEF LeaseInv, NetInv, ReplyInv, netVars
<1>2. CASE /\ replies' = replies \cup {Reply("NAK", s, id, NoAddress, NoOptions)}
           /\ UNCHANGED granted
  BY <1>2 DEF LeaseInv, NetInv, ReplyInv, Reply
<1>3. ASSUME NEW o \in LeaseOptions,
             replies' = replies \cup {Reply("ACK", s, id, ip, o)},
             granted' = granted \cup {ip}
      PROVE  /\ NetInv' /\ ReplyInv'
             /\ replies \subseteq replies' /\ granted \subseteq granted'
  <2> DEFINE ack == Reply("ACK", s, id, ip, o)
  <2>1. ack.type = "ACK" /\ ack.yiaddr = ip /\ ack.mine
    BY DEF Reply
  <2>0. replies' = replies \cup {ack} /\ granted' = granted \cup {ip}
    BY <1>3
  <2> HIDE DEF ack
  <2>2. \A m \in replies' : m.type = "ACK" => m.yiaddr \in granted'
    BY <2>0, <2>1 DEF LeaseInv, NetInv
  <2>3. ASSUME NEW a \in granted'
        PROVE  \E m \in replies' : m.type = "ACK" /\ m.yiaddr = a
    <3>1. CASE a = ip
      BY <2>0, <2>1, <3>1
    <3>2. CASE a \in granted
      BY <2>0, <3>2 DEF LeaseInv, NetInv
    <3> QED BY <2>0, <3>1, <3>2
  <2>4. ReplyInv'
    BY <2>0, <2>1 DEF LeaseInv, ReplyInv
  <2> QED BY <2>0, <2>2, <2>3, <2>4 DEF NetInv
<1> QED BY <1>1, <1>2, <1>3 DEF Requested

\* Replies to others are never accepted.
LEMMA AcceptedIsOurs ==
  ASSUME LeaseInv, NEW m \in replies \cup Foreign, Accepts(m)
  PROVE  m \in replies /\ m.type \in {"OFFER", "ACK", "NAK"}
<1>1. ASSUME NEW f \in Foreign PROVE ~f.mine
  <2> PICK type \in {"OFFER", "ACK", "NAK"}, s \in Server, id \in 1 .. MaxXid :
        f = [Reply(type, s, id, Other, NoOptions) EXCEPT !.mine = FALSE]
    BY <1>1 DEF Foreign
  <2> QED BY DEF Reply
<1> QED BY <1>1 DEF LeaseInv, ReplyInv, Accepts

-----------------------------------------------------------------------------
LEMMA InitLeaseInv == Init => LeaseInv
BY DEF Init, LeaseInv, NetInv, ObjectInv, ReplyInv

LEMMA SendDiscoverKeepsInv ==
  ASSUME LeaseInv, SendDiscover PROVE LeaseInv'
<1>1. NetInv' /\ ReplyInv' /\ granted \subseteq granted'
  BY OfferedKeeps DEF SendDiscover, DHCP_send_DHCP_MESSAGE
<1>2. state' = "DISCOVER" /\ UNCHANGED chipIp /\ pc # "lost"
  BY DEF SendDiscover, EndOfRound
<1> QED BY <1>1, <1>2 DEF LeaseInv, ObjectInv

LEMMA SendRerequestKeepsInv ==
  ASSUME LeaseInv, SendRerequest PROVE LeaseInv'
<1>1. /\ NetInv' /\ ReplyInv'
      /\ replies \subseteq replies' /\ granted \subseteq granted'
  BY RequestedKeeps DEF SendRerequest, DHCP_send_DHCP_MESSAGE
<1>2. /\ state = "REREQUEST" /\ state' = "REQUEST" /\ UNCHANGED <<localIp, chipIp>>
      /\ pc # "lost"
  BY DEF SendRerequest, EndOfRound
<1>3. \E m \in replies : m.type = "ACK" /\ m.yiaddr = localIp
  BY <1>2 DEF LeaseInv, NetInv, ObjectInv
<1> QED BY <1>1, <1>2, <1>3 DEF LeaseInv, ObjectInv

LEMMA ParseKeepsInv ==
  ASSUME LeaseInv, DHCP_parseDHCPResponse PROVE LeaseInv'
<1> PICK m \in replies \cup Foreign :
      TakeOffer(m) \/ TakeAck(m) \/ TakeNak(m) \/ TakeUnexpected(m) \/ Ignore(m)
  BY DEF DHCP_parseDHCPResponse
<1>0. pc # "lost"
  BY DEF TakeOffer, TakeAck, TakeNak, TakeUnexpected, Ignore, Waiting
<1>1. CASE TakeOffer(m)
  <2>1. m \in replies /\ m.type = "OFFER"
    BY <1>1, AcceptedIsOurs DEF TakeOffer
  <2>2. /\ NetInv' /\ ReplyInv'
        /\ replies \subseteq replies' /\ granted \subseteq granted'
    BY <1>1, RequestedKeeps DEF TakeOffer, DHCP_send_DHCP_MESSAGE
  <2>3. state' = "REQUEST" /\ localIp' = m.yiaddr /\ UNCHANGED chipIp
    BY <1>1 DEF TakeOffer, ReadReply, EndOfRound
  <2> QED BY <1>0, <2>1, <2>2, <2>3 DEF LeaseInv, ObjectInv
<1>2. CASE TakeAck(m)
  <2>1. m \in replies /\ m.type = "ACK"
    BY <1>2, AcceptedIsOurs DEF TakeAck
  <2>2. state' = "LEASED" /\ localIp' = m.yiaddr /\ UNCHANGED <<chipIp, netVars>>
    BY <1>2 DEF TakeAck, EndOfRound
  <2> QED BY <1>0, <2>1, <2>2 DEF LeaseInv, NetInv, ObjectInv, ReplyInv, netVars
<1>3. CASE TakeNak(m)
  <2>1. state' = "START" /\ UNCHANGED <<chipIp, netVars>>
    BY <1>3 DEF TakeNak, EndOfRound
  <2> QED BY <1>0, <2>1 DEF LeaseInv, NetInv, ObjectInv, ReplyInv, netVars
<1>4. CASE TakeUnexpected(m)
  <2>1. m \in replies /\ m.type \in {"OFFER", "ACK", "NAK"}
    BY <1>4, AcceptedIsOurs DEF TakeUnexpected
  <2>2. /\ state \in {"DISCOVER", "REQUEST"} /\ state' = state
        /\ localIp' = m.yiaddr /\ UNCHANGED <<chipIp, netVars>>
    BY <1>4 DEF TakeUnexpected, Waiting, ReadReply, EndOfRound
  <2>3. state = "REQUEST" => m.type = "OFFER"
    BY <1>4, <2>1 DEF TakeUnexpected
  <2> QED BY <1>0, <2>1, <2>2, <2>3
          DEF LeaseInv, NetInv, ObjectInv, ReplyInv, netVars
<1>5. CASE Ignore(m)
  <2>1. state' = state /\ UNCHANGED <<localIp, chipIp, netVars>>
    BY <1>5 DEF Ignore, EndOfRound
  <2> QED BY <1>0, <2>1, QuietStep
<1> QED BY <1>1, <1>2, <1>3, <1>4, <1>5

LEMMA NoResponseKeepsInv ==
  ASSUME LeaseInv, NoResponse PROVE LeaseInv'
<1>1. state' = "START" /\ UNCHANGED <<localIp, chipIp, netVars>> /\ pc # "lost"
  BY DEF NoResponse, EndOfRound, Waiting
<1> QED BY <1>1, QuietStep

LEMMA BeginKeepsInv ==
  ASSUME LeaseInv, Ethernet_begin_mac PROVE LeaseInv'
<1>1. state' = "START" /\ chipIp' = NoAddress /\ UNCHANGED netVars
  BY DEF Ethernet_begin_mac
<1> QED BY <1>1 DEF LeaseInv, NetInv, ObjectInv, ReplyInv, netVars

\* The second half of DHCP_checkLease takes the address over only after a
\* renewal that has ended in LEASED.
LEMMA RebindKeepsInv ==
  ASSUME LeaseInv, NEW r, r = 2 => state = "LEASED", RebindOr(r),
         UNCHANGED netVars, pc # "lost"
  PROVE  LeaseInv'
<1>1. CASE MustRebind(state)
  <2>1. state' = "START" /\ UNCHANGED chipIp
    BY <1>1 DEF RebindOr
  <2> QED BY <2>1 DEF LeaseInv, NetInv, ObjectInv, ReplyInv, netVars
<1>2. CASE ~MustRebind(state)
  <2>1. /\ UNCHANGED <<state, localIp>>
        /\ chipIp' = IF r = 2 THEN localIp ELSE chipIp
    BY <1>2 DEF RebindOr
  <2> QED BY <2>1 DEF LeaseInv, NetInv, ObjectInv, ReplyInv, netVars
<1> QED BY <1>1, <1>2

LEMMA MaintainKeepsInv ==
  ASSUME LeaseInv, NEW late, Ethernet_maintain(late) PROVE LeaseInv'
<1>0. UNCHANGED netVars /\ pc # "lost"
  BY DEF Ethernet_maintain
<1>1. CASE ~checked
  <2>1. UNCHANGED <<state, localIp, chipIp>>
    BY <1>1 DEF Ethernet_maintain
  <2> QED BY <1>0, <2>1, QuietStep
<1>2. CASE checked /\ state = "LEASED" /\ renewInSec' <= 0
  <2>1. state = "LEASED" /\ state' = "REREQUEST" /\ UNCHANGED <<localIp, chipIp>>
    BY <1>2 DEF Ethernet_maintain
  <2> QED BY <1>0, <2>1 DEF LeaseInv, NetInv, ObjectInv, ReplyInv, netVars
<1>3. CASE checked /\ ~(state = "LEASED" /\ renewInSec' <= 0)
  <2>1. RebindOr(0)
    BY <1>3 DEF Ethernet_maintain
  <2> QED BY <1>0, <2>1, RebindKeepsInv
<1> QED BY <1>1, <1>2, <1>3

LEMMA ReturnKeepsInv ==
  ASSUME LeaseInv, Return PROVE LeaseInv'
<1> DEFINE result == IF state = "LEASED" THEN 1 ELSE 0
<1>0. UNCHANGED netVars /\ pc # "lost"
  BY DEF Return
<1>1. CASE RebindOr(1 + result)
  <2>1. 1 + result = 2 => state = "LEASED"
    OBVIOUS
  <2> HIDE DEF result
  <2> QED BY <1>0, <1>1, <2>1, RebindKeepsInv
<1>2. CASE /\ chipIp' = IF result = 1 THEN localIp ELSE chipIp
           /\ UNCHANGED <<state, localIp>>
  BY <1>0, <1>2 DEF LeaseInv, NetInv, ObjectInv, ReplyInv, netVars
<1> QED BY <1>1, <1>2 DEF Return

-----------------------------------------------------------------------------
LEMMA LeaseInvInductive == LeaseInv /\ [Next]_vars => LeaseInv'
<1> SUFFICES ASSUME LeaseInv, [Next]_vars PROVE LeaseInv'
  OBVIOUS
<1>1. CASE Client
  BY <1>1, SendDiscoverKeepsInv, SendRerequestKeepsInv, ParseKeepsInv,
     NoResponseKeepsInv, ReturnKeepsInv DEF Client
<1>2. CASE Tick
  <2>1. UNCHANGED <<state, localIp, chipIp, netVars>> /\ pc # "lost"
    BY <1>2 DEF Tick, objectVars
  <2> QED BY <2>1, QuietStep
<1>3. CASE Ethernet_begin_mac
  BY <1>3, BeginKeepsInv
<1>4. CASE Maintain
  BY <1>4, MaintainKeepsInv DEF Maintain
<1>5. CASE UNCHANGED vars
  <2>1. UNCHANGED <<state, localIp, chipIp, netVars, pc>>
    BY <1>5 DEF vars, objectVars, callVars
  <2> QED BY <2>1 DEF LeaseInv, NetInv, ObjectInv, ReplyInv, netVars
<1>6. CASE UseOverwritten
  <2>1. UNCHANGED <<state, localIp, netVars>> /\ pc' = "lost"
    BY <1>6 DEF UseOverwritten, objectVars
  <2> QED BY <2>1 DEF LeaseInv, NetInv, ObjectInv, ReplyInv, netVars
<1> QED BY <1>1, <1>2, <1>3, <1>4, <1>5, <1>6 DEF Next

THEOREM LeaseInvariant == Spec => []LeaseInv
<1> QED BY InitLeaseInv, LeaseInvInductive, PTL DEF Spec

(***************************************************************************)
(* The W5500 answers only to an address a server has acknowledged to this  *)
(* client: after Ethernet_begin_mac, and after Ethernet_maintain for as    *)
(* long as it finds the object as Ethernet_begin_mac has left it.          *)
(***************************************************************************)
THEOREM AddressIsGrantedAlways == Spec => []AddressIsGranted
<1>1. LeaseInv => AddressIsGranted
  BY DEF LeaseInv, ObjectInv, AddressIsGranted
<1> QED BY <1>1, LeaseInvariant, PTL

(***************************************************************************)
(* A DHCPREQUEST asks for an address that was offered or acknowledged to   *)
(* this client.                                                            *)
(***************************************************************************)
THEOREM RequestsOfferedAddressAlways == Spec => []RequestsOfferedAddress
<1>1. LeaseInv => RequestsOfferedAddress
  BY DEF LeaseInv, ObjectInv, RequestsOfferedAddress
<1> QED BY <1>1, LeaseInvariant, PTL
-----------------------------------------------------------------------------
(* Typing *)

\* Seconds as an option carries them, and as the client counts them down.
Seconds == 0 .. Word - 1
Counter == -(Word \div 2) .. Word \div 2 - 1

\* What a server puts into its replies.
TypedReply(m) ==
  /\ m.from \in Server /\ m.xid \in 1 .. MaxXid /\ m.yiaddr \in Addresses
  /\ m.lease \in Seconds \cup {Absent}
  /\ m.t1 \in Seconds \cup {Absent}
  /\ m.t2 \in Seconds \cup {Absent}

ReplyTyped == \A m \in replies : TypedReply(m)

DhcpTyped == TypeOK /\ ReplyTyped

\* The parts of DhcpTyped that most steps leave alone: the object's address and
\* numbers, and the servers.
NetTyped == granted \subseteq Server /\ ReplyTyped

\* The arithmetic of the client's words.
LEMMA WordArithmetic ==
  /\ Word \in Nat \ {0} /\ Word \div 2 \in Nat /\ Word = 2 * (Word \div 2)
  /\ DefaultLease \in Seconds /\ 0 \in Seconds /\ 0 \in Counter
  /\ \A w \in Seconds : Signed(w) \in Counter /\ w \div 2 \in Seconds /\ (w * 2) % Word \in Seconds
<1>1. /\ Word \in Nat \ {0} /\ Word \div 2 \in Nat /\ Word = 2 * (Word \div 2)
  BY DhcpAssumption
<1>2. DefaultLease \in Seconds /\ 0 \in Seconds /\ 0 \in Counter
  BY <1>1 DEF DefaultLease, Seconds, Counter
<1>3. ASSUME NEW w \in Seconds
      PROVE  Signed(w) \in Counter /\ w \div 2 \in Seconds /\ (w * 2) % Word \in Seconds
  <2>1. Signed(w) \in Counter
    BY <1>1 DEF Signed, Seconds, Counter
  <2>2. w \div 2 \in Seconds
    BY <1>1 DEF Seconds
  <2>3. (w * 2) % Word \in Seconds
    <3>1. w * 2 \in Nat BY DEF Seconds
    <3> QED BY <1>1, <3>1 DEF Seconds
  <2> QED BY <2>1, <2>2, <2>3
<1> QED BY <1>1, <1>2, <1>3

\* An option, or what the object held before.
LEMMA GivenTyped ==
  ASSUME NEW option \in Seconds \cup {Absent}, NEW old \in Seconds
  PROVE  Given(option, old) \in Seconds
BY DEF Given

\* Counting down stays in range.
LEMMA CountDownTyped ==
  ASSUME NEW c \in Counter, NEW late \in Nat
  PROVE  CountDown(c, late) \in Counter
BY WordArithmetic DEF CountDown, Counter

\* A reply of one of our servers is well typed.
LEMMA ReplyIsTyped ==
  ASSUME NEW type, NEW s \in Server, NEW id \in 1 .. MaxXid, NEW ip \in Addresses,
         NEW o \in LeaseOptions \cup {NoOptions}, NEW m, m = Reply(type, s, id, ip, o)
  PROVE  TypedReply(m)
<1>1. o.lease \in Seconds \cup {Absent} /\ o.t1 \in Seconds \cup {Absent} /\ o.t2 \in Seconds \cup {Absent}
  <2>1. CASE o = NoOptions
    BY <2>1 DEF NoOptions
  <2>2. CASE o \in LeaseOptions
    <3>1. {o.lease, o.t1, o.t2} \subseteq 0 .. Word - 1 \cup {Absent}
      BY <2>2, DhcpAssumption
    <3> QED BY <3>1 DEF Seconds
  <2> QED BY <2>1, <2>2
<1> QED BY <1>1 DEF Reply, TypedReply

\* Sending a message keeps the types of what the servers know.
LEMMA SendTyped ==
  ASSUME NetTyped, NEW type, NEW id \in 1 .. MaxXid, NEW s, NEW ip,
         DHCP_send_DHCP_MESSAGE(type, id, s, ip)
  PROVE  NetTyped'
<1>1. CASE Offered(id)
  <2>1. PICK o \in [Server -> LeaseOptions] :
          replies' = replies \cup {Reply("OFFER", r, id, r, o[r]) : r \in Server}
    BY <1>1 DEF Offered
  <2>2. ASSUME NEW m \in replies', m \notin replies
        PROVE  TypedReply(m)
    <3>1. PICK r \in Server : m = Reply("OFFER", r, id, r, o[r])
      BY <2>1, <2>2
    <3>2. o[r] \in LeaseOptions /\ r \in Addresses
      BY DEF Addresses
    <3> QED BY <3>1, <3>2, ReplyIsTyped
  <2>3. granted' = granted
    BY <1>1 DEF Offered
  <2> QED BY <2>2, <2>3 DEF NetTyped, ReplyTyped
<1>2. CASE Requested(id, s, ip)
  <2>1. CASE UNCHANGED netVars
    BY <2>1 DEF NetTyped, ReplyTyped, netVars
  <2>2. CASE /\ s \in Server
             /\ replies' = replies \cup {Reply("NAK", s, id, NoAddress, NoOptions)}
             /\ UNCHANGED granted
    <3> DEFINE nak == Reply("NAK", s, id, NoAddress, NoOptions)
    <3>1. NoAddress \in Addresses
      BY DEF Addresses
    <3>2. TypedReply(nak)
      BY <2>2, <3>1, ReplyIsTyped
    <3> HIDE DEF nak
    <3>3. replies' = replies \cup {nak} /\ granted' = granted
      BY <2>2 DEF nak
    <3> QED BY <3>2, <3>3 DEF NetTyped, ReplyTyped
  <2>3. ASSUME NEW o \in LeaseOptions, s \in Server, ip = s,
               replies' = replies \cup {Reply("ACK", s, id, ip, o)},
               granted' = granted \cup {ip}
        PROVE  NetTyped'
    <3> DEFINE ack == Reply("ACK", s, id, ip, o)
    <3>1. s \in Server /\ ip = s /\ ip \in Addresses
      BY <2>3 DEF Addresses
    <3>2. TypedReply(ack)
      BY <3>1, ReplyIsTyped
    <3> HIDE DEF ack
    <3>3. replies' = replies \cup {ack} /\ granted' = granted \cup {s}
      BY <2>3 DEF ack
    <3> QED BY <3>1, <3>2, <3>3 DEF NetTyped, ReplyTyped
  <2> QED BY <1>2, <2>1, <2>2, <2>3 DEF Requested
<1> QED BY <1>1, <1>2 DEF DHCP_send_DHCP_MESSAGE

\* Reading an accepted reply keeps the types of the object.
LEMMA ReadTyped ==
  ASSUME TypeOK, NEW m, TypedReply(m), ReadReply(m), KeepTimers(m)
  PROVE  /\ localIp' \in Addresses /\ serverIp' \in Server \cup {NoAddress}
         /\ leaseTime' \in Seconds /\ t1' \in Seconds /\ t2' \in Seconds
         /\ renewInSec' \in Counter /\ rebindInSec' \in Counter /\ checked' = checked
<1>1. leaseTime \in Seconds /\ t1 \in Seconds /\ t2 \in Seconds
      /\ renewInSec \in Counter /\ rebindInSec \in Counter
  BY DEF TypeOK, Seconds, Counter
<1>2. localIp' \in Addresses /\ serverIp' \in Server \cup {NoAddress}
  BY DEF ReadReply, TypedReply, TypeOK
<1>3. leaseTime' \in Seconds /\ t1' \in Seconds /\ t2' \in Seconds
  BY <1>1, GivenTyped DEF ReadReply, KeepTimers, TypedReply
<1>4. renewInSec' \in Counter
  <2>1. CASE m.lease = Absent
    BY <1>1, <2>1 DEF KeepTimers
  <2>2. CASE m.lease # Absent
    <3>1. m.lease \in Seconds /\ renewInSec' = Signed(m.lease)
      BY <2>2 DEF KeepTimers, TypedReply
    <3> QED BY <3>1, WordArithmetic
  <2> QED BY <2>1, <2>2
<1> QED BY <1>1, <1>2, <1>3, <1>4 DEF KeepTimers

\* Renewal and rebinding times after an acknowledgement are words again.
LEMMA TimersTyped ==
  ASSUME TypeOK, NEW m, TypedReply(m), leaseTime' \in Seconds, StartTimers(m)
  PROVE  /\ t1' \in Seconds /\ t2' \in Seconds
         /\ renewInSec' \in Counter /\ rebindInSec' \in Counter /\ checked' = checked
<1> DEFINE half == Given(m.t1, t1)
           last == Given(m.t2, t2)
           T1 == IF half = 0 THEN leaseTime' \div 2 ELSE half
<1>1. half \in Seconds /\ last \in Seconds
  BY GivenTyped DEF TypeOK, TypedReply, Seconds
<1>2. T1 \in Seconds
  BY <1>1, WordArithmetic
<1>3. t1' = T1 /\ t2' = IF last = 0 THEN (T1 * 2) % Word ELSE last
  BY DEF StartTimers, TimersOf
<1> HIDE DEF half, last, T1
<1>4. t1' \in Seconds /\ t2' \in Seconds
  BY <1>1, <1>2, <1>3, WordArithmetic
<1> QED BY <1>4, WordArithmetic DEF StartTimers

\* An accepted reply is one of ours: for its type the invariant of the lease is needed.
LEMMA AcceptedIsTyped ==
  ASSUME LeaseInv, ReplyTyped, NEW m \in replies \cup Foreign, Accepts(m)
  PROVE  m \in replies /\ TypedReply(m)
BY AcceptedIsOurs DEF ReplyTyped

\* The end of a round.
LEMMA EndOfRoundTyped ==
  ASSUME NEW st \in {"START", "DISCOVER", "REQUEST", "LEASED", "REREQUEST"}, EndOfRound(st)
  PROVE  /\ state' \in {"START", "DISCOVER", "REQUEST", "LEASED", "REREQUEST"}
         /\ pc' \in {"idle", "loop", "return"}
         /\ waited' \in 0 .. ResponseTimeout + 1
BY DhcpAssumption DEF EndOfRound

-----------------------------------------------------------------------------
LEMMA InitDhcpTyped == Init => DhcpTyped
<1> SUFFICES ASSUME Init PROVE DhcpTyped
  OBVIOUS
<1>1. 0 \in Seconds /\ 0 \in Counter
  BY WordArithmetic
<1>2. /\ {leaseTime, t1, t2} \subseteq 0 .. Word - 1
      /\ {renewInSec, rebindInSec} \subseteq -(Word \div 2) .. Word \div 2 - 1
  BY <1>1 DEF Init, Seconds, Counter
<1>3. replies = {} /\ granted = {} /\ ReplyTyped
  BY DEF Init, ReplyTyped
<1>4. /\ state \in {"START", "DISCOVER", "REQUEST", "LEASED", "REREQUEST"}
      /\ xid \in 0 .. MaxXid
      /\ localIp \in Addresses /\ serverIp \in Server \cup {NoAddress} /\ chipIp \in Addresses
  BY DhcpAssumption DEF Init, Addresses
<1>5. /\ pc \in {"idle", "loop", "return"} /\ caller \in {"begin", "renew", "rebind"}
      /\ elapsed \in 0 .. Timeout + 1 /\ waited \in 0 .. ResponseTimeout + 1
      /\ rc \in 0 .. 4 /\ begins \in 0 .. MaxBegins
  BY DhcpAssumption DEF Init
<1>6. checked \in BOOLEAN
  BY DEF Init
<1> QED BY <1>2, <1>3, <1>4, <1>5, <1>6 DEF DhcpTyped, TypeOK

LEMMA SendTypedStep ==
  ASSUME DhcpTyped, SendDiscover \/ SendRerequest
  PROVE  DhcpTyped'
<1> USE DEF timerVars
<1>1. NextXid \in 1 .. MaxXid
  BY DhcpAssumption DEF DhcpTyped, TypeOK, NextXid
<1>2. NetTyped'
  BY <1>1, SendTyped DEF SendDiscover, SendRerequest, NetTyped, DhcpTyped, TypeOK
<1>3. /\ state' \in {"START", "DISCOVER", "REQUEST", "LEASED", "REREQUEST"}
      /\ pc' \in {"idle", "loop", "return"}
      /\ waited' \in 0 .. ResponseTimeout + 1
  BY EndOfRoundTyped DEF SendDiscover, SendRerequest
<1>4. /\ xid' \in 0 .. MaxXid
      /\ UNCHANGED <<localIp, serverIp, leaseTime, t1, t2, timerVars, caller, rc, begins,
                     elapsed, chipIp>>
  BY <1>1 DEF SendDiscover, SendRerequest
<1>5. ReplyTyped' /\ granted' \subseteq Server /\ \A m \in replies' : TypedReply(m)
  BY <1>2 DEF NetTyped, ReplyTyped
<1>6. TypeOK'
  BY <1>3, <1>4, <1>5 DEF DhcpTyped, TypeOK, TypedReply
<1> QED BY <1>5, <1>6 DEF DhcpTyped

LEMMA ParseTyped ==
  ASSUME DhcpTyped, LeaseInv, DHCP_parseDHCPResponse
  PROVE  DhcpTyped'
<1> USE DEF timerVars
<1> PICK m \in replies \cup Foreign :
      TakeOffer(m) \/ TakeAck(m) \/ TakeNak(m) \/ TakeUnexpected(m) \/ Ignore(m)
  BY DEF DHCP_parseDHCPResponse
<1>0. TypeOK /\ ReplyTyped /\ NetTyped
  BY DEF DhcpTyped, NetTyped, TypeOK
<1>1. CASE TakeOffer(m)
  <2>1. TypedReply(m)
    BY <1>0, <1>1, AcceptedIsTyped DEF TakeOffer
  <2>2. m.xid \in 1 .. MaxXid
    BY <2>1 DEF TypedReply
  <2>3. NetTyped'
    BY <1>0, <1>1, <2>2, SendTyped DEF TakeOffer
  <2>4. /\ state' \in {"START", "DISCOVER", "REQUEST", "LEASED", "REREQUEST"}
        /\ pc' \in {"idle", "loop", "return"}
        /\ waited' \in 0 .. ResponseTimeout + 1
    BY <1>1, EndOfRoundTyped DEF TakeOffer
  <2>5. /\ localIp' \in Addresses /\ serverIp' \in Server \cup {NoAddress}
        /\ leaseTime' \in Seconds /\ t1' \in Seconds /\ t2' \in Seconds
        /\ renewInSec' \in Counter /\ rebindInSec' \in Counter /\ checked' = checked
    BY <1>0, <1>1, <2>1, ReadTyped DEF TakeOffer
  <2>6. xid' \in 0 .. MaxXid /\ UNCHANGED <<caller, rc, begins, elapsed, chipIp>>
    BY <1>1, <2>2 DEF TakeOffer
  <2>7. ReplyTyped' /\ granted' \subseteq Server
        /\ \A r \in replies' : r.from \in Server /\ r.xid \in 1 .. MaxXid
    BY <2>3 DEF NetTyped, ReplyTyped, TypedReply
  <2>8. TypeOK'
    BY <1>0, <2>4, <2>5, <2>6, <2>7 DEF TypeOK, Seconds, Counter
  <2> QED BY <2>7, <2>8 DEF DhcpTyped
<1>2. CASE TakeAck(m)
  <2>1. TypedReply(m)
    BY <1>0, <1>2, AcceptedIsTyped DEF TakeAck
  <2>2. leaseTime' \in Seconds
    <3>1. Given(m.lease, leaseTime) \in Seconds
      BY <1>0, <2>1, GivenTyped DEF TypedReply, TypeOK, Seconds
    <3> QED BY <1>2, <3>1, WordArithmetic DEF TakeAck
  <2>3. /\ t1' \in Seconds /\ t2' \in Seconds
        /\ renewInSec' \in Counter /\ rebindInSec' \in Counter /\ checked' = checked
    BY <1>0, <1>2, <2>1, <2>2, TimersTyped DEF TakeAck
  <2>4. /\ state' \in {"START", "DISCOVER", "REQUEST", "LEASED", "REREQUEST"}
        /\ pc' \in {"idle", "loop", "return"}
        /\ waited' \in 0 .. ResponseTimeout + 1
    BY <1>2, EndOfRoundTyped DEF TakeAck
  <2>5. localIp' \in Addresses /\ serverIp' \in Server \cup {NoAddress}
    BY <1>0, <1>2, <2>1 DEF TakeAck, TypedReply, TypeOK
  <2>6. UNCHANGED <<xid, caller, rc, begins, elapsed, chipIp, netVars>>
    BY <1>2 DEF TakeAck
  <2> QED
    BY <1>0, <2>2, <2>3, <2>4, <2>5, <2>6
    DEF DhcpTyped, TypeOK, ReplyTyped, Seconds, Counter, netVars
<1>3. CASE TakeNak(m) \/ TakeUnexpected(m)
  <2>1. TypedReply(m)
    BY <1>0, <1>3, AcceptedIsTyped DEF TakeNak, TakeUnexpected
  <2>2. /\ localIp' \in Addresses /\ serverIp' \in Server \cup {NoAddress}
        /\ leaseTime' \in Seconds /\ t1' \in Seconds /\ t2' \in Seconds
        /\ renewInSec' \in Counter /\ rebindInSec' \in Counter /\ checked' = checked
    BY <1>0, <1>3, <2>1, ReadTyped DEF TakeNak, TakeUnexpected
  <2>3. /\ state' \in {"START", "DISCOVER", "REQUEST", "LEASED", "REREQUEST"}
        /\ pc' \in {"idle", "loop", "return"}
        /\ waited' \in 0 .. ResponseTimeout + 1
    BY <1>0, <1>3, EndOfRoundTyped DEF TakeNak, TakeUnexpected, TypeOK
  <2>4. UNCHANGED <<xid, caller, rc, begins, elapsed, chipIp, netVars>>
    BY <1>3 DEF TakeNak, TakeUnexpected
  <2> QED
    BY <1>0, <2>2, <2>3, <2>4 DEF DhcpTyped, TypeOK, ReplyTyped, Seconds, Counter, netVars
<1>4. CASE Ignore(m)
  <2>1. /\ state' \in {"START", "DISCOVER", "REQUEST", "LEASED", "REREQUEST"}
        /\ pc' \in {"idle", "loop", "return"}
        /\ waited' \in 0 .. ResponseTimeout + 1
    BY <1>0, <1>4, EndOfRoundTyped DEF Ignore, TypeOK
  <2>2. UNCHANGED <<xid, localIp, serverIp, leaseTime, t1, t2, timerVars, caller,
                    rc, begins, elapsed, chipIp, netVars>>
    BY <1>4 DEF Ignore
  <2> QED BY <1>0, <2>1, <2>2 DEF DhcpTyped, TypeOK, ReplyTyped, netVars
<1> QED BY <1>1, <1>2, <1>3, <1>4

LEMMA NoResponseTyped ==
  ASSUME DhcpTyped, NoResponse PROVE DhcpTyped'
<1>1. /\ state' \in {"START", "DISCOVER", "REQUEST", "LEASED", "REREQUEST"}
      /\ pc' \in {"idle", "loop", "return"}
      /\ waited' \in 0 .. ResponseTimeout + 1
  BY EndOfRoundTyped DEF NoResponse
<1>2. UNCHANGED <<xid, localIp, serverIp, leaseTime, t1, t2, timerVars, caller,
                  rc, begins, elapsed, chipIp, netVars>>
  BY DEF NoResponse
<1> QED BY <1>1, <1>2 DEF DhcpTyped, TypeOK, ReplyTyped, netVars, timerVars

\* A call of DHCP_request_DHCP_lease starts.
LEMMA RequestTyped ==
  ASSUME NEW c \in {"begin", "renew", "rebind"}, NEW gotSocket \in BOOLEAN,
         DHCP_request_DHCP_lease(c, gotSocket)
  PROVE  /\ caller' \in {"begin", "renew", "rebind"} /\ pc' \in {"idle", "loop", "return"}
         /\ xid' \in 0 .. MaxXid /\ elapsed' \in 0 .. Timeout + 1
         /\ waited' \in 0 .. ResponseTimeout + 1
BY DhcpAssumption DEF DHCP_request_DHCP_lease, InitialXid

LEMMA BeginTyped ==
  ASSUME DhcpTyped, Ethernet_begin_mac PROVE DhcpTyped'
<1>1. /\ caller' \in {"begin", "renew", "rebind"} /\ pc' \in {"idle", "loop", "return"}
      /\ xid' \in 0 .. MaxXid /\ elapsed' \in 0 .. Timeout + 1
      /\ waited' \in 0 .. ResponseTimeout + 1
  BY RequestTyped DEF Ethernet_begin_mac
<1>2. begins' \in 0 .. MaxBegins
  BY DhcpAssumption DEF Ethernet_begin_mac, DhcpTyped, TypeOK
<1>3. leaseTime' \in Seconds /\ t1' \in Seconds /\ t2' \in Seconds
  BY WordArithmetic DEF Ethernet_begin_mac
<1>4. renewInSec' \in Counter /\ rebindInSec' \in Counter
  BY DhcpAssumption DEF Ethernet_begin_mac, Counter
<1>5. checked' \in BOOLEAN
  BY DEF Ethernet_begin_mac
<1>6. /\ state' = "START" /\ chipIp' = NoAddress /\ rc' = 0
      /\ localIp' = NoAddress /\ serverIp' = NoAddress /\ UNCHANGED netVars
      /\ NoAddress \in Addresses
  BY DEF Ethernet_begin_mac, Addresses
<1>7. ReplyTyped' /\ granted' \subseteq Server
      /\ \A r \in replies' : r.from \in Server /\ r.xid \in 1 .. MaxXid
  BY <1>6 DEF DhcpTyped, TypeOK, ReplyTyped, netVars
<1>8. TypeOK'
  BY <1>1, <1>2, <1>3, <1>4, <1>5, <1>6, <1>7 DEF TypeOK, Seconds, Counter
<1> QED BY <1>7, <1>8 DEF DhcpTyped

LEMMA RebindTyped ==
  ASSUME TypeOK, NEW r \in 0 .. 2, RebindOr(r)
  PROVE  /\ state' \in {"START", "DISCOVER", "REQUEST", "LEASED", "REREQUEST"}
         /\ localIp' \in Addresses /\ serverIp' \in Server \cup {NoAddress}
         /\ caller' \in {"begin", "renew", "rebind"} /\ pc' \in {"idle", "loop", "return"}
         /\ xid' \in 0 .. MaxXid /\ elapsed' \in 0 .. Timeout + 1
         /\ waited' \in 0 .. ResponseTimeout + 1
         /\ rc' \in 0 .. 4 /\ chipIp' \in Addresses
<1>1. CASE MustRebind(state)
  <2>1. PICK gotSocket \in BOOLEAN : DHCP_request_DHCP_lease("rebind", gotSocket)
    BY <1>1 DEF RebindOr
  <2>2. /\ state' = "START" /\ localIp' = NoAddress /\ serverIp' = NoAddress
        /\ UNCHANGED <<chipIp, rc>> /\ NoAddress \in Addresses
    BY <1>1 DEF RebindOr, Addresses
  <2> QED BY <2>1, <2>2, RequestTyped DEF TypeOK
<1>2. CASE ~MustRebind(state)
  <2>1. /\ pc' = "idle" /\ rc' = r
        /\ chipIp' \in {localIp, chipIp}
        /\ UNCHANGED <<state, localIp, serverIp, xid, caller, elapsed, waited>>
    BY <1>2 DEF RebindOr, clockVars
  <2> QED BY <2>1 DEF TypeOK
<1> QED BY <1>1, <1>2

LEMMA MaintainTyped ==
  ASSUME DhcpTyped, NEW late \in 0 .. MaxLate, Ethernet_maintain(late) PROVE DhcpTyped'
<1>0. /\ UNCHANGED <<leaseTime, t1, t2, begins, netVars>> /\ checked' = TRUE
      /\ late \in Nat /\ TypeOK
  BY DhcpAssumption DEF Ethernet_maintain, DhcpTyped
<1>1. renewInSec' \in Counter /\ rebindInSec' \in Counter
  <2>1. renewInSec \in Counter /\ rebindInSec \in Counter
    BY <1>0 DEF TypeOK, Counter
  <2>2. /\ renewInSec' \in {renewInSec, CountDown(renewInSec, late)}
        /\ rebindInSec' \in {rebindInSec, CountDown(rebindInSec, late)}
    BY DEF Ethernet_maintain
  <2> QED BY <1>0, <2>1, <2>2, CountDownTyped
<1>2. /\ state' \in {"START", "DISCOVER", "REQUEST", "LEASED", "REREQUEST"}
      /\ localIp' \in Addresses /\ serverIp' \in Server \cup {NoAddress}
      /\ caller' \in {"begin", "renew", "rebind"} /\ pc' \in {"idle", "loop", "return"}
      /\ xid' \in 0 .. MaxXid /\ elapsed' \in 0 .. Timeout + 1
      /\ waited' \in 0 .. ResponseTimeout + 1
      /\ rc' \in 0 .. 4 /\ chipIp' \in Addresses
  <2>1. CASE ~checked
    BY <1>0, <2>1 DEF Ethernet_maintain, TypeOK, clockVars
  <2>2. CASE checked /\ state = "LEASED" /\ renewInSec' <= 0
    <3>1. PICK gotSocket \in BOOLEAN : DHCP_request_DHCP_lease("renew", gotSocket)
      BY <2>2 DEF Ethernet_maintain
    <3>2. state' = "REREQUEST" /\ UNCHANGED <<localIp, serverIp, chipIp, rc>>
      BY <2>2 DEF Ethernet_maintain
    <3> QED BY <1>0, <3>1, <3>2, RequestTyped DEF TypeOK
  <2>3. CASE checked /\ ~(state = "LEASED" /\ renewInSec' <= 0)
    <3>1. RebindOr(0)
      BY <2>3 DEF Ethernet_maintain
    <3> QED BY <1>0, <3>1, RebindTyped
  <2> QED BY <2>1, <2>2, <2>3
<1> QED
  BY <1>0, <1>1, <1>2 DEF DhcpTyped, TypeOK, ReplyTyped, Seconds, Counter, netVars

LEMMA ReturnTyped ==
  ASSUME DhcpTyped, Return PROVE DhcpTyped'
<1> DEFINE result == IF state = "LEASED" THEN 1 ELSE 0
<1>0. UNCHANGED <<leaseTime, t1, t2, timerVars, begins, netVars>> /\ TypeOK
  BY DEF Return, DhcpTyped
<1>1. /\ state' \in {"START", "DISCOVER", "REQUEST", "LEASED", "REREQUEST"}
      /\ localIp' \in Addresses /\ serverIp' \in Server \cup {NoAddress}
      /\ caller' \in {"begin", "renew", "rebind"} /\ pc' \in {"idle", "loop", "return"}
      /\ xid' \in 0 .. MaxXid /\ elapsed' \in 0 .. Timeout + 1
      /\ waited' \in 0 .. ResponseTimeout + 1
      /\ rc' \in 0 .. 4 /\ chipIp' \in Addresses
  <2>1. CASE RebindOr(1 + result)
    <3>1. 1 + result \in 0 .. 2
      OBVIOUS
    <3> HIDE DEF result
    <3> QED BY <1>0, <2>1, <3>1, RebindTyped
  <2>2. CASE /\ pc' = "idle"
             /\ rc' = IF caller = "rebind" THEN 3 + result ELSE rc
             /\ chipIp' = IF result = 1 THEN localIp ELSE chipIp
             /\ UNCHANGED <<state, localIp, serverIp, xid, caller, clockVars>>
    BY <1>0, <2>2 DEF TypeOK, clockVars
  <2> QED BY <2>1, <2>2 DEF Return
<1> QED BY <1>0, <1>1 DEF DhcpTyped, TypeOK, ReplyTyped, netVars, timerVars

\* Every step keeps the types.
LEMMA DhcpTypedInductive == DhcpTyped /\ LeaseInv /\ [Next]_vars => DhcpTyped'
<1> SUFFICES ASSUME DhcpTyped, LeaseInv, [Next]_vars PROVE DhcpTyped'
  OBVIOUS
<1>1. CASE Client
  BY <1>1, SendTypedStep, ParseTyped, NoResponseTyped, ReturnTyped DEF Client
<1>2. CASE Tick
  <2>1. elapsed' \in 0 .. Timeout + 1 /\ waited' \in 0 .. ResponseTimeout + 1
    BY <1>2, DhcpAssumption DEF Tick, DhcpTyped, TypeOK
  <2>2. UNCHANGED <<objectVars, timerVars, callVars, chipIp, netVars>>
    BY <1>2 DEF Tick
  <2> QED
    BY <2>1, <2>2 DEF DhcpTyped, TypeOK, ReplyTyped, objectVars, timerVars, callVars, netVars
<1>3. CASE Ethernet_begin_mac
  BY <1>3, BeginTyped
<1>4. CASE Maintain
  BY <1>4, MaintainTyped DEF Maintain
<1>5. CASE UNCHANGED vars
  BY <1>5 DEF vars, DhcpTyped, TypeOK, ReplyTyped, objectVars, timerVars, callVars,
              clockVars, netVars
<1>6. CASE UseOverwritten
  <2>1. pc' = "lost" /\ chipIp' \in Addresses
    BY <1>6 DEF UseOverwritten
  <2>2. UNCHANGED <<objectVars, timerVars, caller, rc, begins, clockVars, netVars>>
    BY <1>6 DEF UseOverwritten
  <2> QED
    BY <2>1, <2>2 DEF DhcpTyped, TypeOK, ReplyTyped, objectVars, timerVars, clockVars, netVars
<1> QED BY <1>1, <1>2, <1>3, <1>4, <1>5, <1>6 DEF Next

(***************************************************************************)
(* Every variable of the client keeps its type, whatever the servers put   *)
(* into their replies and in whatever order the replies are taken.         *)
(***************************************************************************)
THEOREM DhcpTypedAlways == Spec => []TypeOK
<1>1. DhcpTyped => TypeOK
  BY DEF DhcpTyped
<1> QED BY <1>1, InitDhcpTyped, DhcpTypedInductive, LeaseInvariant, PTL DEF Spec
=============================================================================
