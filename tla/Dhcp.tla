-------------------------------- MODULE Dhcp ----------------------------------
(***************************************************************************)
(* The DHCP client (ethernet/Dhcp.c) and its two callers in Ethernet.c:    *)
(* Ethernet_begin_mac, run at boot, and Ethernet_maintain, which renews    *)
(* the lease.  The device may be reset and boot again at any moment.       *)
(*                                                                         *)
(* The client's DHCP object is a local variable of Ethernet_begin_mac.     *)
(* Once that has returned, Ethernet_maintain finds what is left of it on   *)
(* the stack: the object, as long as no other call has written there, or   *)
(* anything at all (pc = "lost").                                          *)
(*                                                                         *)
(* The network keeps every reply it was ever given: a reply may be taken   *)
(* late, out of order, more than once or never, in a later session too.    *)
(* The broadcast replies to other clients reach the socket as well.        *)
(***************************************************************************)
EXTENDS Integers

CONSTANTS
  Server,          \* DHCP servers; server s leases the address s
  Other,           \* the address a server leases to another client
  NoAddress,       \* 0.0.0.0
  LeaseOptions,    \* [lease, t1, t2] a server puts into its replies
  UninitSeconds,   \* what an uninitialised counter may hold
  Word,            \* values of a 32-bit word, here few
  MaxXid,          \* bound: larger transaction ids are not told apart
  ResponseTimeout, \* _responseTimeout, in ticks of the receive loop
  Timeout,         \* _timeout, in the same ticks
  MaxBegins,       \* bound: boots of the device
  MaxLate          \* bound: seconds between two calls of Ethernet_maintain

Absent == -1     \* an option the reply does not carry
DefaultLease == 900 % Word

Signed(w) == IF w >= Word \div 2 THEN w - Word ELSE w

ASSUME DhcpAssumption ==
  /\ Word \in Nat \ {0} /\ Word % 2 = 0
  /\ {Other, NoAddress} \cap Server = {} /\ Other # NoAddress
  /\ \A o \in LeaseOptions :
       {o.lease, o.t1, o.t2} \subseteq 0 .. Word - 1 \cup {Absent}
  /\ UninitSeconds # {}
  /\ UninitSeconds \subseteq -(Word \div 2) .. Word \div 2 - 1
  /\ {MaxXid, ResponseTimeout, Timeout, MaxBegins, MaxLate} \subseteq Nat
  /\ MaxXid > 1

VARIABLES
  \* the DHCP object
  state,           \* _dhcp_state
  xid,             \* _dhcpTransactionId
  localIp,         \* _dhcpLocalIp
  serverIp,        \* _dhcpDhcpServerIp
  leaseTime, t1, t2,
  renewInSec, rebindInSec,
  checked,         \* _lastCheck # 0
  \* the running call
  pc,              \* "idle" | "loop" | "return" of DHCP_request_DHCP_lease,
                   \* or "lost": a call has used an object that was overwritten
  caller,          \* "begin" | "renew" | "rebind"
  elapsed,         \* time since the call began
  waited,          \* time since DHCP_parseDHCPResponse began to wait
  rc,              \* last result of DHCP_checkLease
  begins,
  \* the chip and the network
  chipIp,          \* the address the W5500 answers to
  replies,         \* every reply a server has sent to this client
  granted          \* history: the addresses the servers have acknowledged

objectVars == <<state, xid, localIp, serverIp, leaseTime, t1, t2>>
timerVars == <<renewInSec, rebindInSec, checked>>
callVars == <<pc, caller, rc, begins>>
clockVars == <<elapsed, waited>>
netVars == <<replies, granted>>
vars == <<objectVars, timerVars, callVars, clockVars, chipIp, netVars>>

Addresses == Server \cup {Other, NoAddress}

Reply(type, s, id, ip, o) ==
  [type |-> type, from |-> s, xid |-> id, mine |-> TRUE, yiaddr |-> ip,
   lease |-> o.lease, t1 |-> o.t1, t2 |-> o.t2]

NoOptions == [lease |-> Absent, t1 |-> Absent, t2 |-> Absent]

\* Replies to another client: its hardware address, a transaction id of its own.
Foreign ==
  {[Reply(type, s, id, Other, NoOptions) EXCEPT !.mine = FALSE] :
     type \in {"OFFER", "ACK", "NAK"}, s \in Server, id \in 1 .. MaxXid}

Init ==
  /\ state = "START" /\ xid = 0
  /\ localIp = NoAddress /\ serverIp = NoAddress
  /\ leaseTime = 0 /\ t1 = 0 /\ t2 = 0
  /\ renewInSec = 0 /\ rebindInSec = 0 /\ checked = FALSE
  /\ pc = "idle" /\ caller = "begin" /\ elapsed = 0 /\ waited = 0
  /\ rc = 0 /\ begins = 0
  /\ chipIp = NoAddress /\ replies = {} /\ granted = {}

-----------------------------------------------------------------------------
(***************************************************************************)
(* What a server does with a DISCOVER (offer its address) and a REQUEST    *)
(* that names it (acknowledge the address if it is its own, refuse it, or  *)
(* give no answer).  A REQUEST that names another server is not answered.  *)
(***************************************************************************)
Offered(id) ==
  \E o \in [Server -> LeaseOptions] :
    /\ replies' = replies \cup {Reply("OFFER", s, id, s, o[s]) : s \in Server}
    /\ UNCHANGED granted

Requested(id, s, ip) ==
  \/ UNCHANGED netVars
  \/ /\ s \in Server
     /\ replies' = replies \cup {Reply("NAK", s, id, NoAddress, NoOptions)}
     /\ UNCHANGED granted
  \/ /\ s \in Server /\ ip = s
     /\ \E o \in LeaseOptions :
          replies' = replies \cup {Reply("ACK", s, id, ip, o)}
     /\ granted' = granted \cup {ip}

\* Broadcast; a REQUEST carries _dhcpLocalIp and _dhcpDhcpServerIp.
DHCP_send_DHCP_MESSAGE(type, id, s, ip) ==
  \/ type = "DISCOVER" /\ Offered(id)
  \/ type = "REQUEST" /\ Requested(id, s, ip)

-----------------------------------------------------------------------------
(***************************************************************************)
(* DHCP_request_DHCP_lease.  random() always returns 0xdead, so the        *)
(* "initial transaction ID" is 1 in every call.                            *)
(***************************************************************************)
InitialXid == 1

NextXid == IF xid < MaxXid THEN xid + 1 ELSE xid

DHCP_request_DHCP_lease(c, gotSocket) ==
  /\ caller' = c
  /\ pc' = IF gotSocket THEN "loop" ELSE "return"
  /\ xid' = InitialXid
  /\ elapsed' = 0
  /\ waited' = 0

\* Mutant: the loop goes on for ever without an answer.
EndOfRound_NoTimeout(st) ==
  /\ state' = st
  /\ pc' = IF st = "LEASED" THEN "return" ELSE "loop"
  /\ waited' = 0

(***************************************************************************)
(* The end of one round of the while loop, which leaves the state st.      *)
(***************************************************************************)
EndOfRound(st) ==
  /\ state' = st
  /\ pc' = IF st = "LEASED" \/ elapsed > Timeout THEN "return" ELSE "loop"
  /\ waited' = 0

SendDiscover ==
  /\ pc = "loop" /\ state = "START"
  /\ xid' = NextXid
  /\ DHCP_send_DHCP_MESSAGE("DISCOVER", NextXid, serverIp, localIp)
  /\ EndOfRound("DISCOVER")
  /\ UNCHANGED <<localIp, serverIp, leaseTime, t1, t2, timerVars, caller, rc,
                 begins, elapsed, chipIp>>

SendRerequest ==
  /\ pc = "loop" /\ state = "REREQUEST"
  /\ xid' = NextXid
  /\ DHCP_send_DHCP_MESSAGE("REQUEST", NextXid, serverIp, localIp)
  /\ EndOfRound("REQUEST")
  /\ UNCHANGED <<localIp, serverIp, leaseTime, t1, t2, timerVars, caller, rc,
                 begins, elapsed, chipIp>>

-----------------------------------------------------------------------------
Waiting == pc = "loop" /\ state \in {"DISCOVER", "REQUEST"}

\* Mutant: the hardware address of the reply is not compared.
Accepts_AnyClient(m) == InitialXid <= m.xid /\ m.xid <= xid

(***************************************************************************)
(* DHCP_parseDHCPResponse takes a reply with our hardware address whose    *)
(* transaction id lies between the initial one and the current one.        *)
(***************************************************************************)
Accepts(m) == m.mine /\ InitialXid <= m.xid /\ m.xid <= xid

\* Mutant: an option the reply does not carry is stored all the same.
Given_Unread(option, old) == option

\* An option the reply does not carry leaves the object's field as it was.
Given(option, old) == IF option = Absent THEN old ELSE option

(***************************************************************************)
(* An accepted reply fills in the object option by option before its type  *)
(* is looked at.  The server identifier is kept from the first server that *)
(* gave one, unless the reply comes from that server.                      *)
(***************************************************************************)
ReadReply(m) ==
  /\ localIp' = m.yiaddr
  /\ serverIp' = IF serverIp \in {NoAddress, m.from} THEN m.from ELSE serverIp
  /\ leaseTime' = Given(m.lease, leaseTime)

(***************************************************************************)
(* T1 and T2 after an ACK: as given, now or by an earlier reply, or else   *)
(* half the lease time and twice T1.                                       *)
(***************************************************************************)
TimersOf(m) ==
  LET half == Given(m.t1, t1)
      last == Given(m.t2, t2)
      T1 == IF half = 0 THEN leaseTime' \div 2 ELSE half
  IN  [t1 |-> T1, t2 |-> IF last = 0 THEN (T1 * 2) % Word ELSE last]

StartTimers(m) ==
  /\ t1' = TimersOf(m).t1
  /\ t2' = TimersOf(m).t2
  /\ renewInSec' = Signed(t1')
  /\ rebindInSec' = Signed(t2')
  /\ UNCHANGED checked

KeepTimers(m) ==
  /\ t1' = Given(m.t1, t1)
  /\ t2' = Given(m.t2, t2)
  /\ renewInSec' = IF m.lease = Absent THEN renewInSec ELSE Signed(m.lease)
  /\ UNCHANGED <<rebindInSec, checked>>

\* An offer while discovering: its transaction id becomes ours.
TakeOffer(m) ==
  /\ Waiting /\ state = "DISCOVER" /\ Accepts(m) /\ m.type = "OFFER"
  /\ ReadReply(m)
  /\ KeepTimers(m)
  /\ xid' = m.xid
  /\ DHCP_send_DHCP_MESSAGE("REQUEST", m.xid, serverIp', localIp')
  /\ EndOfRound("REQUEST")
  /\ UNCHANGED <<caller, rc, begins, elapsed, chipIp>>

TakeAck(m) ==
  /\ Waiting /\ state = "REQUEST" /\ Accepts(m) /\ m.type = "ACK"
  /\ localIp' = m.yiaddr
  /\ serverIp' = IF serverIp \in {NoAddress, m.from} THEN m.from ELSE serverIp
  /\ leaseTime' = LET l == Given(m.lease, leaseTime)
                  IN  IF l = 0 THEN DefaultLease ELSE l
  /\ StartTimers(m)
  /\ EndOfRound("LEASED")
  /\ UNCHANGED <<xid, caller, rc, begins, elapsed, chipIp, netVars>>

\* Mutant: a refusal leads back to the request, not to a new discovery.
TakeNak_AskAgain(m) ==
  /\ Waiting /\ state = "REQUEST" /\ Accepts(m) /\ m.type = "NAK"
  /\ ReadReply(m)
  /\ KeepTimers(m)
  /\ EndOfRound("REREQUEST")
  /\ UNCHANGED <<xid, caller, rc, begins, elapsed, chipIp, netVars>>

TakeNak(m) ==
  /\ Waiting /\ state = "REQUEST" /\ Accepts(m) /\ m.type = "NAK"
  /\ ReadReply(m)
  /\ KeepTimers(m)
  /\ EndOfRound("START")
  /\ UNCHANGED <<xid, caller, rc, begins, elapsed, chipIp, netVars>>

\* A reply of a type the state does not wait for is read all the same.
TakeUnexpected(m) ==
  /\ Waiting /\ Accepts(m)
  /\ m.type \notin IF state = "DISCOVER" THEN {"OFFER"} ELSE {"ACK", "NAK"}
  /\ ReadReply(m)
  /\ KeepTimers(m)
  /\ EndOfRound(state)
  /\ UNCHANGED <<xid, caller, rc, begins, elapsed, chipIp, netVars>>

\* Not for us, or not in the window of transaction ids: flushed.
Ignore(m) ==
  /\ Waiting /\ ~Accepts(m)
  /\ EndOfRound(state)
  /\ UNCHANGED <<xid, localIp, serverIp, leaseTime, t1, t2, timerVars, caller,
                 rc, begins, elapsed, chipIp, netVars>>

DHCP_parseDHCPResponse ==
  \E m \in replies \cup Foreign :
    TakeOffer(m) \/ TakeAck(m) \/ TakeNak(m) \/ TakeUnexpected(m) \/ Ignore(m)

\* 255: no datagram in time.
NoResponse ==
  /\ Waiting /\ waited > ResponseTimeout
  /\ EndOfRound("START")
  /\ UNCHANGED <<xid, localIp, serverIp, leaseTime, t1, t2, timerVars, caller,
                 rc, begins, elapsed, chipIp, netVars>>

(***************************************************************************)
(* delay(50) of the receive loop, or any other time that passes.  Beyond   *)
(* the two limits more time makes no difference.                           *)
(***************************************************************************)
Tick ==
  /\ pc = "loop"
  /\ elapsed' = IF elapsed > Timeout THEN elapsed ELSE elapsed + 1
  /\ waited' = IF Waiting /\ waited <= ResponseTimeout THEN waited + 1 ELSE waited
  /\ UNCHANGED <<objectVars, timerVars, callVars, chipIp, netVars>>

-----------------------------------------------------------------------------
(***************************************************************************)
(* Ethernet_begin_mac and DHCP_beginWithDHCP: a new DHCP object, whose two *)
(* counters nobody initialises, and a chip without an address.  It runs at *)
(* boot, and a reset of the device may come whatever the client was doing. *)
(* After the chip's reset a socket is always free.                         *)
(***************************************************************************)
Ethernet_begin_mac ==
  /\ begins < MaxBegins
  /\ begins' = begins + 1
  /\ chipIp' = NoAddress
  /\ leaseTime' = 0 /\ t1' = 0 /\ t2' = 0
  /\ renewInSec' \in UninitSeconds
  /\ rebindInSec' \in UninitSeconds
  /\ checked' = FALSE
  /\ rc' = 0
  /\ localIp' = NoAddress /\ serverIp' = NoAddress
  /\ state' = "START"
  /\ DHCP_request_DHCP_lease("begin", TRUE)
  /\ UNCHANGED netVars

MustRebind(st) == st \in {"LEASED", "START"} /\ rebindInSec' <= 0

\* The second half of DHCP_checkLease: all over again, or return r.
RebindOr(r) ==
  IF MustRebind(state)
  THEN /\ state' = "START"
       /\ localIp' = NoAddress /\ serverIp' = NoAddress
       /\ \E gotSocket \in BOOLEAN : DHCP_request_DHCP_lease("rebind", gotSocket)
       /\ UNCHANGED <<chipIp, rc>>
  ELSE /\ pc' = "idle"
       /\ rc' = r
       /\ chipIp' = IF r = 2 THEN localIp ELSE chipIp
       /\ UNCHANGED <<state, localIp, serverIp, xid, caller, clockVars>>

CountDown(c, late) == IF c < late * 2 THEN 0 ELSE c - late

(***************************************************************************)
(* Ethernet_maintain and DHCP_checkLease, late seconds after the last call *)
(* that counted (0: the second is not over), on an object that is intact.  *)
(* The first call only starts the clock.                                   *)
(***************************************************************************)
Ethernet_maintain(late) ==
  /\ pc = "idle" /\ begins > 0
  /\ checked' = TRUE
  /\ IF ~checked
     THEN /\ rc' = 0
          /\ UNCHANGED <<renewInSec, rebindInSec, state, localIp, serverIp,
                         xid, pc, caller, clockVars, chipIp>>
     ELSE /\ renewInSec' = IF late = 0 THEN renewInSec
                           ELSE CountDown(renewInSec, late)
          /\ rebindInSec' = IF late = 0 THEN rebindInSec
                            ELSE CountDown(rebindInSec, late)
          /\ IF state = "LEASED" /\ renewInSec' <= 0
             THEN /\ state' = "REREQUEST"
                  /\ \E gotSocket \in BOOLEAN :
                       DHCP_request_DHCP_lease("renew", gotSocket)
                  /\ UNCHANGED <<localIp, serverIp, chipIp, rc>>
             ELSE RebindOr(0)
  /\ UNCHANGED <<leaseTime, t1, t2, begins, netVars>>

\* Ethernet_begin_mac has returned, and with it the object has gone.
ObjectGone == begins > 0 /\ (pc = "idle" \/ caller # "begin")

(***************************************************************************)
(* Ethernet_maintain, or the request it has made, uses an object that      *)
(* another call has written over.  What it does then is not defined: it    *)
(* may give the chip any address, and until the next boot nothing can be   *)
(* said of the object.                                                     *)
(***************************************************************************)
UseOverwritten ==
  /\ ObjectGone /\ pc # "lost"
  /\ pc' = "lost"
  /\ chipIp' \in Addresses
  /\ UNCHANGED <<objectVars, timerVars, caller, rc, begins, clockVars, netVars>>

(***************************************************************************)
(* DHCP_request_DHCP_lease closes its socket and returns 1 iff it has a    *)
(* lease; its caller goes on from there.                                   *)
(***************************************************************************)
Return ==
  LET result == IF state = "LEASED" THEN 1 ELSE 0
  IN  /\ pc = "return"
      /\ UNCHANGED <<leaseTime, t1, t2, timerVars, begins, netVars>>
      /\ \/ /\ caller = "renew"
            /\ RebindOr(1 + result)
         \/ /\ caller \in {"begin", "rebind"}
            /\ pc' = "idle"
            /\ rc' = IF caller = "rebind" THEN 3 + result ELSE rc
            /\ chipIp' = IF result = 1 THEN localIp ELSE chipIp
            /\ UNCHANGED <<state, localIp, serverIp, xid, caller, clockVars>>

-----------------------------------------------------------------------------
Client ==
  SendDiscover \/ SendRerequest \/ DHCP_parseDHCPResponse \/ NoResponse \/ Return

Maintain == \E late \in 0 .. MaxLate : Ethernet_maintain(late)

Next == Client \/ Tick \/ Ethernet_begin_mac \/ Maintain \/ UseOverwritten

Spec == Init /\ [][Next]_vars

(***************************************************************************)
(* The task that made the call runs on, time passes, and the application   *)
(* calls Ethernet_maintain again and again, one second or more apart.      *)
(***************************************************************************)
Fairness ==
  /\ WF_vars(SendDiscover \/ SendRerequest \/ NoResponse \/ Return)
  /\ WF_vars(Tick)
  /\ WF_vars(Ethernet_maintain(1))

FairSpec == Spec /\ Fairness

-----------------------------------------------------------------------------
TypeOK ==
  /\ state \in {"START", "DISCOVER", "REQUEST", "LEASED", "REREQUEST"}
  /\ xid \in 0 .. MaxXid
  /\ localIp \in Addresses
  /\ serverIp \in Server \cup {NoAddress}
  /\ {leaseTime, t1, t2} \subseteq 0 .. Word - 1
  /\ {renewInSec, rebindInSec} \subseteq -(Word \div 2) .. Word \div 2 - 1
  /\ checked \in BOOLEAN
  /\ pc \in {"idle", "loop", "return", "lost"}
  /\ caller \in {"begin", "renew", "rebind"}
  /\ elapsed \in 0 .. Timeout + 1
  /\ waited \in 0 .. ResponseTimeout + 1
  /\ rc \in 0 .. 4
  /\ begins \in 0 .. MaxBegins
  /\ chipIp \in Addresses
  /\ granted \subseteq Server
  /\ \A m \in replies : m.from \in Server /\ m.xid \in 1 .. MaxXid

(***************************************************************************)
(* The sniffer answers only to an address that a server has acknowledged   *)
(* to it, although offers, refusals, late replies of an earlier session    *)
(* and replies to other clients all pass through _dhcpLocalIp: from the    *)
(* boot on, and after it for as long as the object is intact.              *)
(***************************************************************************)
AddressIsGranted ==
  pc # "lost" =>
    /\ state = "LEASED" => localIp \in granted
    /\ chipIp # NoAddress => chipIp \in granted

(***************************************************************************)
(* A request asks for an address some server has offered or acknowledged   *)
(* to this client, never for 0.0.0.0 or another client's.                  *)
(***************************************************************************)
RequestsOfferedAddress ==
  /\ pc = "loop" /\ state = "REREQUEST" => localIp \in granted
  /\ pc = "loop" /\ state = "REQUEST" =>
       \E m \in replies : m.type \in {"OFFER", "ACK"} /\ m.yiaddr = localIp

(***************************************************************************)
(* No call on an intact object hangs: with dead servers, lost replies or a *)
(* stream of replies to others, DHCP_request_DHCP_lease returns.           *)
(***************************************************************************)
CallsReturn == []<>(pc \in {"idle", "lost"})
=============================================================================
