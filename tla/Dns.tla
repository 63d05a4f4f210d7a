--------------------------------- MODULE Dns ---------------------------------
(***************************************************************************)
(* The resolver: DNSClient_getHostByName of Dns.c, the two functions that  *)
(* call it (EthernetUDP_beginPacket_host, EthernetClient_connect_host) and *)
(* the receiving half of EthernetUdp.c, over a network that loses, delays, *)
(* duplicates and reorders what it carries.                                *)
(*                                                                         *)
(* Characters and bytes are numbers.  A request is the id and the bytes of *)
(* the question; an answer is the fields of the header that are looked at  *)
(* and the bytes behind it, which the resolver takes apart as the server,  *)
(* following RFC 1035, has put them together.                              *)
(***************************************************************************)
EXTENDS Integers, SequencesExt

CONSTANTS
    HostNames,      \* the names looked up, as sequences of characters
    Zone,           \* the server's records: a sequence for each name it knows,
                    \* a name being the sequence of its labels
    Servers,        \* what Ethernet_dnsServerIP() may be: DnsServer or 0
    DnsServer,
    Strangers,      \* other hosts that send datagrams to our port
    IdSpace,        \* values of the 16 bits of iRequestId
    IntSpace,       \* values of an int: 2^32
    PortSpace,      \* local ports: 16, starting at 1024
    Timeout,        \* aTimeout, in turns of the loop that waits
    MaxGap,         \* bound: time between two lookups
    MaxLookups,     \* bound: lookups
    MaxRx           \* bound: datagrams that wait in the socket

Dot == 46
Zero == 48
TypeA == 1
NoAddress == <<0, 0, 0, 0>>

\* A record has a type and as much data as its length, a byte here, can say; the data of
\* an address is one.
Record ==
    {r \in [type : 0 .. 255, data : Seq(0 .. 255)] :
       /\ Len(r.data) <= 255
       /\ r.type = TypeA => Len(r.data) = 4 /\ r.data # NoAddress}

\* No label is longer than 63 characters (RFC 1035, 2.3.4): none of those in a name.
ShortLabels(s) == \A i \in 1 .. Len(s) - 63 : \E j \in i .. i + 63 : s[j] = Dot

ASSUME DnsAssumption ==
    /\ {IdSpace, IntSpace, PortSpace, Timeout} \subseteq Nat \ {0}
    /\ MaxGap \in Nat /\ MaxLookups \in Nat /\ MaxRx \in Nat
    /\ Servers \subseteq {0, DnsServer}
    /\ DnsServer \notin Strangers /\ 0 \notin Strangers \cup {DnsServer}
    /\ HostNames \subseteq Seq(1 .. 255) /\ \A s \in HostNames : ShortLabels(s)
    /\ \A l \in DOMAIN Zone : Zone[l] \in Seq(Record)

VARIABLES
    now,        \* millis()
    pc,         \* "idle" or "waiting", or "stuck": in a loop that has no end
    dns,        \* the caller's DNSClient: iDNSServer, iRequestId, the local port;
                \* and the locals of the lookup: the name, wait_retries, startTime
    rx,         \* datagrams in the socket
    requests,   \* the requests that have left
    answers,    \* the server's answers
    returned,   \* what the caller got from the last lookup
    asked       \* history: every request there has been

net == <<requests, answers>>
vars == <<now, pc, dns, rx, net, returned, asked>>

Success == 1
TimedOut == -1
InvalidServer == -2
Never == 0      \* the position of a walk that does not end
Nothing == [from |-> 0, question |-> <<>>, id |-> 0, port |-> 0, response |-> FALSE,
            bad |-> FALSE, qd |-> 0, an |-> 0, body |-> <<>>]
NoLookup == [server |-> 0, id |-> 0, port |-> 0, name |-> <<>>, waits |-> 0, start |-> 0]
-----------------------------------------------------------------------------
(* Numeric addresses *)

\* A sum in an int.  A number too large for it is undefined in C and wraps in this build.
IntOf(n) == ((n + IntSpace \div 2) % IntSpace) - IntSpace \div 2

\* One character of DNSClient_inet_aton.  A value that has become negative is not above 255.
AtonStep(a, c) ==
    IF a.failed \/ a.segment > 3 THEN a
    ELSE IF c # Dot THEN [a EXCEPT !.value = IntOf(10 * @ + c - Zero)]
    ELSE IF a.value > 255 THEN [a EXCEPT !.failed = TRUE]
    ELSE [a EXCEPT !.bytes[a.segment + 1] = a.value % 256, !.segment = @ + 1, !.value = 0]

AtonScan(s) ==
    FoldLeft(AtonStep, [failed |-> FALSE, segment |-> 0, value |-> 0, bytes |-> NoAddress], s)

\* The loop that looks for other characters than digits and dots finds none, as its
\* condition holds of every character.  Only the bytes up to `set' are written.
DNSClient_inet_aton ==
    [s \in HostNames |->
       LET a == AtonScan(s)
       IN  [ok |-> ~(a.failed \/ a.segment > 3 \/ a.value > 255),
            set |-> a.segment + 1,
            bytes |-> [i \in 1 .. 4 |-> IF i = a.segment + 1 THEN a.value % 256 ELSE a.bytes[i]]]]
-----------------------------------------------------------------------------
(* The request *)

\* A label on the wire; an empty one is left out.
Label(l) == IF l = <<>> THEN <<>> ELSE <<Len(l)>> \o l

\* A dot ends a label; any other character goes on with it.
NameStep(a, c) ==
    IF c = Dot THEN [out |-> a.out \o Label(a.label), label |-> <<>>]
    ELSE [a EXCEPT !.label = Append(@, c)]

\* Mutant: the label behind the last dot is forgotten.
QuestionName_LastLost(s) ==
    LET f == FoldLeft(NameStep, [out |-> <<>>, label |-> <<>>], s)
    IN  f.out \o <<0>>

\* The name in the question: its labels, each behind its length, and a zero.
QuestionName(s) ==
    LET f == FoldLeft(NameStep, [out |-> <<>>, label |-> <<>>], s)
    IN  f.out \o Label(f.label) \o <<0>>

DNSClient_BuildRequest(id, port, s) ==
    [id |-> id, port |-> port, question |-> QuestionName(s) \o <<0, TypeA, 0, 1>>]
-----------------------------------------------------------------------------
(* The server *)

\* The labels of a name on the wire.
LabelsOf(b) ==
    LET f[p \in 1 .. Len(b)] ==
          IF b[p] = 0 \/ p + b[p] >= Len(b) THEN <<>>
          ELSE <<SubSeq(b, p + 1, p + b[p])>> \o f[p + 1 + b[p]]
    IN  f[1]

\* The name in an answer: a pointer to the one in the question, or all of it.
Owner(q, short) ==
    IF short THEN <<192, 12>> ELSE SubSeq(q, 1, Len(q) - 4)

Resource(owner, r) ==
    owner \o <<0, r.type, 0, 1, 0, 0, 0, 60, 0, Len(r.data)>> \o r.data

\* The question and the records.
Body(question, owner, records) ==
    FoldLeft(LAMBDA b, r : b \o Resource(owner, r), question, records)

Known(q) == LabelsOf(q.question) \in DOMAIN Zone

\* The answer to a request.
Answer(q, short) ==
    LET records == IF Known(q) THEN Zone[LabelsOf(q.question)] ELSE <<>>
    IN  [from |-> DnsServer, question |-> q.question, id |-> q.id, port |-> q.port,
         response |-> TRUE, bad |-> ~Known(q), qd |-> 1, an |-> Len(records),
         body |-> Body(q.question, Owner(q.question, short), records)]
-----------------------------------------------------------------------------
(* The answer, taken apart: EthernetUDP_read and read_buf move along the   *)
(* bytes of the body; p is the next one.                                   *)

\* A byte, or what was there before when none is left (no server's answer is short).
Byte(b, p) == IF p \in DOMAIN b THEN b[p] ELSE 0

Word(b, p) == 256 * Byte(b, p) + Byte(b, p + 1)

\* Over the name of a question.  Behind the last byte the length stays 255, where
\* while(len--) has left it.
SkipQuestionName(b, start) ==
    LET f[p \in Nat] ==
          IF p \notin DOMAIN b THEN Never
          ELSE IF b[p] = 0 THEN p + 1
          ELSE f[p + 1 + b[p]]
    IN  f[start]

\* Mutant: the second byte of a pointer is not skipped.
SkipAnswerName_Short(b, start) ==
    LET f[p \in Nat] ==
          IF p \notin DOMAIN b THEN Never
          ELSE IF b[p] >= 64 \/ b[p] = 0 THEN p + 1
          ELSE f[p + 1 + b[p]]
    IN  f[start]

\* Over the name of an answer, which may end in a pointer.
SkipAnswerName(b, start) ==
    LET f[p \in Nat] ==
          IF p \notin DOMAIN b THEN Never
          ELSE IF b[p] >= 64 THEN p + 2
          ELSE IF b[p] = 0 THEN p + 1
          ELSE f[p + 1 + b[p]]
    IN  f[start]

\* Mutant: the type and the class of a question are not jumped over.
SkipQuestions_NameOnly(b, n) ==
    LET f[i \in 0 .. n] ==
          IF i = 0 THEN 1
          ELSE SkipQuestionName(b, f[i - 1])
    IN  f[n]

SkipQuestions(b, n) ==
    LET f[i \in 0 .. n] ==
          IF i = 0 THEN 1
          ELSE LET p == SkipQuestionName(b, f[i - 1])
               IN  IF p = Never THEN Never ELSE p + 4
    IN  f[n]

Gives(ret, address) == [ret |-> ret, address |-> address]

\* The first of n answers that is an address, from position start on: with the answers
\* that are left, w[1], and the position, w[2].  Behind the name are type, class, time to
\* live, length and data.
FindAddress(b, start, n) ==
    LET f[w \in (0 .. n) \X Nat] ==
          LET p == SkipAnswerName(b, w[2])
          IN  IF w[1] = 0 THEN Gives(-10, NoAddress)
              ELSE IF p = Never THEN Gives(Never, NoAddress)
              ELSE IF Word(b, p) # TypeA \/ Word(b, p + 2) # 1
                   THEN f[<<w[1] - 1, p + 10 + Word(b, p + 8)>>]
              ELSE IF Word(b, p + 8) # 4 THEN Gives(-9, NoAddress)
              ELSE Gives(Success, [k \in 1 .. 4 |-> Byte(b, p + 9 + k)])
    IN  f[<<n, start>>]

\* Mutant: an answer to another request will do.
DNSClient_ProcessResponse_AnyId(d, m) ==
    IF m.from # d.server THEN Gives(InvalidServer, NoAddress)
    ELSE IF ~m.response THEN Gives(-4, NoAddress)
    ELSE IF m.bad THEN Gives(-5, NoAddress)
    ELSE IF m.an = 0 THEN Gives(-6, NoAddress)
    ELSE FindAddress(m.body, SkipQuestions(m.body, m.qd), m.an)

\* What one datagram makes of DNSClient_ProcessResponse.
DNSClient_ProcessResponse(d, m) ==
    IF m.from # d.server THEN Gives(InvalidServer, NoAddress)
    ELSE IF m.id # d.id \/ ~m.response THEN Gives(-4, NoAddress)
    ELSE IF m.bad THEN Gives(-5, NoAddress)
    ELSE IF m.an = 0 THEN Gives(-6, NoAddress)
    ELSE FindAddress(m.body, SkipQuestions(m.body, m.qd), m.an)

\* Its result is a uint16_t.
AsReturned(ret) == ret % 65536
-----------------------------------------------------------------------------
Init ==
    /\ now = 0 /\ pc = "idle"
    /\ dns = NoLookup
    /\ rx = <<>> /\ requests = {} /\ answers = {}
    /\ returned = [ret |-> 0, address |-> NoAddress, name |-> <<>>]
    /\ asked = <<>>

\* The callers go on with the address if the result is 1, and return the result if
\* not: EthernetUDP_beginPacket_host to startUDP, which takes no 0.0.0.0.
Return(name, ret, address) ==
    returned' = [ret |-> IF ret = Success /\ address = NoAddress THEN 0 ELSE ret,
                 address |-> IF ret = Success THEN address ELSE NoAddress,
                 name |-> IF ret = Success THEN name ELSE <<>>]

\* Mutant: the socket is not closed.
EthernetUDP_stop_Open == pc' = "idle" /\ dns' = NoLookup /\ UNCHANGED rx

\* EthernetUDP_stop: the socket is closed and what waits in it is gone.  The
\* DNSClient goes with the call it is a variable of.
EthernetUDP_stop == rx' = <<>> /\ pc' = "idle" /\ dns' = NoLookup

\* A numeric address; the bytes it does not give are those of an uninitialised variable.
LookupNumber(s) ==
    LET a == DNSClient_inet_aton[s]
    IN  \E x \in {0, 255} :
          a.ok /\ Return(s, 1, [i \in 1 .. 4 |-> IF i <= a.set THEN a.bytes[i] ELSE x])

\* A lookup that never gets to use the network: a numeric address, no server, or no
\* free socket for EthernetUDP_begin, when ret is still 0.
LookupHere(s) ==
    /\ pc = "idle"
    /\ \/ LookupNumber(s)
       \/ ~DNSClient_inet_aton[s].ok /\ 0 \in Servers /\ Return(s, InvalidServer, NoAddress)
       \/ ~DNSClient_inet_aton[s].ok /\ Return(s, 0, NoAddress)
    /\ UNCHANGED <<now, pc, dns, rx, net, asked>>

\* DNSClient_getHostByName up to EthernetUDP_endPacket, which tells SEND_OK only if
\* the chip is done already.  If it is not, the lookup is over, and the datagram may
\* have left or be lost with the socket.
DNSClient_getHostByName(s) ==
    /\ pc = "idle" /\ Len(asked) < MaxLookups
    /\ ~DNSClient_inet_aton[s].ok
    /\ \E gap \in 0 .. MaxGap :
          LET t == now + gap
              q == DNSClient_BuildRequest(t % IdSpace, t % PortSpace, s)
          IN  /\ now' = t
              /\ asked' = Append(asked, [id |-> q.id, port |-> q.port, name |-> s])
              /\ \/ /\ requests' = requests \cup {q}
                    /\ pc' = "waiting"
                    /\ dns' = [server |-> DnsServer, id |-> q.id, port |-> q.port, name |-> s,
                               waits |-> 0, start |-> t]
                    /\ UNCHANGED <<rx, returned>>
                 \/ /\ requests' \in {requests, requests \cup {q}}
                    /\ EthernetUDP_stop
                    /\ Return(s, 0, NoAddress)
    /\ UNCHANGED answers

\* The loop around DNSClient_ProcessResponse goes on for another wait, or ends.
EndWait(ret, address) ==
    \/ /\ dns.waits + 1 < 3 /\ ret = TimedOut
       /\ dns' = [dns EXCEPT !.waits = @ + 1, !.start = now]
       /\ UNCHANGED <<pc, rx, returned>>
    \/ /\ ~(dns.waits + 1 < 3 /\ ret = TimedOut)
       /\ EthernetUDP_stop
       /\ Return(dns.name, ret, address)

\* EthernetUDP_parsePacket finds a datagram, behind what is left of the last one.
TakeDatagram ==
    /\ pc = "waiting" /\ rx # <<>>
    /\ UNCHANGED <<now, net, asked>>
    /\ LET r == DNSClient_ProcessResponse(dns, Head(rx))
       IN  \/ r.ret # Never /\ EndWait(AsReturned(r.ret), r.address)
           \/ /\ r.ret = Never
              /\ pc' = "stuck"
              /\ UNCHANGED <<rx, returned, dns>>

TimeIsUp == now - dns.start > Timeout

\* None has come.
GiveUp ==
    /\ pc = "waiting" /\ rx = <<>> /\ TimeIsUp
    /\ EndWait(AsReturned(TimedOut), NoAddress)
    /\ UNCHANGED <<now, net, asked>>

\* delay(50).
Delay ==
    /\ pc = "waiting" /\ rx = <<>> /\ ~TimeIsUp
    /\ now' = now + 1
    /\ UNCHANGED <<pc, dns, rx, net, returned, asked>>
-----------------------------------------------------------------------------
(* The network *)

Client == <<now, pc, dns, returned, asked>>

\* What has been sent stays: it may arrive late, more than once, or never.
ServerAnswers ==
    \E q \in requests, short \in BOOLEAN :
        /\ answers' = answers \cup {Answer(q, short)}
        /\ UNCHANGED <<rx, requests, Client>>

\* An answer reaches the socket that is open on its port.
Deliver ==
    \E m \in answers :
        /\ pc = "waiting" /\ m.port = dns.port /\ Len(rx) < MaxRx
        /\ rx' = Append(rx, m)
        /\ UNCHANGED <<net, Client>>

\* Another host sends something to the port.
Stray ==
    \E h \in Strangers :
        /\ pc = "waiting" /\ Len(rx) < MaxRx
        /\ rx' = Append(rx, [Nothing EXCEPT !.from = h])
        /\ UNCHANGED <<net, Client>>

\* A turn of the loop that waits.
Wait == TakeDatagram \/ GiveUp \/ Delay

Next ==
    \/ \E s \in HostNames : LookupHere(s) \/ DNSClient_getHostByName(s)
    \/ Wait
    \/ ServerAnswers \/ Deliver \/ Stray

Spec == Init /\ [][Next]_vars

\* The task that looks a name up runs; nothing is asked of the network.
FairSpec == Spec /\ WF_vars(Wait)
-----------------------------------------------------------------------------
(* Properties *)

TypeOK ==
    /\ now \in Nat
    /\ pc \in {"idle", "waiting", "stuck"}
    /\ dns \in [server : {0, DnsServer}, id : 0 .. IdSpace - 1, port : 0 .. PortSpace - 1,
                name : HostNames \cup {<<>>}, waits : 0 .. 2, start : 0 .. now]
    /\ asked \in Seq([id : 0 .. IdSpace - 1, port : 0 .. PortSpace - 1, name : HostNames])
    /\ Len(rx) <= MaxRx /\ Len(asked) <= MaxLookups
    /\ pc = "idle" => rx = <<>>

\* Reference: the parts of a name between dots, by another way than the code, without the
\* empty ones; the labels of a name are those parts in order.
Dots(s) == {i \in DOMAIN s : s[i] = Dot} \cup {0, Len(s) + 1}

PartsOf(s) ==
    {d \in Dots(s) \X Dots(s) :
       d[1] + 1 < d[2] /\ \A i \in Dots(s) : ~(d[1] < i /\ i < d[2])}

AreLabelsOf(labels, s) ==
    \E part \in [DOMAIN labels -> PartsOf(s)] :
        /\ \A d \in PartsOf(s) : \E i \in DOMAIN labels : part[i] = d
        /\ \A i, j \in DOMAIN labels : i < j => part[i][1] < part[j][1]
        /\ \A i \in DOMAIN labels : labels[i] = SubSeq(s, part[i][1] + 1, part[i][2] - 1)

\* The names that are numeric addresses.
Numeric == {s \in HostNames : \A i \in DOMAIN s : s[i] = Dot \/ s[i] \in Zero .. Zero + 9}

\* The address the server has for a name: that of the first of its records that is one.
HasAddress(labels) ==
    labels \in DOMAIN Zone /\ \E i \in DOMAIN Zone[labels] : Zone[labels][i].type = TypeA

IsAddress(labels, a) ==
    /\ labels \in DOMAIN Zone
    /\ \E i \in DOMAIN Zone[labels] :
          /\ Zone[labels][i].type = TypeA /\ Zone[labels][i].data = a
          /\ \A j \in 1 .. i - 1 : Zone[labels][j].type # TypeA

\* Two requests of different names that an answer cannot tell apart: the same id
\* and the same port.
Ambiguous(s) ==
    \E i, j \in DOMAIN asked :
        /\ asked[i].name = s /\ asked[j].name # s
        /\ asked[i].id = asked[j].id /\ asked[i].port = asked[j].port

\* A name that is no numeric address is resolved to its own address, whatever late,
\* double or strange datagrams meet the lookup: unless a lookup for another name was
\* made in the same millisecond, as can happen after one that failed at once.
ResolvesToItsAddress ==
    returned.ret = Success /\ returned.name \notin Numeric /\ ~Ambiguous(returned.name) =>
        \E labels \in DOMAIN Zone :
            AreLabelsOf(labels, returned.name) /\ IsAddress(labels, returned.address)

\* An answer of the server to the request that waits gives the address it holds,
\* and no address if and only if it holds none, wherever its names, with or without
\* a pointer, and its other records are.
TakesAnswersApart ==
    [][pc = "waiting" /\ pc' # "waiting" /\ rx # <<>> =>
         LET m == Head(rx)
             labels == LabelsOf(m.question)
         IN  m.from = dns.server /\ m.id = dns.id =>
               IF HasAddress(labels)
               THEN returned'.ret = Success /\ IsAddress(labels, returned'.address)
               ELSE returned'.ret # Success]_vars

\* The server is asked for the name that was given, label by label, wherever dots
\* stand in it.
AsksForTheName ==
    \A q \in requests : \E i \in DOMAIN asked :
        /\ q.id = asked[i].id /\ q.port = asked[i].port
        /\ AreLabelsOf(LabelsOf(q.question), asked[i].name)

\* A lookup comes to an end, with an answer or after the time it waits.
LookupEnds == pc # "idle" ~> pc = "idle"
=============================================================================
