------------------------------ MODULE Bonjour ------------------------------
(***************************************************************************)
(* Multicast DNS of ethernet/EthernetBonjour.c: the device answers for its *)
(* name and its services, announces the services again and again, resolves *)
(* the names of other hosts and discovers their services.                  *)
(*                                                                         *)
(* The library is one loop: the program calls EthernetBonjour_run() again  *)
(* and again, each run reads the clock, handles at most one packet and     *)
(* then looks at its timers.  Callbacks run inside it, and may call back.  *)
(*                                                                         *)
(* A C string is a sequence of words and dots, the name of a host or a     *)
(* service in a packet a sequence of labels that may end in a pointer.  A  *)
(* pointer is a place in the packet; a packet is a sequence of records,    *)
(* and each of them has four places.                                       *)
(***************************************************************************)
EXTENDS Integers, Sequences, FiniteSets, SequencesExt

CONSTANTS
    Hosts,         \* names the device is given, without ".local"
    Services,      \* services it registers: [name, port, proto, text]
    HostNames,     \* names it resolves, without ".local"
    ServiceTypes,  \* services it discovers: [name, proto]
    Timeouts,      \* timeouts its queries are given; 0 is none
    Peer,          \* a host running this library: [name, address]
    Packets,       \* packets that other hosts send
    Junk,          \* what an uninitialized port or place may hold
    NumMDNSServiceRecords,
    MDNS_MAX_SERVICES_PER_PACKET,
    MDNS_NQUERY_RESEND_TIME,
    MDNS_SQUERY_RESEND_TIME,
    MDNS_RESPONSE_TTL,
    ClockSpace,    \* values of millis(), 2^32 in the code
    MaxPause,      \* the longest time from the end of one run to that of the next
    MaxCalls       \* calls of the program, and of its callbacks

VARIABLES
    millis,          \* the clock
    bonjourName,     \* _bonjourName
    serviceRecords,  \* _serviceRecords
    lastAnnounce,    \* _lastAnnounceMillis
    query,           \* _resolveNames, _resolveTimeouts, _resolveLastSendMillis
    asked,           \* Peer has heard the query for its name
    known,           \* how long other hosts will go on to know each service
    calls,           \* calls made so far
    out              \* what the last step took, sent and reported

vars == <<millis, bonjourName, serviceRecords, lastAnnounce, query, asked, known, calls, out>>

-----------------------------------------------------------------------------
(* Strings and names *)

Dot == "."
MDNS_TLD == <<Dot, "local">>
DNS_SD_SERVICE == <<"_services", Dot, "_dns-sd", Dot, "_udp", Dot, "local">>
MDNS_SERVER_PORT == 5353

postfixForProtocol(proto) == (IF proto = "TCP" THEN <<Dot, "_tcp">> ELSE <<Dot, "_udp">>) \o MDNS_TLD

\* The members of a sequence that are in a set, or that are not x, in their order.
Among(s, T) == FoldLeft(LAMBDA r, x : IF x \in T THEN Append(r, x) ELSE r, <<>>, s)
Without(s, x) == Among(s, ToSet(s) \ {x})

Dots(str) == {k \in DOMAIN str : str[k] = Dot}

\* The string as labels, as it is written to a packet.
writeDNSName(str) ==
    LET Add(ls, c) == IF c = Dot THEN Append(ls, <<>>) ELSE [ls EXCEPT ![Len(ls)] = Append(@, c)]
    IN  [labels |-> Without(FoldLeft(Add, << <<>> >>, str), <<>>), ptr |-> 0]

BeforeFirstDot(str) == SubSeq(str, 1, Min(Dots(str)) - 1)
BeforeLastDot(str) == SubSeq(str, 1, Max(Dots(str)) - 1)
findFirstDotFromRight(str) == SubSeq(str, Max(Dots(str)) + 1, Len(str))

servName(s) == findFirstDotFromRight(s.name) \o postfixForProtocol(s.proto)

\* What is left of a string once a label has matched its beginning; NoMatch,
\* where it has not.
NoMatch == <<Dot>>
\* Mutant: only the lengths are compared.
matchStringPart_Lengths(str, label) ==
    IF Len(label) <= Len(str)
    THEN LET rest == SubSeq(str, Len(label) + 1, Len(str))
         IN  IF IsPrefix(<<Dot>>, rest) THEN Tail(rest) ELSE rest
    ELSE NoMatch

matchStringPart(str, label) ==
    IF IsPrefix(label, str)
    THEN LET rest == SubSeq(str, Len(label) + 1, Len(str))
         IN  IF IsPrefix(<<Dot>>, rest) THEN Tail(rest) ELSE rest
    ELSE NoMatch

Unmatched(str, labels) == FoldLeft(matchStringPart, str, labels)

-----------------------------------------------------------------------------
(* Packets *)

NoData == [address |-> 0, port |-> 0, name |-> [labels |-> <<>>, ptr |-> 0], text |-> <<>>]

Record(name, type, ttl, data) == [name |-> name, type |-> type, ttl |-> ttl, data |-> data]
Question(name, type) == Record(name, type, 0, NoData)

writeMyIPAnswerRecord(host, address) ==
    Record(writeDNSName(host), "A", MDNS_RESPONSE_TTL, [NoData EXCEPT !.address = address])

writeServiceRecordName(s, tld) ==
    writeDNSName(IF tld THEN servName(s) ELSE s.name \o postfixForProtocol(s.proto))

writeServiceRecordPTR(s, ttl) ==
    Record(writeServiceRecordName(s, TRUE), "PTR", ttl,
           [NoData EXCEPT !.name = writeServiceRecordName(s, FALSE)])

ServiceAnswers(host, s) ==
    << Record(writeServiceRecordName(s, FALSE), "SRV", MDNS_RESPONSE_TTL,
              [NoData EXCEPT !.port = s.port, !.name = writeDNSName(host)]),
       Record(writeServiceRecordName(s, FALSE), "TXT", MDNS_RESPONSE_TTL, [NoData EXCEPT !.text = s.text]),
       Record(writeDNSName(DNS_SD_SERVICE), "PTR", MDNS_RESPONSE_TTL,
              [NoData EXCEPT !.name = writeServiceRecordName(s, TRUE)]),
       writeServiceRecordPTR(s, MDNS_RESPONSE_TTL) >>

Packet(response, questions, answers, additional) ==
    [response |-> response, port |-> MDNS_SERVER_PORT,
     questions |-> questions, answers |-> answers, additional |-> additional]
NoPacket == Packet(FALSE, <<>>, <<>>, <<>>)

\* A message to send: its type, the service it is about, the name it asks for.
NoService == [name |-> <<>>, port |-> 0, proto |-> "TCP", text |-> <<>>]
Message(type) == [type |-> type, service |-> NoService, name |-> <<>>]
AboutService(type, s) == [Message(type) EXCEPT !.service = s]
QueryFor(i, name) == [Message(<<"NameQuery", "ServiceQuery">>[i + 1]) EXCEPT !.name = name]

sendMDNSMessage(m, host, address) ==
    LET me == writeMyIPAnswerRecord(host, address) IN
    CASE m.type = "MyIPAnswer" -> Packet(TRUE, <<>>, <<me>>, <<>>)
      [] m.type = "ServiceRecord" -> Packet(TRUE, <<>>, ServiceAnswers(host, m.service), <<me>>)
      [] m.type = "ServiceRecordRelease" ->
            Packet(TRUE, <<>>, <<writeServiceRecordPTR(m.service, 0)>>, <<>>)
      [] m.type = "NameQuery" -> Packet(FALSE, <<Question(writeDNSName(m.name), "A")>>, <<>>, <<>>)
      [] m.type = "ServiceQuery" -> Packet(FALSE, <<Question(writeDNSName(m.name), "PTR")>>, <<>>, <<>>)
      [] m.type = "NoIPv6AddrAvailable" ->
            Packet(TRUE, <<Question(writeDNSName(host), "AAAA")>>, <<>>, <<me>>)

-----------------------------------------------------------------------------
(* The constants *)

\* The labels of a name have no dots of their own, and none is empty: an empty
\* one ends the name.
Names == [labels : Seq(Seq({w \in STRING : w # Dot}) \ {<<>>}), ptr : Nat]
Records == [name : Names, type : STRING, ttl : Nat,
            data : [address : Nat, port : Nat, name : Names, text : Seq(STRING)]]
MDNSPackets == [response : BOOLEAN, port : Nat, questions : Seq(Records),
                answers : Seq(Records), additional : Seq(Records)]

\* Names are made of strings, and an empty slot is told from a service.  Services
\* are announced again before they are forgotten if the last quarter of
\* MDNS_RESPONSE_TTL is longer than the time between two readings of the clock.
ASSUME BonjourAssumption ==
    /\ {Dot, "local", "_tcp", "_udp", "_services", "_dns-sd", "A"} \subseteq STRING
    /\ Hosts \union HostNames \subseteq Seq(STRING)
    /\ Services \subseteq [name : Seq(STRING), port : Nat, proto : {"TCP", "UDP"}, text : Seq(STRING)]
    /\ NoService \notin Services
    /\ ServiceTypes \subseteq [name : Seq(STRING), proto : {"TCP", "UDP"}]
    /\ Peer \in [name : Seq(STRING), address : Nat]
    /\ Packets \subseteq MDNSPackets
    /\ Timeouts \union Junk \subseteq Nat
    /\ {NumMDNSServiceRecords, MDNS_MAX_SERVICES_PER_PACKET, MDNS_NQUERY_RESEND_TIME,
        MDNS_SQUERY_RESEND_TIME, MDNS_RESPONSE_TTL, ClockSpace, MaxPause, MaxCalls} \subseteq Nat
    /\ 8 * MaxPause < MDNS_RESPONSE_TTL /\ MDNS_RESPONSE_TTL < ClockSpace

-----------------------------------------------------------------------------
(* Questions of other hosts *)

Slots == 1..NumMDNSServiceRecords

\* The names questions are compared with: 0 is the name of the device, 1 that
\* of service discovery, slot + 1 a service; an empty slot has no name.
servNames(j) ==
    CASE j = 0 -> bonjourName
      [] j = 1 -> DNS_SD_SERVICE
      [] OTHER -> IF serviceRecords[j - 1] = NoService THEN NoMatch ELSE servName(serviceRecords[j - 1])

\* One question: what it adds to the records asked for.  A name once asked
\* for is not looked at again.
HandleQuestion(asks, q) ==
    LET hits == {j \in 0..(NumMDNSServiceRecords + 1) \ asks.records :
                    Unmatched(servNames(j), q.name.labels) = <<>>}
    IN  [records |-> asks.records \union
                        {j \in hits : q.type \in IF j = 0 THEN {"A"} ELSE {"PTR", "TXT", "SRV"}},
         wantsIPv6Addr |-> asks.wantsIPv6Addr \/ (0 \in hits /\ q.type = "AAAA")]

RecordsAskedFor(p) ==
    FoldLeft(HandleQuestion, [records |-> {}, wantsIPv6Addr |-> FALSE],
             IF ~p.response /\ p.port = MDNS_SERVER_PORT THEN p.questions ELSE <<>>)

\* The messages that answer them; service discovery asks for every service.
Registered(slots) == Among(slots, {k \in Slots : serviceRecords[k] # NoService})
Announcements(slots) ==
    LET ks == Registered(slots) IN [n \in DOMAIN ks |-> AboutService("ServiceRecord", serviceRecords[ks[n]])]

\* Mutant: service discovery asks for no service.
HandleRequests_NoDiscovery(asks) ==
    LET slots == Among([k \in Slots |-> k], {k \in Slots : k + 1 \in asks.records})
    IN  (IF 0 \in asks.records THEN <<Message("MyIPAnswer")>> ELSE <<>>)
        \o Announcements(slots)
        \o (IF asks.wantsIPv6Addr THEN <<Message("NoIPv6AddrAvailable")>> ELSE <<>>)

HandleRequests(asks) ==
    LET slots == Among([k \in Slots |-> k], {k \in Slots : {1, k + 1} \intersect asks.records # {}})
    IN  (IF 0 \in asks.records THEN <<Message("MyIPAnswer")>> ELSE <<>>)
        \o Announcements(slots)
        \o (IF asks.wantsIPv6Addr THEN <<Message("NoIPv6AddrAvailable")>> ELSE <<>>)

-----------------------------------------------------------------------------
(* Queries of the device: 0 for a name, 1 for a service *)

Closed == [name |-> <<>>, timeout |-> 0, last |-> 0]
IsOpen(q) == q.name # <<>>

\* What happens while packets and timers are handled: the queries, and what
\* is sent, reported and begun.
Quiet == [query |-> query, sent |-> <<>>, told |-> <<>>, found |-> <<>>, begun |-> {}]

Sends(dev, ms) == [dev EXCEPT !.sent = @ \o ms]

SendQuery(dev, i, at) ==
    [Sends(dev, <<QueryFor(i, dev.query[i].name)>>) EXCEPT !.query[i].last = at]

\* Mutant: the deadline is kept wider than the clock.
initQuery_Wide(dev, i, name, timeout, at) ==
    LET deadline == IF timeout = 0 THEN 0 ELSE at + timeout
    IN  SendQuery([dev EXCEPT !.query[i] = [name |-> name, timeout |-> deadline, last |-> at],
                              !.begun = @ \union {i}], i, at)

\* resolveName and startDiscoveringService: the query that is open is dropped.
initQuery(dev, i, name, timeout, at) ==
    LET deadline == IF timeout = 0 THEN 0 ELSE (at + timeout) % ClockSpace
    IN  SendQuery([dev EXCEPT !.query[i] = [name |-> name, timeout |-> deadline, last |-> at],
                              !.begun = @ \union {i}], i, at)

cancelQuery(dev, i) == [dev EXCEPT !.query[i] = Closed]

\* Calls a program makes, also out of the callback for a name.
NoCall == [i |-> 0, name |-> <<>>, timeout |-> 0]
Calls == [i : {0}, name : {h \o MDNS_TLD : h \in HostNames}, timeout : Timeouts]
         \union [i : {1}, name : {t.name \o postfixForProtocol(t.proto) : t \in ServiceTypes}, timeout : Timeouts]

DoCall(dev, c, at) == IF c = NoCall THEN dev ELSE initQuery(dev, c.i, c.name, c.timeout, at)

\* Mutant: the query stays open.
finishedResolvingName_Open(dev, address, then, at) ==
    LET told == [dev EXCEPT !.told = Append(@, [name |-> BeforeLastDot(dev.query[0].name), address |-> address])]
    IN  DoCall(told, then, at)

\* The callback is called, and then the query closed, whichever it is by now.
finishedResolvingName(dev, address, then, at) ==
    LET told == [dev EXCEPT !.told = Append(@, [name |-> BeforeLastDot(dev.query[0].name), address |-> address])]
    IN  cancelQuery(DoCall(told, then, at), 0)

-----------------------------------------------------------------------------
(* Answers of other hosts *)

\* The places of record i: where its name begins, where its data begin, where
\* the target of an SRV record is, and one inside its name.
NamePos(i) == 4 * i
DataPos(i) == 4 * i + 1
TargetPos(i) == 4 * i + 2
SkewedPos(i) == 4 * i + 3

\* Whether the record answers query j: its labels spell the name, or they are
\* followed by a pointer and a guess is made.
Answers(st, j, r) ==
    LET open     == st.dev.query[j].name
        labels   == r.name.labels
        skipped  == j \in st.recordsFound
        rest     == IF skipped THEN open ELSE Unmatched(open, labels)
        compressed == r.name.ptr # 0
        samePlace  == st.servNamePos[j] \in {0, r.name.ptr}
        matches     == rest # NoMatch /\ (compressed => samePlace)
        partMatched == labels # <<>> /\ (skipped \/ matchStringPart(open, labels[1]) # NoMatch)
    IN  /\ open # <<>>
        /\ \/ matches /\ rest = <<>>
           \/ partMatched /\ compressed
           \/ matches /\ compressed /\ samePlace

\* The name of a service: the first label, if a pointer follows it; otherwise
\* all that was written, lengths included, as nothing ends the string.
ptrName(name) ==
    IF name.ptr # 0 /\ Len(name.labels) = 1
    THEN name.labels[1]
    ELSE FoldLeft(LAMBDA s, l : IF s = <<>> THEN l ELSE s \o <<"#">> \o l, <<>>, name.labels)

\* A PTR record for the service looked for: one more service is found, its
\* port and the place of its address not initialized.
HandlePTR(st, r, i, junk) ==
    IF Len(st.ptrs) < MDNS_MAX_SERVICES_PER_PACKET
    THEN [st EXCEPT !.ptrs = Append(@, [name |-> ptrName(r.data.name), at |-> DataPos(i),
                                        port |-> junk, ip |-> junk, text |-> <<>>])]
    ELSE st

HandleAnswer(st, r, i, then, at, junk) ==
    LET byName    == Answers(st, 0, r) /\ r.type = "A"
        Place(j)  == IF st.servNamePos[j] # 0 THEN st.servNamePos[j]
                     ELSE IF j = 1 /\ byName THEN SkewedPos(i) ELSE NamePos(i)
        placed    == [st EXCEPT !.servNamePos = [j \in {0, 1} |-> Place(j)]]
        \* The place counts at once: a pointer is compared with it before.
        byService == Answers(st, 1, r) /\ r.type = "PTR"
    IN  IF byName
        THEN [placed EXCEPT !.recordsFound = @ \union {0},
                            !.dev = finishedResolvingName(@, r.data.address, then, at)]
        ELSE IF byService
        THEN HandlePTR([placed EXCEPT !.recordsFound = @ \union {1}], r, i, junk)
        ELSE placed

\* The characters of a string.
Chars(str) == FoldLeft(LAMBDA n, w : n + Len(w), 0, str)

\* An additional record and the services found so far.  A label that is longer
\* than what is left of the service's name is passed over.
Describes(p, r, i) ==
    LET first == IF r.name.labels # <<>> THEN NamePos(i) ELSE r.name.ptr
        Strip(s, l) == IF Chars(s) < Chars(l) THEN s ELSE matchStringPart(s, l)
    IN  first = p.at \/ FoldLeft(Strip, p.name, r.name.labels) = <<>>

\* Mutant: what describes a service counts for the first that was found.
HandleAdditional_First(st, r, i) ==
    LET target == r.data.name
        first  == IF r.name.labels # <<>> THEN NamePos(i) ELSE r.name.ptr
    IN  CASE r.type = "SRV" ->
                [st EXCEPT !.ptrs[1].port = r.data.port,
                           !.ptrs[1].ip = IF target.labels = <<>> THEN target.ptr ELSE TargetPos(i)]
          [] r.type = "TXT" -> [st EXCEPT !.ptrs[1].text = IF @ = <<>> THEN r.data.text ELSE @]
          [] r.type = "A" /\ Len(st.ips) < MDNS_MAX_SERVICES_PER_PACKET ->
                [st EXCEPT !.ips = Append(@, [at |-> first, address |-> r.data.address])]
          [] OTHER -> st

HandleAdditional(st, r, i) ==
    LET ks == {k \in DOMAIN st.ptrs : Describes(st.ptrs[k], r, i)}
        k  == Min(ks)
        target == r.data.name
        first  == IF r.name.labels # <<>> THEN NamePos(i) ELSE r.name.ptr
    IN  CASE r.type = "SRV" /\ ks # {} ->
                [st EXCEPT !.ptrs[k].port = r.data.port,
                           !.ptrs[k].ip = IF target.labels = <<>> THEN target.ptr ELSE TargetPos(i)]
          [] r.type = "TXT" /\ ks # {} ->
                [st EXCEPT !.ptrs[k].text = IF @ = <<>> THEN r.data.text ELSE @]
          [] r.type = "A" /\ Len(st.ips) < MDNS_MAX_SERVICES_PER_PACKET ->
                [st EXCEPT !.ips = Append(@, [at |-> first, address |-> r.data.address])]
          [] OTHER -> st

\* The answers in turn, and then the additional records, if a service was found.
Parse(p, then, at, junk) ==
    LET before == Len(p.questions)
        start == [dev |-> Quiet, servNamePos |-> [j \in {0, 1} |-> 0], recordsFound |-> {},
                  ptrs |-> <<>>, ips |-> <<>>]
        answered == FoldLeftDomain(LAMBDA st, i : HandleAnswer(st, p.answers[i], before + i, then, at, junk),
                                   start, p.answers)
        after == before + Len(p.answers)
    IN  IF answered.ptrs = <<>> THEN answered
        ELSE FoldLeftDomain(LAMBDA st, i : HandleAdditional(st, p.additional[i], after + i),
                            answered, p.additional)

\* The address of a service: that of the first record in its place, an unused
\* one being in place 0, or else the first address there is.
NoAddress == -1
AddressOf(ptr, ips) ==
    LET At(k) == IF k \in DOMAIN ips THEN ips[k] ELSE [at |-> 0, address |-> 0]
        ks    == {k \in 1..MDNS_MAX_SERVICES_PER_PACKET : At(k).at = ptr.ip}
    IN  IF ks # {} THEN At(Min(ks)).address ELSE IF ips # <<>> THEN ips[1].address ELSE NoAddress

\* A report of a service to the program.
Found(type, name, port, address, text) ==
    [type |-> type, name |-> name, port |-> port, address |-> address, text |-> text]

Deliver(st) ==
    LET type == BeforeFirstDot(st.dev.query[1].name)
        Report(ptr) == Found(type, ptr.name, ptr.port, AddressOf(ptr, st.ips), ptr.text)
        addressed == SelectSeq(st.ptrs, LAMBDA ptr : AddressOf(ptr, st.ips) # NoAddress)
    IN  IF IsOpen(st.dev.query[1])
        THEN [st.dev EXCEPT !.found = [k \in DOMAIN addressed |-> Report(addressed[k])]]
        ELSE st.dev

HandleResponse(p, then, at, junk) ==
    IF p.response /\ p.port = MDNS_SERVER_PORT /\ \E i \in {0, 1} : IsOpen(query[i])
    THEN Deliver(Parse(p, then, at, junk))
    ELSE Quiet

processMDNSQuery(p, then, at, junk) ==
    Sends(HandleResponse(p, then, at, junk), HandleRequests(RecordsAskedFor(p)))

-----------------------------------------------------------------------------
(* The loop *)

\* The time between two readings of the clock, whichever is the later.
Elapsed(now, last) == (now - last) % ClockSpace

\* Mutant: a query is sent once.
Resend_Never(dev, i, now, at) == dev

Resend(dev, i, now, at) ==
    IF /\ IsOpen(dev.query[i])
       /\ Elapsed(now, dev.query[i].last) > IF i = 0 THEN MDNS_NQUERY_RESEND_TIME ELSE MDNS_SQUERY_RESEND_TIME
    THEN SendQuery(dev, i, at)
    ELSE dev

\* Mutant: only a query for a name times out.
TimedOut_NamesOnly(dev, i, now) ==
    i = 0 /\ IsOpen(dev.query[0]) /\ dev.query[0].timeout > 0 /\ now > dev.query[0].timeout

TimedOut(dev, i, now) == IsOpen(dev.query[i]) /\ dev.query[i].timeout > 0 /\ now > dev.query[i].timeout

CheckName(dev, now, then, at) ==
    LET sent == Resend(dev, 0, now, at)
    IN  IF TimedOut(sent, 0, now) THEN finishedResolvingName(sent, 0, then, at) ELSE sent

CheckService(dev, now, at) ==
    LET sent == Resend(dev, 1, now, at)
        over == Found(BeforeFirstDot(sent.query[1].name), <<>>, 0, NoAddress, <<>>)
    IN  IF TimedOut(sent, 1, now) THEN [cancelQuery(sent, 1) EXCEPT !.found = Append(@, over)] ELSE sent

\* Mutant: services are announced when they are about to be forgotten.
AnnounceTime_Late == MDNS_RESPONSE_TTL

AnnounceTime == MDNS_RESPONSE_TTL \div 2 + MDNS_RESPONSE_TTL \div 4
AnnounceDue(now) == Elapsed(now, lastAnnounce) > AnnounceTime

\* A run that reads the clock at now and sends what it sends at "at".
RunAt(p, now, at, then, junk) ==
    LET checked == CheckService(CheckName(processMDNSQuery(p, then, at, junk), now, then, at), now, at)
    IN  IF AnnounceDue(now) THEN Sends(checked, Announcements([k \in Slots |-> k])) ELSE checked

-----------------------------------------------------------------------------
(* Other hosts: what they know of the services, and whether Peer was asked *)

\* After some messages, and some time.
KnownAfter(ms, time) ==
    [s \in Services |->
        LET about == {n \in DOMAIN ms : ms[n].service = s} IN
        IF about = {} THEN Max({0, known[s] - time})
        ELSE IF ms[Max(about)].type = "ServiceRecord" THEN MDNS_RESPONSE_TTL ELSE 0]

PeerAnswer == sendMDNSMessage(Message("MyIPAnswer"), Peer.name \o MDNS_TLD, Peer.address)

Outcome(dev, p) ==
    [packet |-> p, sent |-> dev.sent, told |-> dev.told, found |-> dev.found, begun |-> dev.begun]

\* The effect of a step: what the device has done, and how long it has taken.
Step(dev, p, time) ==
    /\ query' = dev.query
    /\ known' = KnownAfter(dev.sent, time)
    /\ millis' = (millis + time) % ClockSpace
    /\ out' = Outcome(dev, p)

-----------------------------------------------------------------------------
(* Actions *)

Init ==
    /\ millis = 0
    /\ bonjourName \in {h \o MDNS_TLD : h \in Hosts}
    /\ serviceRecords = [k \in Slots |-> NoService]
    /\ lastAnnounce = 0
    /\ query = [i \in {0, 1} |-> Closed]
    /\ asked = FALSE
    /\ known = [s \in Services |-> 0]
    /\ calls = 0
    /\ out = Outcome(Quiet, NoPacket)

\* Time may pass before a run reads the clock, and after.
Run(p, before, during, then, junk) ==
    LET now == (millis + before) % ClockSpace
        at  == (now + during) % ClockSpace
        dev == RunAt(p, now, at, then, junk)
        asks == then # NoCall
    IN  /\ before + during <= MaxPause
        /\ asks => calls < MaxCalls /\ dev.begun # {}
        /\ Step(dev, p, before + during)
        /\ lastAnnounce' = IF AnnounceDue(now) THEN now ELSE lastAnnounce
        /\ calls' = IF asks THEN calls + 1 ELSE calls
        /\ UNCHANGED <<bonjourName, serviceRecords>>

RunOn(packets) ==
    \E p \in packets, before, during \in 0..MaxPause, then \in Calls \union {NoCall}, junk \in Junk :
        Run(p, before, during, then, junk)

EthernetBonjour_run == RunOn(Packets \union {NoPacket}) /\ UNCHANGED asked

\* A call of the program.
Call(dev) == calls < MaxCalls /\ calls' = calls + 1 /\ Step(dev, NoPacket, 0) /\ UNCHANGED <<lastAnnounce, asked>>

EthernetBonjour_resolve ==
    \E c \in Calls : Call(DoCall(Quiet, c, millis)) /\ UNCHANGED <<bonjourName, serviceRecords>>

EthernetBonjour_cancel ==
    \E i \in {0, 1} :
        /\ IsOpen(query[i])
        /\ Call(cancelQuery(Quiet, i))
        /\ UNCHANGED <<bonjourName, serviceRecords>>

EthernetBonjour_setBonjourName ==
    \E h \in Hosts :
        /\ Call(Quiet)
        /\ bonjourName' = h \o MDNS_TLD
        /\ UNCHANGED serviceRecords

\* A service goes to the first empty slot and is announced.  No service is
\* registered twice.
EthernetBonjour_addServiceRecord ==
    \E s \in Services :
        LET empty == {k \in Slots : serviceRecords[k] = NoService} IN
        /\ \A k \in Slots : serviceRecords[k] # s
        /\ empty # {}
        /\ serviceRecords' = [serviceRecords EXCEPT ![Min(empty)] = s]
        /\ Call(Sends(Quiet, <<AboutService("ServiceRecord", s)>>))
        /\ UNCHANGED bonjourName

Release(slots) ==
    LET ks == Registered(slots) IN
    /\ Call(Sends(Quiet, [n \in DOMAIN ks |-> AboutService("ServiceRecordRelease", serviceRecords[ks[n]])]))
    /\ serviceRecords' = [k \in Slots |-> IF k \in ToSet(ks) THEN NoService ELSE serviceRecords[k]]
    /\ UNCHANGED bonjourName

\* The first slot with this port and protocol.  An empty slot is read as well,
\* through a null pointer: where it happens to match, nothing is removed.
EthernetBonjour_removeServiceRecord ==
    \E s \in Services :
        LET same == {k \in Slots : serviceRecords[k].port = s.port /\ serviceRecords[k].proto = s.proto}
            IsHole(k) == serviceRecords[k] = NoService /\ \A h \in same : k < h
        IN  \/ same # {} /\ Release(<<Min(same)>>)
            \/ (\E k \in Slots : IsHole(k)) /\ Release(<<>>)

EthernetBonjour_removeAllServiceRecords == Release([k \in Slots |-> k])

\* Peer hears the query for its name, if it was not lost; the next run takes
\* the answer.
PeerHears ==
    /\ ~asked
    /\ \E n \in DOMAIN out.sent : out.sent[n] = QueryFor(0, Peer.name \o MDNS_TLD)
    /\ asked' = TRUE
    /\ out' = Outcome(Quiet, NoPacket)
    /\ UNCHANGED <<millis, bonjourName, serviceRecords, lastAnnounce, query, known, calls>>

PeerIsAnswered == asked /\ RunOn({PeerAnswer}) /\ asked' = FALSE

Next ==
    \/ EthernetBonjour_run
    \/ EthernetBonjour_resolve
    \/ EthernetBonjour_cancel
    \/ EthernetBonjour_setBonjourName
    \/ EthernetBonjour_addServiceRecord
    \/ EthernetBonjour_removeServiceRecord
    \/ EthernetBonjour_removeAllServiceRecords
    \/ PeerHears
    \/ PeerIsAnswered

Spec == Init /\ [][Next]_vars

\* The program goes on calling run() and time passes in it: weak fairness of
\* a run that takes time, which is always possible, says that the clock goes
\* round.  Peer does not miss every query, and each it hears is answered:
\* PeerIsAnswered is possible as long as Peer was asked.
FairSpec ==
    /\ Spec
    /\ []<>(millis = 0) /\ []<>(millis # 0)
    /\ SF_vars(PeerHears)
    /\ []<>(~asked)

-----------------------------------------------------------------------------
(* Properties *)

Messages == {"MyIPAnswer", "NoIPv6AddrAvailable", "ServiceRecord", "ServiceRecordRelease",
             "NameQuery", "ServiceQuery"}

\* The variables keep their types.
TypeOK ==
    /\ millis \in 0..(ClockSpace - 1)
    /\ bonjourName \in {h \o MDNS_TLD : h \in Hosts}
    /\ serviceRecords \in [Slots -> Services \union {NoService}]
    /\ lastAnnounce \in 0..(ClockSpace - 1)
    /\ \A i \in {0, 1} :
        /\ query[i].name \in {<<>>} \union {c.name : c \in {d \in Calls : d.i = i}}
        /\ {query[i].timeout, query[i].last} \subseteq 0..(ClockSpace - 1)
    /\ asked \in BOOLEAN
    /\ known \in [Services -> 0..MDNS_RESPONSE_TTL]
    /\ calls \in 0..MaxCalls
    /\ \A n \in DOMAIN out.sent : out.sent[n].type \in Messages

\* As long as run() is called often enough, other hosts never stop knowing a
\* service that is registered: it is announced before they forget it.  One
\* that was removed they know no longer.
StaysKnown == \A s \in Services : (known[s] > 0) <=> (\E k \in Slots : serviceRecords[k] = s)

\* The program is called back for the query that is open, once, and that query
\* is open no longer: one that is open then was begun by the callback.
AnsweredOnce ==
    [][out'.told # <<>> =>
            /\ Len(out'.told) = 1
            /\ IsOpen(query[0]) /\ out'.told[1].name = BeforeLastDot(query[0].name)
            /\ 0 \in out'.begun \/ ~IsOpen(query'[0])]_vars

\* Labels that make up a name, wherever its dots are.
Spell(labels, str) == FoldLeft(LAMBDA s, l : s \o l, <<>>, labels) = Without(str, Dot)

\* The address a name is told to have is that of an answer which spells the
\* name, unless a pointer leaves it open how the answer spells it.
TellsWhatWasAnswered ==
    [][\A n \in DOMAIN out'.told : out'.told[n].address # 0 =>
            \E k \in DOMAIN out'.packet.answers :
                LET r == out'.packet.answers[k] IN
                /\ r.type = "A" /\ r.data.address = out'.told[n].address
                /\ r.name.ptr # 0 \/ Spell(r.name.labels, query[0].name)]_vars

\* A question asked for in full, and of these types.
AsksFor(p, str, types) ==
    /\ ~p.response /\ p.port = MDNS_SERVER_PORT
    /\ \E k \in DOMAIN p.questions : p.questions[k].type \in types /\ p.questions[k].name = writeDNSName(str)

\* The device answers what other hosts ask for and it has, several questions
\* of a packet as well, and gives its address to none that did not ask.
AnswersWhatIsAsked ==
    [][LET p == out'.packet
           sent == ToSet(out'.sent)
       IN  /\ (Message("MyIPAnswer") \in sent) <=> AsksFor(p, bonjourName, {"A"})
           /\ Message("NoIPv6AddrAvailable") \in sent => AsksFor(p, bonjourName, {"AAAA"})
           /\ \A k \in Slots :
                LET s == serviceRecords[k] IN
                /\ s # NoService
                /\ \/ AsksFor(p, servName(s), {"PTR", "SRV", "TXT"})
                   \/ AsksFor(p, DNS_SD_SERVICE, {"PTR", "SRV", "TXT"})
                => AboutService("ServiceRecord", s) \in sent]_vars

\* A name: words between its dots, none of them missing.
IsName(str) ==
    /\ str \in Seq(STRING) /\ str # <<>>
    /\ \A i \in 1..Len(str) : str[i] = Dot => i # 1 /\ i # Len(str) /\ str[i + 1] # Dot

\* Where AnswersWhatIsAsked can be expected: the device answers to names, and a
\* question that spells its name has the words of the name in labels as its dots say.
OwnNames == (\A h \in Hosts : IsName(h \o MDNS_TLD)) /\ (\A s \in Services : IsName(servName(s)))

AsksByName(p) ==
    \A h \in Hosts : \A k \in DOMAIN p.questions :
        LET own == h \o MDNS_TLD IN
        Spell(p.questions[k].name.labels, own) => p.questions[k].name = writeDNSName(own)
AskedByName == \A p \in Packets : AsksByName(p)

\* How RFC 1035 reads a name: a pointer stands for the name in its place, one
\* into a name for its last label.  No packet here nests them deeper.
NameAt(p, place) ==
    LET r == (p.questions \o p.answers \o p.additional)[place \div 4]
    IN  CASE place % 4 = 0 -> r.name
          [] place % 4 = 3 -> [labels |-> <<r.name.labels[Len(r.name.labels)]>>, ptr |-> 0]
          [] OTHER -> r.data.name
FullName(p, name) ==
    LET Follow(nm) == IF nm.ptr = 0 THEN nm
                      ELSE [NameAt(p, nm.ptr) EXCEPT !.labels = nm.labels \o @]
    IN  Follow(Follow(Follow(name))).labels

\* The services of a type that a packet describes.
Described(p, type) ==
    LET Has(r, t, labels) == r.type = t /\ FullName(p, r.name) = labels
        all == ToSet(p.additional)
        Texts(labels) == {t \in all : Has(t, "TXT", labels)}
        text(labels) == IF Texts(labels) = {} THEN <<>> ELSE (CHOOSE t \in Texts(labels) : TRUE).data.text
        Triples == {t \in ToSet(p.answers) \X all \X all :
                    /\ Has(t[1], "PTR", writeDNSName(type).labels)
                    /\ Has(t[2], "SRV", FullName(p, t[1].data.name))
                    /\ Has(t[3], "A", FullName(p, t[2].data.name))}
    IN  {Found(BeforeFirstDot(type), t[1].data.name.labels[1], t[2].data.port, t[3].data.address,
               text(FullName(p, t[1].data.name))) : t \in Triples}

\* The form responders give to services: the type is written out once and
\* pointed to from then on, and so is the name of each service; the services
\* fit, and each has its SRV record and the address of its target.
Compressed(p, type) ==
    LET q == Len(p.questions)
        a == Len(p.answers)
        place(k) == DataPos(q + k)
        Additional(t) == {k \in DOMAIN p.additional : p.additional[k].type = t}
        Bare(name, places) == name.labels = <<>> /\ name.ptr \in places
    IN  /\ p.response /\ p.port = MDNS_SERVER_PORT
        /\ a \in 1..MDNS_MAX_SERVICES_PER_PACKET
        /\ \A k \in 1..a :
            /\ p.answers[k].type = "PTR"
            /\ p.answers[k].name = writeDNSName(type) \/ (k > 1 /\ Bare(p.answers[k].name, {NamePos(q + 1)}))
            /\ k > 1 => p.answers[k].name.ptr # 0
            /\ Len(p.answers[k].data.name.labels) = 1 /\ p.answers[k].data.name.ptr = NamePos(q + 1)
            /\ \E v \in Additional("SRV") : p.additional[v].name.ptr = place(k)
        /\ \A v \in Additional("SRV") \union Additional("TXT") :
                Bare(p.additional[v].name, {place(k) : k \in 1..a})
        /\ \A v \in Additional("SRV") :
            \E t \in Additional("SRV"), h \in Additional("A") :
                /\ p.additional[t].data.name.labels # <<>>
                /\ t = v \/ Bare(p.additional[v].data.name, {TargetPos(q + a + t)})
                /\ Bare(p.additional[h].name, {TargetPos(q + a + t)})

\* Services described in that form reach the program as they are, each with
\* its own name, port, address and text.
FindsServices ==
    [][IsOpen(query[1]) /\ Compressed(out'.packet, query[1].name) =>
            Described(out'.packet, query[1].name) \subseteq ToSet(out'.found)]_vars

\* UnitTest.c:237 says that a query is sent again until there is an answer or
\* it times out, and that the callback is called in either case.  So a query
\* that was begun is open, unless its callback has been called.
BegunIsOpen ==
    [][/\ 0 \in out'.begun => IsOpen(query'[0])
       /\ 1 \in out'.begun => IsOpen(query'[1]) \/ out'.found # <<>>]_vars

\* A query with a timeout ends, or one without takes its place.  (A deadline
\* in the last moments before the clock starts again may be missed.)
HasDeadline(i) == IsOpen(query[i]) /\ query[i].timeout \in 1..(ClockSpace - 1 - 2 * MaxPause)

QueryEnds == \A i \in {0, 1} : HasDeadline(i) ~> ~HasDeadline(i)

\* Also without a timeout the query for a name ends, if its host answers what
\* it hears: however many queries are lost, there is another.
NameIsResolved == (query[0].name = Peer.name \o MDNS_TLD) ~> ~IsOpen(query[0])
=============================================================================
