----------------------------- MODULE MCBonjour -----------------------------
(* Bonjour with a device of one or two names, two services, and packets of *)
(* this library and of others.                                             *)
EXTENDS Bonjour

MCHosts == {<<"sniffer">>}
MCTwoHosts == {<<"sniffer">>, <<"probe">>}

Web == [name |-> <<"web", Dot, "_http">>, port |-> 80, proto |-> "TCP", text |-> <<>>]
Shell == [name |-> <<"shell", Dot, "_ssh">>, port |-> 22, proto |-> "TCP", text |-> <<"on">>]
MCServices == {Web, Shell}
MCOneService == {Web}

MCPeer == [name |-> <<"peer">>, address |-> 7]
MCHostNames == {MCPeer.name}
Http == [name |-> <<"_http">>, proto |-> "TCP"]
MCServiceTypes == {Http}

MCTimed == {0, 3}

Mine == <<"sniffer">> \o MDNS_TLD
Theirs == MCPeer.name \o MDNS_TLD
HttpName == Http.name \o postfixForProtocol("TCP")

Query(qs) == Packet(FALSE, qs, <<>>, <<>>)
Asks(str, type) == Question(writeDNSName(str), type)

\* Questions: single ones of each kind, several in a packet, a name that only
\* begins like ours, one from another port.
Questions ==
    {Query(<<Asks(Mine, t)>>) : t \in {"A", "AAAA", "PTR"}}
    \union {Query(<<Asks(HttpName, t)>>) : t \in {"PTR", "TXT", "A"}}
    \union {Query(<<Asks(DNS_SD_SERVICE, "PTR")>>), Query(<<Asks(Theirs, "A")>>),
            Query(<<Asks(Mine, "A"), Asks(Mine, "AAAA")>>),
            Query(<<Asks(Mine, "AAAA"), Asks(HttpName, "PTR"), Asks(Mine, "A")>>),
            Query(<<Asks(HttpName, "PTR"), Asks(servName(Shell), "SRV")>>),
            Query(<<Asks(Mine \o <<Dot, "more">>, "A"), Asks(<<"sniffer">>, "A")>>),
            [Query(<<Asks(Mine, "A")>>) EXCEPT !.port = 53]}

Of(labels, ptr) == [labels |-> labels, ptr |-> ptr]
Addr(name, address) == Record(name, "A", 120, [NoData EXCEPT !.address = address])
Ptr(name, data) == Record(name, "PTR", 120, [NoData EXCEPT !.name = data])
Srv(name, port, target) == Record(name, "SRV", 120, [NoData EXCEPT !.port = port, !.name = target])
Txt(name, text) == Record(name, "TXT", 120, [NoData EXCEPT !.text = text])

\* Answers of this library.
OwnKind ==
    {sendMDNSMessage(Message("MyIPAnswer"), Theirs, MCPeer.address),
     sendMDNSMessage(Message("NoIPv6AddrAvailable"), Theirs, MCPeer.address),
     sendMDNSMessage(AboutService("ServiceRecord", Web), Theirs, MCPeer.address),
     sendMDNSMessage(AboutService("ServiceRecordRelease", Web), Theirs, MCPeer.address)}

\* Addresses: of another host, of one with two addresses, of ours among them.
Addresses ==
    {Packet(TRUE, <<>>, <<Addr(writeDNSName(<<"other">> \o MDNS_TLD), 5)>>, <<>>),
     Packet(TRUE, <<>>, <<Addr(writeDNSName(Theirs), 7), Addr(Of(<<>>, NamePos(1)), 8)>>, <<>>),
     Packet(TRUE, <<>>, <<Ptr(writeDNSName(HttpName), Of(<< <<"tv">> >>, NamePos(1))),
                          Addr(Of(<< <<"peer">> >>, SkewedPos(1)), 7)>>, <<>>)}

\* Services, in the form responders give them: one; two on a host, in another
\* order; two on two hosts; one without its address, one of another type.
First == Ptr(writeDNSName(HttpName), Of(<< <<"tv">> >>, NamePos(1)))
Second == Ptr(Of(<<>>, NamePos(1)), Of(<< <<"box">> >>, NamePos(1)))
Host(name) == Of(<< <<name>> >>, SkewedPos(1))
Listings ==
    {Packet(TRUE, <<>>, <<First>>,
            <<Srv(Of(<<>>, DataPos(1)), 81, Host("tv")), Txt(Of(<<>>, DataPos(1)), <<"hd">>),
              Addr(Of(<<>>, TargetPos(2)), 3)>>),
     Packet(TRUE, <<>>, <<First, Second>>,
            <<Srv(Of(<<>>, DataPos(2)), 82, Host("box")), Txt(Of(<<>>, DataPos(1)), <<"hd">>),
              Srv(Of(<<>>, DataPos(1)), 81, Of(<<>>, TargetPos(3))), Addr(Of(<<>>, TargetPos(3)), 3)>>),
     Packet(TRUE, <<>>, <<First, Second>>,
            <<Srv(Of(<<>>, DataPos(1)), 81, Host("tv")), Srv(Of(<<>>, DataPos(2)), 82, Host("box")),
              Addr(Of(<<>>, TargetPos(4)), 4), Addr(Of(<<>>, TargetPos(3)), 3)>>),
     Packet(TRUE, <<>>, <<First>>, <<Srv(Of(<<>>, DataPos(1)), 81, Host("tv"))>>),
     Packet(TRUE, <<>>, <<Ptr(writeDNSName(servName(Shell)), Of(<< <<"tv">> >>, NamePos(1)))>>,
            <<Srv(Of(<<>>, DataPos(1)), 22, Host("tv")), Addr(Of(<<>>, TargetPos(2)), 3)>>)}

MCPackets == Questions \union OwnKind \union Addresses \union Listings

MCNone == {}

\* What the proof that questions are answered assumes of names.
ASSUME MCNamesAssumption == OwnNames /\ AskedByName
=============================================================================
