--------------------------- MODULE NetworkProofs ----------------------------
(***************************************************************************)
(* Proofs about NetworkTasks, for any number of sockets, any length of a   *)
(* request and of the page, and any parameters.                            *)
(***************************************************************************)
EXTENDS NetworkTasks, TLAPS

\* The UDP sender takes the first socket of the chip and always gets it back,
\* since it is closed when the search for a free socket begins.
SenderFirst ==
    IF booted
    THEN udp = 0 /\ ~port[0] /\ (pc # "SPI_begin" => status[0] = "UDP")
    ELSE pc = "pend" /\ \A s \in Sock : status[s] = "CLOSED" /\ ~port[s]

\* Whose a socket is can be told from its status.
Owners ==
    /\ \A s \in Sock : status[s] = "UDP" => s = 0
    /\ \A s \in Sock : status[s] = "LISTEN" => port[s]
    /\ pc = "pend" => \A s \in Sock : status[s] \in {"CLOSED", "UDP"}

ClientPcs == {"connected", "nap", "params", "print", "wait", "stopClient"}

\* The socket the Dashboard task is at belongs to the server and is not opened
\* again until the task lets go of it.
ClientKept ==
    /\ pc \in ClientPcs /\ client # NumSock =>
          port[client] /\ status[client] \in Connected \cup Closing \cup {"CLOSED"}
    /\ pc \in {"params", "print", "wait", "stopClient"} => client # NumSock
    /\ pc = "stopAccepted" => k # NumSock /\ port[k]

\* What EthernetServer_accept has not seen is not there: no socket becomes a
\* listener behind its back.
Scanned ==
    pc \in {"accept", "stopAccepted"} /\ ~listening =>
        \A s \in Sock : s < k => status[s] # "LISTEN"

\* The Dashboard task has read a part of what the peer has sent.
Unread == \A s \in Sock : rx[s] <= sent[s]

NetInv == TypeOK /\ Unread /\ SenderFirst /\ Owners /\ ClientKept /\ Scanned /\ OneListener
-----------------------------------------------------------------------------
\* The first element of a set of sockets that holds socket 0 is socket 0.
LEMMA FirstIsZero ==
    ASSUME NEW S \in SUBSET Sock, 0 \in S, NEW s, First(s, S)
    PROVE  s = 0
BY DEF First, Sock

\* EthernetUDP_begin with socket 0 free takes socket 0.
LEMMA BeginTakesZero ==
    ASSUME NEW st \in [Sock -> Statuses], 0 \in Sock, st[0] = "CLOSED",
           EthernetUDP_begin(st, NumSock)
    PROVE  udp' = 0 /\ status' = [st EXCEPT ![0] = "UDP"]
<1> DEFINE free == {s \in Sock : st[s] \in {"CLOSED", "FIN_WAIT"}}
<1>1. 0 \in free
  OBVIOUS
<1>2. PICK s \in free : First(s, free) /\ status' = [st EXCEPT ![s] = "UDP"] /\ udp' = s
  BY <1>1 DEF EthernetUDP_begin
<1>3. s = 0
  BY <1>1, <1>2, FirstIsZero
<1>4. QED
  BY <1>2, <1>3

\* EthernetServer_begin opens at most one socket, and that one was closed.
LEMMA BeginListens ==
    ASSUME EthernetServer_begin
    PROVE  \/ UNCHANGED <<status, port>>
           \/ \E s \in Sock :
                 /\ status[s] = "CLOSED"
                 /\ status' = [status EXCEPT ![s] = "LISTEN"]
                 /\ port' = [port EXCEPT ![s] = TRUE]
BY DEF EthernetServer_begin

\* There is a first socket, and the number that stands for none is not one.
LEMMA ZeroIsSocket == 0 \in Sock /\ 0 \in 0 .. NumSock /\ NumSock \notin Sock /\ Sock \subseteq 0 .. NumSock
BY NetworkAssumption DEF Sock

\* A parameter of the request keeps the invariant: tgt closes socket 0 before it
\* looks for a free one, and run, dhcp and the others open no socket.
LEMMA ParameterStep ==
    ASSUME NetInv, Dashboard_handleParameterChange
    PROVE  NetInv'
<1> USE ZeroIsSocket
<1>1. /\ booted /\ booted' = booted /\ udp = 0 /\ ~port[0] /\ client # NumSock /\ client # 0
      /\ pc = "params" /\ pc' \in {"params", "SPI_begin"} /\ params' = params - 1
      /\ UNCHANGED <<rx, sent, due, k, listening, client, got, prints, sending, unacked>>
  BY DEF Dashboard_handleParameterChange, Ethernet_startDhcp, NetInv, TypeOK, SenderFirst,
         ClientKept, ClientPcs
<1>2. params' \in 0 .. MaxParams
  BY NetworkAssumption DEF Dashboard_handleParameterChange, NetInv, TypeOK
<1>3. CASE Ethernet_setTargetIp /\ UNCHANGED pc
  <2> DEFINE st == [status EXCEPT ![0] = "CLOSED"]
  <2>1. EthernetUDP_begin(st, NumSock)
    BY <1>1, <1>3, Zenon DEF Ethernet_setTargetIp
  <2>2. st \in [Sock -> Statuses] /\ st[0] = "CLOSED"
    BY ZeroIsSocket DEF NetInv, TypeOK, Statuses
  <2> HIDE DEF st
  <2>3. udp' = 0 /\ status' = [st EXCEPT ![0] = "UDP"]
    BY <2>1, <2>2, BeginTakesZero
  <2> USE DEF st
  <2>4. status' = [status EXCEPT ![0] = "UDP"] /\ status[0] = "UDP"
    BY <2>3, <1>1 DEF NetInv, TypeOK, SenderFirst
  <2>5. status' = status
    BY <2>4 DEF NetInv, TypeOK
  <2>6. port' = port /\ ready' = TRUE
    BY <1>1, <1>3 DEF Ethernet_setTargetIp, NetInv, TypeOK
  <2>7. QED
    BY <1>1, <1>2, <1>3, <2>3, <2>5, <2>6
       DEF NetInv, TypeOK, Unread, SenderFirst, Owners, ClientKept, Scanned, OneListener
<1>4. CASE Ethernet_startDhcp
  <2>1. /\ status' = [s \in Sock |-> "CLOSED"] /\ pc' = "SPI_begin"
        /\ UNCHANGED <<port, udp, ready>>
    BY <1>4 DEF Ethernet_startDhcp
  <2>2. TypeOK' /\ Unread'
    BY <1>1, <1>2, <2>1 DEF NetInv, TypeOK, Unread, Statuses
  <2>3. QED
    BY <1>1, <2>1, <2>2
       DEF NetInv, SenderFirst, Owners, ClientKept, ClientPcs, Scanned, OneListener
<1>5. CASE UNCHANGED <<status, port, udp, pc>> /\ ready' \in BOOLEAN
  BY <1>1, <1>2, <1>5
     DEF NetInv, TypeOK, Unread, SenderFirst, Owners, ClientKept, Scanned, OneListener
<1>6. QED
  BY <1>3, <1>4, <1>5 DEF Dashboard_handleParameterChange, NetInv, TypeOK

\* Every step of the tasks, of the chip and of the peers keeps the invariant.
LEMMA NetStep ==
    ASSUME NetInv, Next
    PROVE  NetInv'
<1>1. CASE Ethernet_start
  <2>1. udp' = 0 /\ status' = [status EXCEPT ![0] = "UDP"]
    <3>1. EthernetUDP_begin(status, NumSock)
      BY <1>1 DEF Ethernet_start
    <3>2. status \in [Sock -> Statuses] /\ status[0] = "CLOSED"
      BY <1>1, ZeroIsSocket
         DEF Ethernet_start, NetInv, TypeOK, SenderFirst
    <3>3. QED
      BY <3>1, <3>2, ZeroIsSocket, BeginTakesZero
  <2>2. /\ ~booted /\ booted' = TRUE /\ ready' = FALSE
        /\ pc = "pend" /\ \A s \in Sock : status[s] = "CLOSED" /\ ~port[s]
        /\ UNCHANGED <<rx, sent, port, due, pc, k, listening, client, got, params, prints, sending,
                     unacked>>
    BY <1>1 DEF Ethernet_start, request, NetInv, SenderFirst
  <2>3. TypeOK' /\ Unread'
    BY <2>1, <2>2, ZeroIsSocket, NetworkAssumption
       DEF NetInv, TypeOK, Unread, SenderFirst, ClientKept, Sock, Statuses
  <2>4. SenderFirst' /\ Owners'
    BY <2>1, <2>2, ZeroIsSocket
       DEF NetInv, TypeOK, SenderFirst, Owners, ClientKept, Sock, Connected,
           Closing
  <2>5. ClientKept'
    BY <2>1, <2>2, ZeroIsSocket
       DEF NetInv, TypeOK, SenderFirst, Owners, ClientKept, Sock, Connected,
           Closing, ClientPcs
  <2>6. Scanned' /\ OneListener'
    BY <2>1, <2>2, ZeroIsSocket
       DEF NetInv, TypeOK, SenderFirst, Owners, ClientKept, Scanned,
           OneListener, Sock
  <2>7. QED
    BY <2>3, <2>4, <2>5, <2>6 DEF NetInv
<1>2. CASE Ethernet_wake
  BY <1>2, ZeroIsSocket, NetworkAssumption
     DEF Ethernet_wake, chip, request, NetInv, TypeOK, Unread, SenderFirst,
         Owners, ClientKept, Scanned, OneListener, Sock, Statuses, Connected,
         Closing, ClientPcs
<1>3. CASE Ethernet_poll
  <2>1. TypeOK' /\ Unread'
    BY <1>3, ZeroIsSocket, NetworkAssumption
       DEF Ethernet_poll, chip, request, NetInv, TypeOK, Unread, SenderFirst,
           ClientKept, Sock
  <2>2. SenderFirst' /\ Owners'
    BY <1>3, ZeroIsSocket
       DEF Ethernet_poll, chip, request, NetInv, TypeOK, SenderFirst, Owners,
           ClientKept, Sock, Connected, Closing
  <2>3. ClientKept'
    BY <1>3, ZeroIsSocket
       DEF Ethernet_poll, chip, request, NetInv, TypeOK, SenderFirst, Owners,
           ClientKept, Sock, Connected, Closing, ClientPcs
  <2>4. Scanned' /\ OneListener'
    BY <1>3, ZeroIsSocket
       DEF Ethernet_poll, chip, request, NetInv, TypeOK, SenderFirst, Owners,
           ClientKept, Scanned, OneListener, Sock
  <2>5. QED
    BY <2>1, <2>2, <2>3, <2>4 DEF NetInv
<1>4. CASE Dashboard_start
  <2>1. /\ pc = "pend" /\ booted /\ EthernetServer_begin
        /\ pc' = "accept" /\ k' = 0 /\ listening' = FALSE
        /\ UNCHANGED <<rx, sent, udp, ready, booted, due, client, got, params, prints, sending,
                       unacked>>
    BY <1>4 DEF Dashboard_start, StartAccept, ethernet, request
  <2>2. PICK s \in Sock :
           \/ UNCHANGED <<status, port>>
           \/ /\ status[s] = "CLOSED"
              /\ status' = [status EXCEPT ![s] = "LISTEN"]
              /\ port' = [port EXCEPT ![s] = TRUE]
    BY <2>1, ZeroIsSocket, BeginListens
  <2>3. \A t \in Sock : status[t] # "LISTEN"
    BY <2>1 DEF NetInv, Owners
  <2>4. TypeOK' /\ Unread'
    BY <2>1, <2>2, ZeroIsSocket DEF NetInv, TypeOK, Unread, Statuses
  <2>5. SenderFirst'
    BY <2>1, <2>2, ZeroIsSocket DEF NetInv, TypeOK, SenderFirst
  <2>6. Owners' /\ OneListener'
    BY <2>1, <2>2, <2>3 DEF NetInv, TypeOK, Owners, OneListener
  <2>7. ClientKept'
    BY <2>1 DEF ClientKept, ClientPcs
  <2>8. Scanned'
    BY <2>1 DEF Scanned, Sock
  <2>9. QED
    BY <2>4, <2>5, <2>6, <2>7, <2>8 DEF NetInv
<1>5. CASE Dashboard_wake
  <2>1. TypeOK' /\ Unread'
    BY <1>5, ZeroIsSocket, NetworkAssumption
       DEF Dashboard_wake, StartAccept, chip, ethernet, request, NetInv,
           TypeOK, Unread, SenderFirst, ClientKept, Sock
  <2>2. SenderFirst' /\ Owners'
    BY <1>5, ZeroIsSocket
       DEF Dashboard_wake, StartAccept, chip, ethernet, request, NetInv,
           TypeOK, SenderFirst, Owners, ClientKept, Sock, Connected, Closing
  <2>3. ClientKept'
    BY <1>5, ZeroIsSocket
       DEF Dashboard_wake, StartAccept, chip, ethernet, request, NetInv,
           TypeOK, SenderFirst, Owners, ClientKept, Sock, Connected, Closing,
           ClientPcs
  <2>4. Scanned' /\ OneListener'
    BY <1>5, ZeroIsSocket
       DEF Dashboard_wake, StartAccept, chip, ethernet, request, NetInv,
           TypeOK, SenderFirst, Owners, ClientKept, Scanned, OneListener, Sock
  <2>5. QED
    BY <2>1, <2>2, <2>3, <2>4 DEF NetInv
<1>6. CASE AcceptOne
  BY <1>6, ZeroIsSocket, NetworkAssumption, SMTT(20)
     DEF AcceptOne, Finished, chip, ethernet, request, NetInv, TypeOK, Unread,
         SenderFirst, Owners, ClientKept, Scanned, OneListener, Sock,
         Statuses, Connected, Closing, ClientPcs
<1>7. CASE StopFinished
  BY <1>7, ZeroIsSocket, NetworkAssumption, SMTT(20)
     DEF StopFinished, Finished, disconnect, ethernet, request, NetInv,
         TypeOK, Unread, SenderFirst, Owners, ClientKept, Scanned,
         OneListener, Sock, Statuses, Connected, Closing, ClientPcs
<1>8. CASE FinishedStopped
  BY <1>8, ZeroIsSocket, NetworkAssumption
     DEF FinishedStopped, FinishStop, ethernet, request, NetInv, TypeOK,
         Unread, SenderFirst, Owners, ClientKept, Scanned, OneListener, Sock,
         Statuses, Connected, Closing, ClientPcs
<1>9. CASE EndAccept
  <2>1. /\ pc = "accept" /\ k = NumSock /\ NewListener
        /\ pc' = "available" /\ k' = 0
        /\ UNCHANGED <<rx, sent, udp, ready, booted, due, listening, client, got, params, prints,
                       sending, unacked>>
    BY <1>9 DEF EndAccept, ethernet, request
  <2>2. PICK s \in Sock :
           \/ UNCHANGED <<status, port>>
           \/ /\ ~listening /\ status[s] = "CLOSED"
              /\ status' = [status EXCEPT ![s] = "LISTEN"]
              /\ port' = [port EXCEPT ![s] = TRUE]
    BY <2>1, ZeroIsSocket, BeginListens DEF NewListener
  <2>3. ~listening => \A t \in Sock : status[t] # "LISTEN"
    BY <2>1, NetworkAssumption DEF NetInv, Scanned, Sock
  <2>4. TypeOK' /\ Unread'
    BY <2>1, <2>2, ZeroIsSocket DEF NetInv, TypeOK, Unread, Statuses
  <2>5. SenderFirst'
    BY <2>1, <2>2, ZeroIsSocket DEF NetInv, TypeOK, SenderFirst
  <2>6. Owners' /\ OneListener'
    BY <2>1, <2>2, <2>3 DEF NetInv, TypeOK, Owners, OneListener
  <2>7. ClientKept' /\ Scanned'
    BY <2>1 DEF ClientKept, ClientPcs, Scanned
  <2>8. QED
    BY <2>4, <2>5, <2>6, <2>7 DEF NetInv
<1>10. CASE AvailableOne
  <2>1. k + 1 \in 0 .. NumSock /\ k \in 0 .. NumSock /\ k # NumSock
    BY <1>10, NetworkAssumption DEF AvailableOne, Sock
  <2>2. TypeOK' /\ Unread'
    BY <1>10, <2>1, ZeroIsSocket, NetworkAssumption, SMTT(20)
       DEF AvailableOne, HasRequest, chip, ethernet, NetInv, TypeOK, Unread,
           SenderFirst, ClientKept, Sock
  <2>3. SenderFirst' /\ Owners'
    BY <1>10, <2>1, ZeroIsSocket
       DEF AvailableOne, HasRequest, chip, ethernet, NetInv, TypeOK,
           SenderFirst, Owners, ClientKept, Sock, Connected, Closing
  <2>4. ClientKept'
    BY <1>10, <2>1, ZeroIsSocket
       DEF AvailableOne, HasRequest, chip, ethernet, NetInv, TypeOK,
           SenderFirst, Owners, ClientKept, Sock, Connected, Closing,
           ClientPcs
  <2>5. Scanned' /\ OneListener'
    BY <1>10, <2>1, ZeroIsSocket
       DEF AvailableOne, HasRequest, chip, ethernet, NetInv, TypeOK,
           SenderFirst, Owners, ClientKept, Scanned, OneListener, Sock
  <2>6. QED
    BY <2>2, <2>3, <2>4, <2>5 DEF NetInv
<1>11. CASE NoneAvailable
  BY <1>11, ZeroIsSocket, NetworkAssumption
     DEF NoneAvailable, chip, ethernet, request, NetInv, TypeOK, Unread,
         SenderFirst, Owners, ClientKept, Scanned, OneListener, Sock,
         Statuses, Connected, Closing, ClientPcs
<1>12. CASE ClientGone
  BY <1>12, ZeroIsSocket, NetworkAssumption
     DEF ClientGone, EthernetClient_connected, chip, ethernet, request,
         NetInv, TypeOK, Unread, SenderFirst, Owners, ClientKept, Scanned,
         OneListener, Sock, Statuses, Connected, Closing, ClientPcs
<1>13. CASE ReadLine
  <2>1. client \in Sock /\ pc' = "nap" /\ (rx[client] > 0 => rx[client] - 1 \in 0 .. RequestUnits)
    BY <1>13, ZeroIsSocket, NetworkAssumption
       DEF ReadLine, EthernetClient_connected, NetInv, TypeOK, Sock
  <2>2. got < RequestUnits => got + 1 \in 0 .. RequestUnits
    BY NetworkAssumption DEF NetInv, TypeOK
  <2>3. rx' \in [Sock -> 0 .. RequestUnits] /\ got' \in 0 .. RequestUnits /\ Unread'
    <3>1. CASE rx[client] = 0 /\ UNCHANGED <<rx, got>>
      BY <1>13, <3>1 DEF ReadLine, NetInv, TypeOK, Unread
    <3>2. CASE /\ rx[client] > 0 /\ got + 1 < RequestUnits
               /\ rx' = [rx EXCEPT ![client] = @ - 1]
               /\ got' = got + 1
      BY <1>13, <2>1, <2>2, <3>2, NetworkAssumption DEF ReadLine, NetInv, TypeOK, Unread
    <3>3. QED
      BY <1>13, <3>1, <3>2 DEF ReadLine
  <2>4. TypeOK' /\ Unread'
    BY <1>13, <2>3 DEF ReadLine, ethernet, NetInv, TypeOK
  <2>5. SenderFirst' /\ Owners'
    BY <1>13, <2>1, <2>2, ZeroIsSocket
       DEF ReadLine, EthernetClient_connected, ethernet, NetInv, TypeOK,
           SenderFirst, Owners, ClientKept, Sock, Connected, Closing
  <2>6. ClientKept'
    BY <1>13, <2>1, <2>2, ZeroIsSocket
       DEF ReadLine, EthernetClient_connected, ethernet, NetInv, TypeOK,
           SenderFirst, Owners, ClientKept, Sock, Connected, Closing,
           ClientPcs
  <2>7. Scanned' /\ OneListener'
    BY <1>13, <2>1, <2>2, ZeroIsSocket
       DEF ReadLine, EthernetClient_connected, ethernet, NetInv, TypeOK,
           SenderFirst, Owners, ClientKept, Scanned, OneListener, Sock
  <2>8. QED
    BY <2>4, <2>5, <2>6, <2>7 DEF NetInv
<1>14. CASE ReadLastLine
  BY <1>14, ZeroIsSocket, NetworkAssumption, SMTT(20)
     DEF ReadLastLine, EthernetClient_connected, ethernet, NetInv, TypeOK,
         Unread, SenderFirst, Owners, ClientKept, Scanned, OneListener, Sock,
         Statuses, Connected, Closing, ClientPcs
<1>15. CASE Dashboard_nap
  BY <1>15, ZeroIsSocket, NetworkAssumption
     DEF Dashboard_nap, chip, ethernet, request, NetInv, TypeOK, Unread,
         SenderFirst, Owners, ClientKept, Scanned, OneListener, Sock,
         Statuses, Connected, Closing, ClientPcs
<1>16. CASE Dashboard_handleParameterChange
  BY <1>16, ParameterStep
<1>17. CASE StartPage
  BY <1>17, ZeroIsSocket, NetworkAssumption
     DEF StartPage, chip, ethernet, NetInv, TypeOK, Unread, SenderFirst,
         Owners, ClientKept, Scanned, OneListener, Sock, Statuses, Connected,
         Closing, ClientPcs
<1>18. CASE PrintPart
  <2>1. prints' \in 0 .. Prints
    BY <1>18, NetworkAssumption DEF PrintPart, NetInv, TypeOK
  <2>2. unacked' \in 0 .. Room
    BY <1>18, NetworkAssumption DEF PrintPart, BufferFull, NetInv, TypeOK
  <2>3. sending' \in {"sent", "ignored"} /\ pc' = "wait"
    BY <1>18 DEF PrintPart
  <2>4. QED
    BY <1>18, <2>1, <2>2, <2>3
       DEF PrintPart, chip, ethernet, NetInv, TypeOK, Unread, SenderFirst, Owners,
           ClientKept, Scanned, OneListener, ClientPcs
<1>19. CASE Printed
  BY <1>19, ZeroIsSocket, NetworkAssumption
     DEF Printed, chip, ethernet, NetInv, TypeOK, Unread, SenderFirst, Owners,
         ClientKept, Scanned, OneListener, Sock, Statuses, Connected, Closing,
         ClientPcs
<1>20. CASE PrintFailed
  BY <1>20, ZeroIsSocket, NetworkAssumption
     DEF PrintFailed, LostConnection, ethernet, NetInv, TypeOK, Unread,
         SenderFirst, Owners, ClientKept, Scanned, OneListener, Sock,
         Statuses, Connected, Closing, ClientPcs
<1>21. CASE StopClient
  <2>1. TypeOK' /\ Unread'
    BY <1>21, ZeroIsSocket, NetworkAssumption
       DEF StopClient, disconnect, ethernet, request, NetInv, TypeOK, Unread,
           SenderFirst, ClientKept, Sock, Statuses, Connected, Closing
  <2>2. SenderFirst' /\ Owners'
    BY <1>21, ZeroIsSocket
       DEF StopClient, disconnect, ethernet, request, NetInv, TypeOK,
           SenderFirst, Owners, ClientKept, Sock, Connected, Closing
  <2>3. ClientKept'
    BY <1>21, ZeroIsSocket
       DEF StopClient, disconnect, ethernet, request, NetInv, TypeOK,
           SenderFirst, Owners, ClientKept, Sock, Connected, Closing,
           ClientPcs
  <2>4. Scanned' /\ OneListener'
    BY <1>21, ZeroIsSocket
       DEF StopClient, disconnect, ethernet, request, NetInv, TypeOK,
           SenderFirst, Owners, ClientKept, Scanned, OneListener, Sock,
           Connected, Closing
  <2>5. QED
    BY <2>1, <2>2, <2>3, <2>4 DEF NetInv
<1>22. CASE ClientStopped
  BY <1>22, ZeroIsSocket, NetworkAssumption
     DEF ClientStopped, FinishStop, ethernet, request, NetInv, TypeOK, Unread,
         SenderFirst, Owners, ClientKept, Scanned, OneListener, Sock,
         Statuses, Connected, Closing, ClientPcs
<1>23. CASE SendOk
  BY <1>23, ZeroIsSocket, NetworkAssumption
     DEF SendOk, chip, ethernet, NetInv, TypeOK, Unread, SenderFirst, Owners,
         ClientKept, Scanned, OneListener, Sock, Statuses, Connected, Closing,
         ClientPcs
<1>24. ASSUME NEW s \in Sock, Connect(s)
      PROVE  NetInv'
  BY <1>24, ZeroIsSocket, NetworkAssumption
     DEF Connect, tasks, ethernet, request, NetInv, TypeOK, Unread,
         SenderFirst, Owners, ClientKept, Scanned, OneListener, Sock,
         Statuses, Connected, Closing, ClientPcs
<1>25. ASSUME NEW s \in Sock, Receive(s)
      PROVE  NetInv'
  <2>1. sent[s] + 1 \in 0 .. RequestUnits /\ rx[s] + 1 \in 0 .. RequestUnits
    BY <1>25, NetworkAssumption DEF Receive, NetInv, TypeOK, Unread
  <2>2. TypeOK' /\ Unread'
    BY <1>25, <2>1, ZeroIsSocket, NetworkAssumption
       DEF Receive, tasks, ethernet, request, NetInv, TypeOK, Unread,
           SenderFirst, ClientKept, Sock
  <2>3. SenderFirst' /\ Owners'
    BY <1>25, <2>1, ZeroIsSocket
       DEF Receive, tasks, ethernet, request, NetInv, TypeOK, SenderFirst,
           Owners, ClientKept, Sock, Connected, Closing
  <2>4. ClientKept'
    BY <1>25, <2>1, ZeroIsSocket
       DEF Receive, tasks, ethernet, request, NetInv, TypeOK, SenderFirst,
           Owners, ClientKept, Sock, Connected, Closing, ClientPcs
  <2>5. Scanned' /\ OneListener'
    BY <1>25, <2>1, ZeroIsSocket
       DEF Receive, tasks, ethernet, request, NetInv, TypeOK, SenderFirst,
           Owners, ClientKept, Scanned, OneListener, Sock
  <2>6. QED
    BY <2>2, <2>3, <2>4, <2>5 DEF NetInv
<1>26. ASSUME NEW s \in Sock, PeerCloses(s)
      PROVE  NetInv'
  BY <1>26, ZeroIsSocket, NetworkAssumption, SMTT(20)
     DEF PeerCloses, tasks, ethernet, request, NetInv, TypeOK, Unread,
         SenderFirst, Owners, ClientKept, Scanned, OneListener, Sock,
         Statuses, Connected, Closing, ClientPcs
<1>27. ASSUME NEW s \in Sock, ConnectionEnds(s)
      PROVE  NetInv'
  BY <1>27, ZeroIsSocket, NetworkAssumption
     DEF ConnectionEnds, tasks, ethernet, request, NetInv, TypeOK, Unread,
         SenderFirst, Owners, ClientKept, Scanned, OneListener, Sock,
         Statuses, Connected, Closing, ClientPcs
<1>28. CASE Acknowledge
  <2>1. unacked' \in 0 .. Room
    BY <1>28, NetworkAssumption DEF Acknowledge, NetInv, TypeOK
  <2>2. QED
    BY <1>28, <2>1
       DEF Acknowledge, chip, ethernet, NetInv, TypeOK, Unread, SenderFirst, Owners,
           ClientKept, Scanned, OneListener, ClientPcs
<1>29. QED
  BY <1>1, <1>2, <1>3, <1>4, <1>5, <1>6, <1>7, <1>8, <1>9, <1>10, <1>11, <1>12, <1>13, <1>14, <1>15, <1>16, <1>17, <1>18, <1>19, <1>20, <1>21, <1>22, <1>23, <1>24, <1>25, <1>26, <1>27, <1>28
     DEF Next, Dashboard, Chip

\* The inductive invariant of the two network tasks.
THEOREM NetworkInvariant == Spec => []NetInv
<1>1. Init => NetInv
  <2> SUFFICES ASSUME Init PROVE NetInv
    OBVIOUS
  <2>1. 0 \in 0 .. RequestUnits /\ 0 \in 0 .. MaxParams /\ 0 \in 0 .. Prints
        /\ 0 \in 0 .. Room
        /\ 0 \in 0 .. NumSock /\ NumSock \in 0 .. NumSock
    BY NetworkAssumption
  <2>2. TypeOK
    BY <2>1 DEF Init, TypeOK, Statuses
  <2>3. Unread /\ SenderFirst /\ Owners
    BY DEF Init, Unread, SenderFirst, Owners
  <2>4. ClientKept /\ Scanned /\ OneListener
    BY DEF Init, ClientKept, ClientPcs, Scanned, OneListener
  <2>5. QED
    BY <2>2, <2>3, <2>4 DEF NetInv
<1>2. NetInv /\ [Next]_vars => NetInv'
  <2>1. CASE Next
    BY <2>1, NetStep
  <2>2. CASE UNCHANGED vars
    BY <2>2 DEF vars, NetInv, TypeOK, Unread, SenderFirst, Owners, ClientKept, Scanned,
                OneListener
  <2>3. QED
    BY <2>1, <2>2
<1>3. QED
  BY <1>1, <1>2, PTL DEF Spec

\* The UDP sender always has an open socket that is no connection of the server: what
\* EthernetUDP_stop and EthernetUDP_begin do in Ethernet_setTargetIp, for any number of
\* sockets in any state.
THEOREM SenderKeepsItsSocketAlways == Spec => []SenderKeepsItsSocket
<1>1. NetInv => SenderKeepsItsSocket
  BY ZeroIsSocket DEF NetInv, SenderFirst, SenderKeepsItsSocket
<1>2. QED
  BY <1>1, NetworkInvariant, PTL

\* EthernetServer_accept never makes a second listening socket.
THEOREM OneListenerAlways == Spec => []OneListener
<1>1. NetInv => OneListener
  BY DEF NetInv
<1>2. QED
  BY <1>1, NetworkInvariant, PTL

\* The socket of a client that is being served is not opened again before
\* EthernetClient_stop has let go of it.
THEOREM PageGoesToItsClientAlways == Spec => []PageGoesToItsClient
<1>1. NetInv => PageGoesToItsClient
  BY DEF NetInv, ClientKept, ClientPcs, PageGoesToItsClient
<1>2. QED
  BY <1>1, NetworkInvariant, PTL

\* Every variable keeps its type.
THEOREM NetworkTyped == Spec => []TypeOK
<1>1. NetInv => TypeOK
  BY DEF NetInv
<1>2. QED
  BY <1>1, NetworkInvariant, PTL
=============================================================================
