---------------------------- MODULE NetworkTasks ----------------------------
(***************************************************************************)
(* The two network tasks of the sniffer and the W5500 socket table they    *)
(* share: the Ethernet task (ethernet_task.c), which sends the captured    *)
(* frames on a UDP socket, and the Dashboard task (dashboard_task.c),      *)
(* which serves the configuration page with EthernetServer.c,              *)
(* EthernetClient.c and socket.c.                                          *)
(*                                                                         *)
(* Both tasks have priority 2 (main.c) and the kernel does not slice time  *)
(* between tasks of one priority: a task runs until it sleeps.  The chip   *)
(* and the peers of its connections move at any time.                      *)
(***************************************************************************)
EXTENDS Naturals

CONSTANTS
    NumSock,        \* MAX_SOCK_NUM, the sockets of the chip
    RequestUnits,   \* lines of an HTTP request, the last one blank
    Prints,         \* calls of send() that make up the page
    Room,           \* parts of the page that fit into a socket's transmit buffer
    MaxParams,      \* most parameters in the query of one request
    Params          \* the kinds of parameter a request may carry

ASSUME NetworkAssumption ==
    /\ NumSock \in Nat \ {0}
    /\ RequestUnits \in Nat \ {0}
    /\ Prints \in Nat \ {0}
    /\ Room \in Nat \ {0}
    /\ MaxParams \in Nat

VARIABLES
    status,     \* SnSR of each socket
    rx,         \* lines of a request received and not yet read, by socket
    sent,       \* history: lines the peer of the connection has sent
    port,       \* Ethernet_server_port[s] is the port of the server
    udp,        \* hEthUdp._sock; NumSock when it has none
    ready,      \* bReadyToSend
    booted,     \* sem_ethernetInit has been posted
    due,        \* the sleep of the Ethernet task is over
    pc,         \* where the Dashboard task is
    k,          \* the socket its loop over the sockets is at
    listening,  \* EthernetServer_accept has seen a listening socket
    client,     \* ethClient._sock; NumSock when it has none
    got,        \* lines of the request read from the client
    params,     \* parameters of the request not handled yet
    prints,     \* calls of send() still to come
    sending,    \* the SEND command: "idle", "sent", "ok" or "ignored"
    unacked     \* parts of the page the peer has not acknowledged

chip == <<status, rx, sent>>
ethernet == <<udp, ready, booted, due>>
request == <<got, params, prints, sending, unacked>>
vars == <<status, rx, sent, port, udp, ready, booted, due, pc, k, listening,
          client, got, params, prints, sending, unacked>>

Sock == 0 .. NumSock - 1
Connected == {"ESTABLISHED", "CLOSE_WAIT"}
Closing == {"FIN_WAIT", "LAST_ACK"}
Statuses == Connected \cup Closing \cup {"CLOSED", "LISTEN", "UDP"}

TypeOK ==
    /\ status \in [Sock -> Statuses]
    /\ rx \in [Sock -> 0 .. RequestUnits]
    /\ sent \in [Sock -> 0 .. RequestUnits]
    /\ port \in [Sock -> BOOLEAN]
    /\ udp \in 0 .. NumSock
    /\ ready \in BOOLEAN /\ booted \in BOOLEAN /\ due \in BOOLEAN
    /\ pc \in {"pend", "sleep", "accept", "stopAccepted", "available", "connected",
               "nap", "params", "print", "wait", "stopClient", "SPI_begin"}
    /\ k \in 0 .. NumSock
    /\ listening \in BOOLEAN
    /\ client \in 0 .. NumSock
    /\ got \in 0 .. RequestUnits
    /\ params \in 0 .. MaxParams
    /\ prints \in 0 .. Prints
    /\ sending \in {"idle", "sent", "ok", "ignored"}
    /\ unacked \in 0 .. Room

Init ==
    /\ status = [s \in Sock |-> "CLOSED"]
    /\ rx = [s \in Sock |-> 0]
    /\ sent = [s \in Sock |-> 0]
    /\ port = [s \in Sock |-> FALSE]
    /\ udp = NumSock /\ ready = FALSE /\ booted = FALSE /\ due = FALSE
    /\ pc = "pend" /\ k = 0 /\ listening = FALSE /\ client = NumSock
    /\ got = 0 /\ params = 0 /\ prints = 0 /\ sending = "idle" /\ unacked = 0

\* The loops that look for a socket take the lowest one of those that will do.
First(s, S) == s \in S /\ \A t \in S : s <= t

\* The Dashboard task is in Task_sleep, in delay or on its semaphore, so that
\* the other task of its priority may run.
Yielded == pc \in {"pend", "sleep", "nap", "stopAccepted", "stopClient"}
-----------------------------------------------------------------------------
(* The sockets *)

\* DISCON: a FIN to the other side of a connection.
disconnect(s) ==
    CASE status[s] = "ESTABLISHED" -> [status EXCEPT ![s] = "FIN_WAIT"]
      [] status[s] = "CLOSE_WAIT" -> [status EXCEPT ![s] = "LAST_ACK"]
      [] OTHER -> status

\* Mutant: _sock is reset before it is used as the index of Ethernet_server_port.
FinishStop_ResetFirst(s) ==
    /\ status' = [status EXCEPT ![s] = "CLOSED"]
    /\ port' = [t \in Sock \cup {NumSock} |-> t # NumSock /\ port[t]]

\* The end of EthernetClient_stop: the connection has closed, or a second has
\* passed and it is closed by force.
FinishStop(s) ==
    /\ status' = [status EXCEPT ![s] = "CLOSED"]
    /\ port' = [port EXCEPT ![s] = FALSE]

\* A server opens the first closed socket, if there is one, and listens.
EthernetServer_begin ==
    LET closed == {s \in Sock : status[s] = "CLOSED"}
    IN  \/ closed = {} /\ UNCHANGED <<status, port>>
        \/ \E s \in closed :
              /\ First(s, closed)
              /\ status' = [status EXCEPT ![s] = "LISTEN"]
              /\ port' = [port EXCEPT ![s] = TRUE]

\* hEthUdp gets the first free socket, unless its _sock, u, says it has one.
\* st is what the chip shows in its status registers.
EthernetUDP_begin(st, u) ==
    LET free == {s \in Sock : st[s] \in {"CLOSED", "FIN_WAIT"}}
    IN  \/ (u # NumSock \/ free = {}) /\ status' = st /\ udp' = u
        \/ /\ u = NumSock
           /\ \E s \in free : /\ First(s, free)
                              /\ status' = [st EXCEPT ![s] = "UDP"]
                              /\ udp' = s
-----------------------------------------------------------------------------
(* The Ethernet task *)

\* The start of the task, up to its loop.  The semaphore is posted before the
\* socket is opened, but the task that waits for it has the same priority.
Ethernet_start ==
    /\ ~booted
    /\ booted' = TRUE
    /\ EthernetUDP_begin(status, NumSock)
    /\ ready' = FALSE
    /\ UNCHANGED <<rx, sent, port, due, pc, k, listening, client, request>>

\* Task_sleep(1) is over.  The clock goes on whatever the tasks do.
Ethernet_wake ==
    /\ booted
    /\ due' = TRUE
    /\ UNCHANGED <<chip, port, udp, ready, booted, pc, k, listening, client, request>>

\* One turn of the loop.  What it takes from the radio queue and sends on
\* hEthUdp is in RadioQueue; here it counts that the task gets to run.
Ethernet_poll ==
    /\ due /\ Yielded
    /\ due' = FALSE
    /\ UNCHANGED <<chip, port, udp, ready, booted, pc, k, listening, client, request>>

\* Mutant: the new UDP socket is opened before the old one is closed.
Ethernet_setTargetIp_BeginFirst ==
    /\ udp' = NumSock
    /\ status' = [status EXCEPT ![udp] = "CLOSED"]
    /\ port' = [port EXCEPT ![udp] = FALSE]
    /\ ready' = TRUE

\* Mutant: EthernetUDP_stop forgets the socket and does not close it.
Ethernet_setTargetIp_NotClosed ==
    /\ EthernetUDP_begin(status, NumSock)
    /\ port' = [port EXCEPT ![udp] = FALSE]
    /\ ready' = TRUE

\* Called by the Dashboard task.  bReadyToSend is FALSE meanwhile, and nothing
\* in here sleeps.
Ethernet_setTargetIp ==
    /\ EthernetUDP_begin([status EXCEPT ![udp] = "CLOSED"], NumSock)
    /\ port' = [port EXCEPT ![udp] = FALSE]
    /\ ready' = TRUE
-----------------------------------------------------------------------------
(* The Dashboard task: EthernetServer_available *)

\* EthernetServer_available starts with EthernetServer_accept.
StartAccept == pc' = "accept" /\ k' = 0 /\ listening' = FALSE

Dashboard_start ==
    /\ pc = "pend" /\ booted
    /\ EthernetServer_begin
    /\ StartAccept
    /\ UNCHANGED <<rx, sent, ethernet, client, request>>

\* Task_sleep(100) at the end of the outer loop is over.
Dashboard_wake ==
    /\ pc = "sleep"
    /\ StartAccept
    /\ UNCHANGED <<chip, port, ethernet, client, request>>

\* Mutant: half-closed connections are left alone.
Finished_Never(s) == FALSE

\* A connection that the peer has closed and that has nothing left to read.
Finished(s) == port[s] /\ status[s] = "CLOSE_WAIT" /\ rx[s] = 0

\* One turn of the loop of EthernetServer_accept.
AcceptOne ==
    /\ pc = "accept" /\ k \in Sock /\ ~Finished(k)
    /\ k' = k + 1
    /\ listening' = (listening \/ (port[k] /\ status[k] = "LISTEN"))
    /\ UNCHANGED <<chip, port, ethernet, pc, client, request>>

StopFinished ==
    /\ pc = "accept" /\ k \in Sock /\ Finished(k)
    /\ status' = disconnect(k)
    /\ pc' = "stopAccepted"
    /\ UNCHANGED <<rx, sent, port, ethernet, k, listening, client, request>>

FinishedStopped ==
    /\ pc = "stopAccepted"
    /\ FinishStop(k)
    /\ pc' = "accept" /\ k' = k + 1
    /\ UNCHANGED <<rx, sent, ethernet, listening, client, request>>

\* Mutant: a new listener after every pass over the sockets.
NewListener_Always == EthernetServer_begin

\* A server without a listening socket begins again.
NewListener ==
    \/ listening /\ UNCHANGED <<status, port>>
    \/ ~listening /\ EthernetServer_begin

EndAccept ==
    /\ pc = "accept" /\ k = NumSock
    /\ NewListener
    /\ pc' = "available" /\ k' = 0
    /\ UNCHANGED <<rx, sent, ethernet, listening, client, request>>

HasRequest(s) == port[s] /\ status[s] \in Connected /\ rx[s] > 0

\* One turn of the loop of EthernetServer_available.
AvailableOne ==
    /\ pc = "available" /\ k \in Sock
    /\ \/ /\ HasRequest(k)
          /\ client' = k /\ got' = 0
          /\ pc' = "connected"
          /\ UNCHANGED k
       \/ /\ ~HasRequest(k)
          /\ k' = k + 1
          /\ UNCHANGED <<client, got, pc>>
    /\ UNCHANGED <<chip, port, ethernet, listening, params, prints, sending, unacked>>

NoneAvailable ==
    /\ pc = "available" /\ k = NumSock
    /\ pc' = "sleep"
    /\ UNCHANGED <<chip, port, ethernet, k, listening, client, request>>
-----------------------------------------------------------------------------
(* The Dashboard task: one client *)

EthernetClient_connected(s) ==
    /\ s # NumSock
    /\ status[s] \notin {"LISTEN", "CLOSED", "FIN_WAIT"}
    /\ ~(status[s] = "CLOSE_WAIT" /\ rx[s] = 0)

ClientGone ==
    /\ pc = "connected" /\ ~EthernetClient_connected(client)
    /\ client' = NumSock
    /\ pc' = "sleep"
    /\ UNCHANGED <<chip, port, ethernet, k, listening, request>>

\* Nothing to read, or a line that is not the last one, and Task_sleep(100).
ReadLine ==
    /\ pc = "connected" /\ EthernetClient_connected(client)
    /\ \/ rx[client] = 0 /\ UNCHANGED <<rx, got>>
       \/ /\ rx[client] > 0 /\ got + 1 < RequestUnits
          /\ rx' = [rx EXCEPT ![client] = @ - 1]
          /\ got' = got + 1
    /\ pc' = "nap"
    /\ UNCHANGED <<status, sent, port, ethernet, k, listening, client, params, prints, sending,
                   unacked>>

\* The blank line: the query in the first line is taken apart.
ReadLastLine ==
    /\ pc = "connected" /\ EthernetClient_connected(client)
    /\ rx[client] > 0 /\ got + 1 = RequestUnits
    /\ rx' = [rx EXCEPT ![client] = @ - 1]
    /\ got' = got + 1
    /\ params' \in 0 .. MaxParams
    /\ pc' = "params"
    /\ UNCHANGED <<status, sent, port, ethernet, k, listening, client, prints, sending, unacked>>

Dashboard_nap ==
    /\ pc = "nap"
    /\ pc' = "connected"
    /\ UNCHANGED <<chip, port, ethernet, k, listening, client, request>>

\* Ethernet_startDhcp begins with W5500_init: initSS resets the chip.  SPI_open
\* then finds the peripheral open since the start, returns NULL, and SPI_begin
\* loops for ever: there is no step from "SPI_begin".
Ethernet_startDhcp ==
    /\ status' = [s \in Sock |-> "CLOSED"]
    /\ pc' = "SPI_begin"
    /\ UNCHANGED <<port, udp, ready>>

\* "other" stands for the parameters that reach neither the sockets nor
\* bReadyToSend: pro, gip, msk, tip and chn.
Dashboard_handleParameterChange ==
    /\ pc = "params" /\ params > 0
    /\ params' = params - 1
    /\ \/ "tgt" \in Params /\ Ethernet_setTargetIp /\ UNCHANGED pc
       \/ "run" \in Params /\ ready' \in BOOLEAN /\ UNCHANGED <<status, port, udp, pc>>
       \/ "dhcp" \in Params /\ Ethernet_startDhcp
       \/ "other" \in Params /\ UNCHANGED <<status, port, udp, ready, pc>>
    /\ UNCHANGED <<rx, sent, booted, due, k, listening, client, got, prints, sending, unacked>>

StartPage ==
    /\ pc = "params" /\ params = 0
    /\ prints' = Prints
    /\ pc' = "print"
    /\ UNCHANGED <<chip, port, ethernet, k, listening, client, got, params, sending, unacked>>

\* Mutant: the loop at the start of send() looks only for room.
BufferFull_StatusUnread == unacked = Room

\* The peer keeps the connection open and the buffer has no room for the part: the
\* loop at the start of send() goes round, and it does not sleep.
BufferFull == status[client] \in Connected /\ unacked = Room

\* send() up to its SEND command.  On a socket that is not connected it leaves the
\* loop with nothing to send, and the chip does not answer the command.
PrintPart ==
    /\ pc = "print" /\ prints > 0 /\ ~BufferFull
    /\ prints' = prints - 1
    /\ \/ status[client] \in Connected /\ sending' = "sent" /\ unacked' = unacked + 1
       \/ status[client] \notin Connected /\ sending' = "ignored" /\ UNCHANGED unacked
    /\ pc' = "wait"
    /\ UNCHANGED <<chip, port, ethernet, k, listening, client, got, params>>

\* The loop at the end of send(), which does not sleep: SEND_OK has come, ...
Printed ==
    /\ pc = "wait" /\ sending = "ok"
    /\ sending' = "idle"
    /\ pc' = "print"
    /\ UNCHANGED <<chip, port, ethernet, k, listening, client, got, params, prints, unacked>>

\* Mutant: the loop looks only for SEND_OK.
LostConnection_Unseen == FALSE

LostConnection == status[client] = "CLOSED"

\* ... or the connection is lost, and send() closes the socket.
PrintFailed ==
    /\ pc = "wait" /\ sending # "ok" /\ LostConnection
    /\ status' = [status EXCEPT ![client] = "CLOSED"]
    /\ sending' = "idle"
    /\ pc' = "print"
    /\ UNCHANGED <<rx, sent, port, ethernet, k, listening, client, got, params, prints, unacked>>

StopClient ==
    /\ pc = "print" /\ prints = 0
    /\ status' = disconnect(client)
    /\ pc' = "stopClient"
    /\ UNCHANGED <<rx, sent, port, ethernet, k, listening, client, request>>

ClientStopped ==
    /\ pc = "stopClient"
    /\ FinishStop(client)
    /\ client' = NumSock /\ unacked' = 0
    /\ pc' = "nap"
    /\ UNCHANGED <<rx, sent, ethernet, k, listening, got, params, prints, sending>>

Dashboard ==
    \/ Dashboard_start \/ Dashboard_wake
    \/ AcceptOne \/ StopFinished \/ FinishedStopped \/ EndAccept
    \/ AvailableOne \/ NoneAvailable
    \/ ClientGone \/ ReadLine \/ ReadLastLine \/ Dashboard_nap
    \/ Dashboard_handleParameterChange \/ StartPage
    \/ PrintPart \/ Printed \/ PrintFailed \/ StopClient \/ ClientStopped
-----------------------------------------------------------------------------
(* The chip and the peers of its connections *)

tasks == <<port, ethernet, pc, k, listening, client, request>>

Connect(s) ==
    /\ status[s] = "LISTEN"
    /\ status' = [status EXCEPT ![s] = "ESTABLISHED"]
    /\ rx' = [rx EXCEPT ![s] = 0]
    /\ sent' = [sent EXCEPT ![s] = 0]
    /\ UNCHANGED tasks

Receive(s) ==
    /\ status[s] = "ESTABLISHED" /\ sent[s] < RequestUnits
    /\ rx' = [rx EXCEPT ![s] = @ + 1]
    /\ sent' = [sent EXCEPT ![s] = @ + 1]
    /\ UNCHANGED <<status, tasks>>

PeerCloses(s) ==
    /\ status[s] = "ESTABLISHED"
    /\ status' = [status EXCEPT ![s] = "CLOSE_WAIT"]
    /\ UNCHANGED <<rx, sent, tasks>>

\* The last segment of an orderly close, a reset, or the chip gives up.
ConnectionEnds(s) ==
    /\ status[s] \in Connected \cup Closing
    /\ status' = [status EXCEPT ![s] = "CLOSED"]
    /\ UNCHANGED <<rx, sent, tasks>>

\* The part has left the buffer, which the peer's window has to allow.
SendOk ==
    /\ sending = "sent" /\ status[client] \in Connected
    /\ sending' = "ok"
    /\ UNCHANGED <<chip, port, ethernet, pc, k, listening, client, got, params, prints, unacked>>

\* The peer acknowledges a part that was sent, and its place in the buffer is free.
Acknowledge ==
    /\ unacked > (IF sending = "sent" THEN 1 ELSE 0)
    /\ status[client] \in Connected
    /\ unacked' = unacked - 1
    /\ UNCHANGED <<chip, port, ethernet, pc, k, listening, client, got, params, prints, sending>>

Chip ==
    \/ \E s \in Sock : Connect(s) \/ Receive(s) \/ PeerCloses(s) \/ ConnectionEnds(s)
    \/ SendOk \/ Acknowledge

Next == Ethernet_start \/ Ethernet_wake \/ Ethernet_poll \/ Dashboard \/ Chip

Spec == Init /\ [][Next]_vars

(***************************************************************************)
(* Fairness.  The tasks run when they can; a task whose sleep is over is   *)
(* in the first-in first-out queue of its priority and runs when the other *)
(* one yields, however short the yield (SF).  Nothing more is assumed of   *)
(* FairSpec: a peer of it may stay for ever and take nothing it is sent.   *)
(*                                                                         *)
(* PeerFairness, the premise of ListensAgain: no peer keeps a connection   *)
(* open for ever, and it takes and acknowledges what it is sent; an idle   *)
(* connection does stop the server, see the README.                        *)
(***************************************************************************)
TaskFairness ==
    /\ WF_vars(Ethernet_start) /\ WF_vars(Ethernet_wake) /\ SF_vars(Ethernet_poll)
    /\ WF_vars(Dashboard)

PeerFairness ==
    /\ \A s \in Sock : WF_vars(PeerCloses(s))
    /\ WF_vars(SendOk) /\ WF_vars(Acknowledge)

FairSpec == Spec /\ TaskFairness
-----------------------------------------------------------------------------
(* Properties *)

\* Except while the chip is being reset, the UDP sender keeps an open socket that
\* the web server does not take for one of its own: startUDP and sendUDP of the
\* Ethernet task never work on a closed socket or on one of the connections.
SenderKeepsItsSocket ==
    booted /\ pc # "SPI_begin" =>
        /\ udp \in Sock
        /\ status[udp] = "UDP" /\ ~port[udp]

\* The server has at most one listening socket, although the sleeps in
\* EthernetServer_accept let connections come and go while it looks.
OneListener ==
    \A s, t \in Sock : status[s] = "LISTEN" /\ status[t] = "LISTEN" => s = t

\* While a request is answered, its connection may end, but its socket is not
\* opened again for something else: the page goes to the peer that asked.
PageGoesToItsClient ==
    pc \in {"connected", "nap", "params", "print", "wait", "stopClient"} /\ client # NumSock =>
        port[client] /\ status[client] \in Connected \cup Closing \cup {"CLOSED"}

\* send() waits for a peer that keeps the connection open: for room in the buffer,
\* or for a window that lets the chip send.
WaitsForPeer ==
    /\ \/ pc = "print" /\ prints > 0 /\ unacked = Room
       \/ pc = "wait" /\ sending = "sent"
    /\ status[client] \in Connected

\* The Ethernet task gets to run again and again, with no help from the peers:
\* neither loop of send() outlasts a connection that has ended or was half closed.
\* Only two things keep the task from running for good: a peer that leaves its
\* connection open and takes no more of the page, and the start of the chip, see
\* StartsOver.
SnifferKeepsRunning ==
    (due ~> ~due \/ pc = "SPI_begin") \/ <>[]WaitsForPeer

\* If no peer stays for ever, the server always gets back to a listening socket: every
\* way a connection can end leads to a socket that EthernetServer_begin can use.
ListensAgain ==
    PeerFairness => []<>(pc = "SPI_begin" \/ \E s \in Sock : status[s] = "LISTEN")

\* ethernet_task.c:243-246 says of Ethernet_startDhcp "Starts Ethernet session over
\* using DHCP. Also initializesW5500.": the request with dhcp=1 gets on.
StartsOver == pc = "SPI_begin" ~> pc = "params"
=============================================================================
