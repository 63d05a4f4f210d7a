------------------------------ MODULE Settings ------------------------------
(***************************************************************************)
(* What a request to the dashboard changes and what the page then shows:   *)
(* Dashboard_handleHttp and Dashboard_handleParameterChange with the       *)
(* setters and getters of ethernet_task.c, the addresses of IPAddress.c    *)
(* and, from RadioControl, the radio.  Sockets and sleeps are the subject  *)
(* of NetworkTasks.                                                        *)
(*                                                                         *)
(* A text is a sequence of digits, Dot and Letter, Letter being any other  *)
(* character.                                                              *)
(***************************************************************************)
EXTENDS RadioControl, SequencesExt

CONSTANTS
    Forms,              \* the queries the page sends: sequences of fields
    BootAddresses,      \* what DHCP may have given at the start
    Garbage,            \* what an uninitialised address may hold
    NullTexts,          \* what may be read as a text through a null pointer
    ChangesProtocol     \* whether the call in dashboard_task.c:171, which is
                        \* commented out, is there

Dot == 10
Letter == 11
Text == Seq(0 .. Letter)
Address == [1 .. 4 -> 0 .. 255]

ASSUME SettingsAssumption ==
    /\ ChangesProtocol \in BOOLEAN
    /\ BootAddresses \subseteq Address /\ Garbage \subseteq Address
    /\ NullTexts \subseteq Text
    /\ Forms \subseteq Seq([name : STRING, value : Text])

VARIABLES
    chip,           \* the registers of the W5500: this, gateway, mask
    hTargetIp, pTargetIp,
    bReadyToSend, bUsingDhcp,
    pc,             \* the Dashboard task: "idle", "query", "network", "remote", or
                    \* "stuck", in the loop of SPI_begin
    query,          \* the fields of the request that strtok has not reached
    page,           \* what the page shows
    want            \* history: the address last asked for, by name of the field

ethernet == <<chip, hTargetIp, pTargetIp, bReadyToSend, bUsingDhcp>>
vars == <<ethernet, pc, query, page, want, radioVars>>

Registers == {"tip", "gip", "msk"}
Addresses == Registers \cup {"tgt"}
NoAddress == <<0, 0, 0, 0>>
Unknown == <<>>
DefaultTarget == <<1, 9, 2, Dot, 1, 6, 8, Dot, 5, Dot, 1, 2>>
-----------------------------------------------------------------------------
(* Texts and numbers *)

\* Mutant: the accumulator is not reset behind a dot.
FromStringStep_KeepAcc(f, c) ==
    IF ~f.ok THEN f
    ELSE IF c \in 0 .. 9 THEN [f EXCEPT !.acc = (10 * @ + c) % 256]
    ELSE IF c = Dot /\ f.dots < 3 THEN [f EXCEPT !.ip[f.dots + 1] = f.acc, !.dots = @ + 1]
    ELSE [f EXCEPT !.ok = FALSE]

\* One character of IPAddress_fromString, which writes into a, also if it fails later.
FromStringStep(f, c) ==
    IF ~f.ok THEN f
    ELSE IF c \in 0 .. 9 THEN [f EXCEPT !.acc = 10 * @ + c, !.ok = 10 * f.acc + c <= 255]
    ELSE IF c = Dot /\ f.dots < 3
         THEN [f EXCEPT !.ip[f.dots + 1] = f.acc, !.dots = @ + 1, !.acc = 0]
    ELSE [f EXCEPT !.ok = FALSE]

\* What is left in ip.
IPAddress_fromString(ip, text) ==
    LET f == FoldLeft(FromStringStep, [ok |-> TRUE, ip |-> ip, dots |-> 0, acc |-> 0], text)
    IN  IF f.ok /\ f.dots = 3 THEN [f.ip EXCEPT ![4] = f.acc] ELSE f.ip

\* %u of a byte.
Decimal(n) ==
    IF n < 10 THEN <<n>>
    ELSE IF n < 100 THEN <<n \div 10, n % 10>>
    ELSE <<n \div 100, (n \div 10) % 10, n % 10>>

IPAddress_toString(ip) ==
    Decimal(ip[1]) \o <<Dot>> \o Decimal(ip[2]) \o <<Dot>>
        \o Decimal(ip[3]) \o <<Dot>> \o Decimal(ip[4])

\* The number that digits stand for.
Number(digits) == FoldLeft(LAMBDA n, c : 10 * n + c, 0, digits)

\* atoi, in a uint8_t.
Channel(text) ==
    LET end == SelectInSeq(text, LAMBDA c : c \notin 0 .. 9)
    IN  Number(IF end = 0 THEN text ELSE SubSeq(text, 1, end - 1)) % 256
-----------------------------------------------------------------------------
(* The query *)

\* strtok up to "=" and up to "&": delimiters in front of a token are skipped, so that
\* an empty field has the whole next one, with its name, as its value.  An empty field
\* at the end has none, a null pointer, and what is read through it is not defined.
NextParameter(q, null) ==
    IF Head(q).value # <<>> THEN [parameter |-> Head(q), rest |-> Tail(q)]
    ELSE IF Len(q) = 1
         THEN [parameter |-> [name |-> Head(q).name, value |-> null], rest |-> <<>>]
    ELSE [parameter |-> [name |-> Head(q).name, value |-> <<Letter>>],
          rest |-> Tail(Tail(q))]

\* *value; the zero behind an empty text is another character.
First(v) == IF v = <<>> THEN Letter ELSE Head(v)
-----------------------------------------------------------------------------
(* The setters *)

Ethernet_setThisIp(v) ==
    /\ bUsingDhcp' = FALSE
    /\ \E g \in Garbage : chip' = [chip EXCEPT !["tip"] = IPAddress_fromString(g, v)]
    /\ UNCHANGED <<hTargetIp, pTargetIp, bReadyToSend>>

\* Ethernet_setGatewayIp and Ethernet_setMask.
Ethernet_setRegister(n, v) ==
    /\ \E g \in Garbage : chip' = [chip EXCEPT ![n] = IPAddress_fromString(g, v)]
    /\ UNCHANGED <<hTargetIp, pTargetIp, bReadyToSend, bUsingDhcp>>

\* Mutant: the text is not copied.
Ethernet_setTargetIp_OldText(v) ==
    /\ hTargetIp' = IPAddress_fromString(hTargetIp, v)
    /\ bReadyToSend' = TRUE
    /\ UNCHANGED <<chip, pTargetIp, bUsingDhcp>>

Ethernet_setTargetIp(v) ==
    /\ hTargetIp' = IPAddress_fromString(hTargetIp, v)
    /\ pTargetIp' = v
    /\ bReadyToSend' = TRUE
    /\ UNCHANGED <<chip, bUsingDhcp>>

\* Ethernet_startSniffing and Ethernet_stopSniffing, by the first character.
SetRunning(v) ==
    /\ bReadyToSend' = IF First(v) \in {0, 1} THEN First(v) = 1 ELSE bReadyToSend
    /\ UNCHANGED <<chip, hTargetIp, pTargetIp, bUsingDhcp>>

\* Ethernet_startDhcp, which does not come back from the start of the chip.
Ethernet_startDhcp ==
    /\ bUsingDhcp' = TRUE
    /\ UNCHANGED <<chip, hTargetIp, pTargetIp, bReadyToSend>>

\* The history of what was asked: nothing is known if the text is no address.  The
\* reference is the parts between the dots: three dots, and no part above 255.
Cuts(v) ==
    LET dots == {i \in DOMAIN v : v[i] = Dot}
    IN  {d \in dots \X dots \X dots :
           d[1] < d[2] /\ d[2] < d[3] /\ dots = {d[1], d[2], d[3]}}

Parts(v, d) ==
    <<Number(SubSeq(v, 1, d[1] - 1)), Number(SubSeq(v, d[1] + 1, d[2] - 1)),
      Number(SubSeq(v, d[2] + 1, d[3] - 1)), Number(SubSeq(v, d[3] + 1, Len(v)))>>

Asked(v) ==
    LET addresses == {Parts(v, d) : d \in Cuts(v)} \cap Address
    IN  IF addresses # {} /\ Letter \notin ToSet(v) THEN CHOOSE a \in addresses : TRUE
        ELSE Unknown

\* Dashboard_handleParameterChange.  dhcp=0 and a name that is not known do nothing.
Dashboard_handleParameterChange(n, v) ==
    /\ want' = IF n \in Addresses THEN [want EXCEPT ![n] = Asked(v)] ELSE want
    /\ pc' = IF n = "dhcp" /\ First(v) = 1 THEN "stuck" ELSE pc
    /\ CASE n = "tip" -> Ethernet_setThisIp(v)
         [] n \in {"gip", "msk"} -> Ethernet_setRegister(n, v)
         [] n = "tgt" -> Ethernet_setTargetIp(v)
         [] n = "run" -> SetRunning(v)
         [] n = "dhcp" /\ First(v) = 1 -> Ethernet_startDhcp
         [] OTHER -> UNCHANGED ethernet
    /\ CASE n = "chn" -> Radio_setRXChannel(Channel(v))
         [] n = "pro" /\ ChangesProtocol ->
              Radio_stopRX(IF First(v) = 0 THEN "BLE_1M" ELSE "IEEE_802_15_4")
         [] OTHER -> UNCHANGED radioVars
-----------------------------------------------------------------------------
(* The tasks *)

\* Ethernet_mainTask has started the chip; the addresses are those of DHCP, or
\* none.  pTargetIp has a text, hTargetIp, whose setting is commented out, nothing.
Init ==
    /\ RadioInit
    /\ \E a \in BootAddresses : chip = [n \in Registers |-> a]
    /\ hTargetIp = NoAddress /\ pTargetIp = DefaultTarget
    /\ bReadyToSend = FALSE /\ bUsingDhcp = TRUE
    /\ pc = "idle" /\ query = <<>>
    /\ page = [tip |-> <<>>, gip |-> <<>>, msk |-> <<>>, tgt |-> <<>>,
               run |-> FALSE, served |-> FALSE]
    /\ want = [n \in Addresses |-> Unknown]

Request ==
    /\ pc = "idle"
    /\ query' \in Forms
    /\ pc' = "query"
    /\ UNCHANGED <<ethernet, page, want, radioVars>>

\* The next parameter; a change of the radio that has two parts is over first.
HandleParameter ==
    /\ pc = "query" /\ query # <<>> /\ change = "none"
    /\ \E null \in NullTexts :
          LET next == NextParameter(query, null)
          IN  /\ Dashboard_handleParameterChange(next.parameter.name, next.parameter.value)
              /\ query' = next.rest
    /\ UNCHANGED page

\* Mutant: only one parameter of a request is handled.
ShowNetwork_AfterOne ==
    /\ pc = "query" /\ change = "none"
    /\ page' = [page EXCEPT !["tip"] = IPAddress_toString(chip["tip"]),
                           !["gip"] = IPAddress_toString(chip["gip"]),
                           !["msk"] = IPAddress_toString(chip["msk"])]
    /\ pc' = "remote"
    /\ UNCHANGED <<ethernet, query, want, radioVars>>

\* Html_sectionNetworkInfo with the getters that give it its arguments.
ShowNetwork ==
    /\ pc = "query" /\ query = <<>> /\ change = "none"
    /\ page' = [page EXCEPT !["tip"] = IPAddress_toString(chip["tip"]),
                           !["gip"] = IPAddress_toString(chip["gip"]),
                           !["msk"] = IPAddress_toString(chip["msk"])]
    /\ pc' = "remote"
    /\ UNCHANGED <<ethernet, query, want, radioVars>>

\* Html_sectionRemoteTarget.
ShowRemote ==
    /\ pc = "remote"
    /\ page' = [page EXCEPT !["tgt"] = pTargetIp, !["run"] = bReadyToSend, !["served"] = TRUE]
    /\ pc' = "idle"
    /\ UNCHANGED <<ethernet, query, want, radioVars>>

Radio == (Radio_callback \/ RadioGoesOn) /\ UNCHANGED <<ethernet, pc, query, page, want>>

Next == Request \/ HandleParameter \/ ShowNetwork \/ ShowRemote \/ Radio

Spec == Init /\ [][Next]_vars
-----------------------------------------------------------------------------
(* Properties *)

TypeOK ==
    /\ RadioTypeOK
    /\ chip \in [Registers -> Address]
    /\ hTargetIp \in Address
    /\ bReadyToSend \in BOOLEAN /\ bUsingDhcp \in BOOLEAN
    /\ pc \in {"idle", "query", "remote", "stuck"}
    /\ pc = "idle" => query = <<>>

\* Once a page has been sent, it shows and the chip holds, for each of the three
\* addresses, what was last asked for in a text that is an address, whatever other
\* fields, empty ones among them, came with it.
ShowsWhatWasSet ==
    pc = "idle" =>
        \A n \in Registers : want[n] # Unknown =>
            chip[n] = want[n] /\ Asked(page[n]) = want[n]

\* While the page says that the sniffer runs, and only then, frames are sent, and to
\* the target the page shows if that text is an address.
SendsWhereThePageSays ==
    pc = "idle" /\ bReadyToSend /\ hTargetIp # NoAddress =>
        /\ page["run"]
        /\ Asked(page["tgt"]) # Unknown => hTargetIp = Asked(page["tgt"])
=============================================================================
