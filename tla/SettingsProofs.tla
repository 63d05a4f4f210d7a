----------------------------- MODULE SettingsProofs -----------------------------
(***************************************************************************)
(* Proofs about RadioControl: that the commands agree with each other and  *)
(* that the core receives what it should, for every sequence of changes,   *)
(* with the callback between any two steps.  And about Settings: that the  *)
(* page shows what was set, that frames go where it says, and that the     *)
(* dashboard uses the radio as RadioControl allows, for all forms,         *)
(* addresses and garbage.                                                  *)
(*                                                                         *)
(* The radio comes first, then the texts.  A text is read character by     *)
(* character, which is a fold; Induction turns a fold into a run, the      *)
(* sequence of its intermediate values, and what holds of the run is shown *)
(* by induction.                                                           *)
(***************************************************************************)
EXTENDS Settings, Induction, SequenceTheorems

-----------------------------------------------------------------------------
(* The radio *)

\* The whitening is the initial one as long as the channel is, but for the moment
\* between the two statements that change them.
ChannelInv ==
    LET c == channel["BLE_1M"]
    IN  /\ c \in (37 .. 39) \cup {102}
        /\ ~bOverride \/ change = "whitening" => c \in 37 .. 39
        /\ bOverride /\ change # "whitening" => c = 102

\* While the protocol changes nothing is received.
ClosedInv == change \in Protocol => ~core.rx

RadioInv ==
    /\ RadioTypeOK /\ CommandsAgree /\ ReceivesItsProtocol
    /\ ChannelInv /\ ClosedInv

\* The three advertising channels.
LEMMA Frequencies ==
    /\ BleFrequency[37] = 2402 /\ BleFrequency[38] = 2426 /\ BleFrequency[39] = 2480
    /\ \A c \in 37 .. 39 : BleFrequency[c] \in Nat /\ ChannelFrequency(c) = BleFrequency[c]
    /\ ChannelFrequency(102) = BleFrequency[37]
<1>1. 37 \in 37 .. 39 /\ 38 \in 37 .. 39 /\ 39 \in 37 .. 39 /\ 102 \notin 37 .. 39
    OBVIOUS
<1>2. BleFrequency[37] = 2402 /\ BleFrequency[38] = 2426 /\ BleFrequency[39] = 2480
    BY <1>1 DEF BleFrequency
<1>3. \A c \in 37 .. 39 : c = 37 \/ c = 38 \/ c = 39
    OBVIOUS
<1> QED
    BY <1>1, <1>2, <1>3 DEF ChannelFrequency

\* Every channel of IEEE 802.15.4 has a frequency of its band.
LEMMA BandFrequency ==
    /\ \A c \in 11 .. 26 : 2405 + 5 * (c - 11) \in IeeeFrequencies
    /\ IeeeFrequencies \subseteq Nat
    /\ 2405 \in IeeeFrequencies
<1>1. \A c \in 11 .. 26 : 2405 + 5 * (c - 11) \in IeeeFrequencies
    BY DEF IeeeFrequencies
<1>2. IeeeFrequencies \subseteq Nat
    BY DEF IeeeFrequencies
<1>3. 11 \in 11 .. 26 /\ 2405 + 5 * (11 - 11) = 2405
    OBVIOUS
<1> QED
    BY <1>1, <1>2, <1>3

\* RX for protocol p, started when the commands are as they should be, runs on the
\* channel and with the whitening it should, unless a change of channel is half done.
LEMMA BeginRX ==
    ASSUME RadioTypeOK, CommandsAgree, ChannelInv,
           NEW p \in Protocol, NEW r,
           r \in [setup : Protocol \cup {"closed"}, frequency : Nat, rx : BOOLEAN,
                  whitening : 0 .. 255],
           p = "IEEE_802_15_4" => r.frequency \in IeeeFrequencies
    PROVE  /\ Radio_beginRX(r, p) \in [setup : Protocol \cup {"closed"}, frequency : Nat,
                                       rx : BOOLEAN, whitening : 0 .. 255]
           /\ Radio_beginRX(r, p).setup = r.setup
           /\ p = "BLE_1M" =>
                /\ Radio_beginRX(r, p).frequency \in {BleFrequency[c] : c \in 37 .. 39}
                /\ \/ change = "whitening"
                   \/ Radio_beginRX(r, p).frequency
                        = BleFrequency[Radio_beginRX(r, p).whitening]
           /\ p = "IEEE_802_15_4" => Radio_beginRX(r, p).frequency \in IeeeFrequencies
<1> DEFINE b == channel["BLE_1M"]
<1> DEFINE w == IF bOverride THEN 37 ELSE b
<1> DEFINE f == IF p = "BLE_1M" THEN ChannelFrequency(channel[p]) ELSE r.frequency
<1>1. b \in (37 .. 39) \cup {102} /\ 37 \in 37 .. 39
    BY DEF ChannelInv
<1>2. ChannelFrequency(b) \in {BleFrequency[d] : d \in 37 .. 39} /\ ChannelFrequency(b) \in Nat
    <2>1. CASE b \in 37 .. 39
        BY <2>1, Frequencies
    <2>2. CASE b = 102
        BY <2>2, <1>1, Frequencies
    <2> QED
        BY <1>1, <2>1, <2>2
<1>3. Radio_beginRX(r, p)
        = [setup |-> r.setup, frequency |-> f, rx |-> TRUE, whitening |-> w]
    BY DEF Radio_beginRX, Radio_getRXcmd, InitialWhitening
<1>4. p = "BLE_1M" => f = ChannelFrequency(b)
    OBVIOUS
<1>5. p = "IEEE_802_15_4" => f = r.frequency
    OBVIOUS
<1>6. f \in Nat /\ w \in 0 .. 255
    BY <1>1, <1>2, <1>4
<1>7. p = "BLE_1M" /\ change # "whitening" => f = BleFrequency[w]
    <2> SUFFICES ASSUME p = "BLE_1M", change # "whitening"
                 PROVE  ChannelFrequency(b) = BleFrequency[w]
        BY <1>4
    <2>1. CASE bOverride
        BY <2>1, Frequencies DEF ChannelInv
    <2>2. CASE ~bOverride
        BY <2>2, Frequencies DEF ChannelInv
    <2> QED
        BY <2>1, <2>2
<1> HIDE DEF b, w, f
<1> QED
    BY <1>2, <1>3, <1>4, <1>5, <1>6, <1>7

LEMMA RadioInitInv == RadioInit => RadioInv
<1> SUFFICES ASSUME RadioInit PROVE RadioInv
    OBVIOUS
<1> USE DEF RadioInit, RF_cmdFs_bt5le1m_0, RF_cmdFs_ieee154_1, RF_cmdBle5GenericRx_bt5le1m_0,
            RF_cmdIeeeRx_ieee154_1, InitialWhitening, Protocol
<1>1. fs["BLE_1M"] = 2402 /\ fs["IEEE_802_15_4"] = 2405
    OBVIOUS
<1>2. channel["BLE_1M"] = 102
    OBVIOUS
<1>3. RadioTypeOK
    <2>1. fs \in [Protocol -> Nat] /\ channel \in [Protocol -> 0 .. 255]
        OBVIOUS
    <2>2. core \in [setup : Protocol \cup {"closed"}, frequency : Nat, rx : BOOLEAN,
                    whitening : 0 .. 255]
        OBVIOUS
    <2>3. bOverride \in BOOLEAN /\ torn \in BOOLEAN
        BY Zenon
    <2> QED
        BY <2>1, <2>2, <2>3 DEF RadioTypeOK
<1>4. CommandsAgree
    BY <1>1, <1>2, Frequencies, BandFrequency DEF CommandsAgree
<1>5. ReceivesItsProtocol
    BY <1>1, BandFrequency DEF ReceivesItsProtocol
<1> QED
    BY <1>2, <1>3, <1>4, <1>5 DEF RadioInv, ChannelInv, ClosedInv

LEMMA RadioStep == RadioInv /\ [RadioNext]_radioVars => RadioInv'
<1> SUFFICES ASSUME RadioInv, [RadioNext]_radioVars PROVE RadioInv'
    OBVIOUS
<1> USE DEF RadioInv
<1>1. CASE Radio_callback
    <2>1. /\ core.rx /\ currentProtocol \in Protocol /\ change \notin Protocol
          /\ core' = Radio_beginRX(core, currentProtocol) /\ core.setup = currentProtocol
          /\ torn' = (change = "whitening")
          /\ UNCHANGED <<currentProtocol, fs, channel, bOverride, change>>
        BY <1>1 DEF Radio_callback, RadioTypeOK, ClosedInv, ReceivesItsProtocol
    <2>2. currentProtocol = "IEEE_802_15_4" => core.frequency \in IeeeFrequencies
        BY <2>1 DEF ReceivesItsProtocol
    <2>3. /\ core' \in [setup : Protocol \cup {"closed"}, frequency : Nat, rx : BOOLEAN,
                        whitening : 0 .. 255]
          /\ core'.setup = core.setup
          /\ currentProtocol = "BLE_1M" =>
               /\ core'.frequency \in {BleFrequency[c] : c \in 37 .. 39}
               /\ change = "whitening" \/ core'.frequency = BleFrequency[core'.whitening]
          /\ currentProtocol = "IEEE_802_15_4" => core'.frequency \in IeeeFrequencies
        BY <2>1, <2>2, BeginRX DEF RadioTypeOK
    <2>4. RadioTypeOK'
        BY <2>1, <2>3 DEF RadioTypeOK
    <2>5. ReceivesItsProtocol'
        BY <2>1, <2>3 DEF ReceivesItsProtocol
    <2>6. (CommandsAgree /\ ChannelInv /\ ClosedInv)'
        BY <2>1 DEF CommandsAgree, ChannelInv, ClosedInv, ChannelFrequency
    <2> QED
        BY <2>4, <2>5, <2>6
<1>2. CASE Radio_setRXChannel_whitening
    <2>1. /\ change = "whitening" /\ change' = "none" /\ bOverride' = FALSE
          /\ UNCHANGED <<currentProtocol, fs, channel, core, torn>>
        BY <1>2 DEF Radio_setRXChannel_whitening
    <2>2. RadioTypeOK'
        BY <2>1 DEF RadioTypeOK
    <2>3. CommandsAgree'
        BY <2>1 DEF CommandsAgree, ChannelFrequency
    <2>4. ReceivesItsProtocol'
        BY <2>1 DEF ReceivesItsProtocol
    <2>5. ChannelInv' /\ ClosedInv'
        BY <2>1 DEF ChannelInv, ClosedInv, Protocol
    <2> QED
        BY <2>2, <2>3, <2>4, <2>5
<1>3. CASE Radio_setCurrentProtocol
    <2> DEFINE r == Radio_setFS(Radio_openRF(change), change)
    <2>1. /\ change \in Protocol /\ currentProtocol' = change
          /\ core' = Radio_beginRX(r, change)
          /\ change' = "none" /\ torn' = FALSE
          /\ UNCHANGED <<fs, channel, bOverride>>
        BY <1>3 DEF Radio_setCurrentProtocol
    <2>2. change # "whitening" /\ change # "none"
        BY <2>1 DEF Protocol
    <2>3. fs["BLE_1M"] \in Nat /\ fs["IEEE_802_15_4"] \in IeeeFrequencies /\ fs[change] \in Nat
        BY <2>1 DEF RadioTypeOK, CommandsAgree, Protocol
    <2>4. r = [setup |-> change, frequency |-> fs[change], rx |-> FALSE, whitening |-> 0]
        <3>1. Radio_openRF(change)
                = [setup |-> change, frequency |-> 0, rx |-> FALSE, whitening |-> 0]
            BY DEF Radio_openRF, Radio_getRadioSetup
        <3> QED
            BY <3>1 DEF Radio_setFS, Radio_getFScmd
    <2>5. /\ core' \in [setup : Protocol \cup {"closed"}, frequency : Nat, rx : BOOLEAN,
                        whitening : 0 .. 255]
          /\ core'.setup = change
          /\ change = "BLE_1M" =>
               /\ core'.frequency \in {BleFrequency[c] : c \in 37 .. 39}
               /\ core'.frequency = BleFrequency[core'.whitening]
          /\ change = "IEEE_802_15_4" => core'.frequency \in IeeeFrequencies
        <3>1. /\ r \in [setup : Protocol \cup {"closed"}, frequency : Nat, rx : BOOLEAN,
                        whitening : 0 .. 255]
              /\ r.setup = change
              /\ change = "IEEE_802_15_4" => r.frequency \in IeeeFrequencies
            BY <2>1, <2>3, <2>4
        <3> HIDE DEF r
        <3> QED
            BY <2>1, <2>2, <3>1, BeginRX
    <2>6. RadioTypeOK'
        BY <2>1, <2>5 DEF RadioTypeOK
    <2>7. ReceivesItsProtocol'
        BY <2>1, <2>5 DEF ReceivesItsProtocol
    <2>8. (CommandsAgree /\ ChannelInv /\ ClosedInv)'
        BY <2>1, <2>2 DEF CommandsAgree, ChannelInv, ClosedInv, ChannelFrequency, Protocol
    <2> QED
        BY <2>6, <2>7, <2>8
<1>4. ASSUME NEW n \in 0 .. 255, Radio_setRXChannel(n) PROVE RadioInv'
    <2>1. change = "none" /\ UNCHANGED <<currentProtocol, bOverride, core, torn>>
        BY <1>4 DEF Radio_setRXChannel
    <2>2. ReceivesItsProtocol'
        BY <2>1 DEF ReceivesItsProtocol
    <2>3. CASE currentProtocol = "BLE_1M" /\ n \in 37 .. 39 /\ SetBleChannel(n)
        <3>1. /\ fs' = [fs EXCEPT !["BLE_1M"] = BleFrequency[n]]
              /\ channel' = [channel EXCEPT !["BLE_1M"] = n]
              /\ change' = "whitening"
            BY <2>3 DEF SetBleChannel
        <3>2. /\ fs'["BLE_1M"] = BleFrequency[n] /\ fs'["IEEE_802_15_4"] = fs["IEEE_802_15_4"]
              /\ channel'["BLE_1M"] = n
            BY <3>1 DEF RadioTypeOK, Protocol
        <3>3. RadioTypeOK'
            BY <2>1, <2>3, <3>1, Frequencies DEF RadioTypeOK, Protocol
        <3>4. CommandsAgree'
            BY <2>3, <3>2, Frequencies DEF CommandsAgree, ChannelFrequency
        <3>5. ChannelInv' /\ ClosedInv'
            BY <2>3, <3>1, <3>2 DEF ChannelInv, ClosedInv, Protocol
        <3> QED
            BY <2>2, <3>3, <3>4, <3>5
    <2>4. CASE /\ n \in 11 .. 26
               /\ fs' = [fs EXCEPT !["IEEE_802_15_4"] = 2405 + 5 * (n - 11)]
               /\ UNCHANGED <<channel, change>>
        <3>1. 2405 + 5 * (n - 11) \in IeeeFrequencies /\ 2405 + 5 * (n - 11) \in Nat
            BY <2>4, BandFrequency
        <3>2. fs'["BLE_1M"] = fs["BLE_1M"] /\ fs'["IEEE_802_15_4"] = 2405 + 5 * (n - 11)
            BY <2>4 DEF RadioTypeOK, Protocol
        <3>3. RadioTypeOK'
            BY <2>1, <2>4, <3>1 DEF RadioTypeOK, Protocol
        <3>4. CommandsAgree' /\ ChannelInv' /\ ClosedInv'
            BY <2>1, <2>4, <3>1, <3>2 DEF CommandsAgree, ChannelInv, ClosedInv, ChannelFrequency
        <3> QED
            BY <2>2, <3>3, <3>4
    <2>5. CASE UNCHANGED <<fs, channel, change>>
        BY <2>1, <2>2, <2>5
        DEF RadioTypeOK, CommandsAgree, ChannelInv, ClosedInv, ChannelFrequency
    <2> QED
        BY <1>4, <2>3, <2>4, <2>5 DEF Radio_setRXChannel
<1>5. ASSUME NEW p \in Protocol, Radio_stopRX(p) PROVE RadioInv'
    <2>1. /\ change = "none" /\ change' = p /\ core' = Off
          /\ UNCHANGED <<currentProtocol, fs, channel, bOverride, torn>>
        BY <1>5 DEF Radio_stopRX
    <2>2. RadioTypeOK'
        BY <2>1 DEF RadioTypeOK, Off
    <2>3. ReceivesItsProtocol' /\ ClosedInv'
        BY <2>1 DEF ReceivesItsProtocol, ClosedInv, Off
    <2>4. CommandsAgree' /\ ChannelInv'
        BY <2>1 DEF CommandsAgree, ChannelInv, ChannelFrequency, Protocol
    <2> QED
        BY <2>2, <2>3, <2>4
<1>6. CASE UNCHANGED radioVars
    BY <1>6 DEF radioVars, RadioTypeOK, CommandsAgree, ReceivesItsProtocol, ChannelInv,
                ClosedInv, ChannelFrequency
<1> QED
    BY <1>1, <1>2, <1>3, <1>4, <1>5, <1>6 DEF RadioNext, RadioGoesOn

\* RadioInv holds in every state, whatever is changed in whatever order and whenever
\* the ring is full.
THEOREM RadioInvariant == RadioSpec => []RadioInv
<1> QED
    BY RadioInitInv, RadioStep, PTL DEF RadioSpec

\* Commands and core keep their types (Radio_initObjects, Radio_setRXChannel,
\* Radio_setCurrentProtocol, Radio_callback).
THEOREM RadioTyped == RadioSpec => []RadioTypeOK
<1>1. RadioInv => RadioTypeOK
    BY DEF RadioInv
<1> QED
    BY <1>1, RadioInvariant, PTL

\* The synthesizer and RX commands of a protocol stand for one channel of it,
\* whatever numbers Radio_setRXChannel is given.
THEOREM CommandsAgreeAlways == RadioSpec => []CommandsAgree
<1>1. RadioInv => CommandsAgree
    BY DEF RadioInv
<1> QED
    BY <1>1, RadioInvariant, PTL

\* RX runs with the setup of currentProtocol, on one of its frequencies, and with the
\* whitening of that channel unless it was started between the two statements.
THEOREM ReceivesItsProtocolAlways == RadioSpec => []ReceivesItsProtocol
<1>1. RadioInv => ReceivesItsProtocol
    BY DEF RadioInv
<1> QED
    BY <1>1, RadioInvariant, PTL

-----------------------------------------------------------------------------
(* Numbers *)

\* The values that digits give one after the other.
AddsUp(r, s) ==
  /\ r \in [0 .. Len(s) -> Nat]
  /\ r[0] = 0
  /\ \A i \in 1 .. Len(s) : r[i] = 10 * r[i - 1] + s[i]

\* A number is the last of them.
LEMMA NumberRun ==
  ASSUME NEW s \in Seq(Nat)
  PROVE  \E r : AddsUp(r, s) /\ r[Len(s)] = Number(s)
<1> DEFINE n == Len(s)
           step == [p \in Nat \X Nat |-> 10 * p[1] + p[2]]
           Eq(f) == f = [u \in SUBSET DOMAIN s |->
                           IF u = {} THEN 0 ELSE 10 * f[u \ {Max(u)}] + s[Max(u)]]
           it == CHOOSE f : Eq(f)
<1>1. n \in Nat /\ DOMAIN s = 1 .. n /\ s \in [1 .. n -> Nat]
  OBVIOUS
<1>2. Number(s) = it[DOMAIN s]
  BY Zenon DEF Number, FoldLeft, MapThenFoldSet
<1>3. step \in [Nat \X Nat -> Nat] /\ \A a, c \in Nat : step[<<a, c>>] = 10 * a + c
  <2>1. \A p \in Nat \X Nat : 10 * p[1] + p[2] \in Nat
    OBVIOUS
  <2> QED BY <2>1
<1> HIDE DEF n, step
<1>4. \A u \in SUBSET (1 .. n) :
        u # {} => s[Max(u)] \in Nat /\ u \ {Max(u)} \in SUBSET (1 .. n)
  <2> SUFFICES ASSUME NEW u \in SUBSET (1 .. n), u # {}
               PROVE  s[Max(u)] \in Nat /\ u \ {Max(u)} \in SUBSET (1 .. n)
    OBVIOUS
  <2>1. Max(u) \in u
    BY <1>1, Greatest
  <2> QED BY <1>1, <2>1
<1>5. Eq(it)
  <2>1. PICK f \in [SUBSET (1 .. n) -> Nat] : IsFold(f, 0, step, s, n)
    BY <1>1, <1>3, FoldExists
  <2>2. \A u \in SUBSET (1 .. n) :
          f[u] = IF u = {} THEN 0 ELSE 10 * f[u \ {Max(u)}] + s[Max(u)]
    BY <1>3, <1>4, <2>1 DEF IsFold
  <2>3. Eq(f)
    BY <1>1, <2>2
  <2> HIDE DEF Eq
  <2> QED BY <2>3
<1>6. /\ it[{}] = 0
      /\ \A u \in SUBSET (1 .. n) :
           u # {} => it[u] = 10 * it[u \ {Max(u)}] + s[Max(u)]
  <2> HIDE DEF it
  <2> QED BY <1>1, <1>5
<1> HIDE DEF it
<1>7. IsFoldIn(it, Nat, 0, step, s, n)
  BY <1>3, <1>4, <1>6 DEF IsFoldIn
<1>8. PICK r \in [0 .. n -> Nat] : IsRun(r, 0, it[1 .. n], step, s, n)
  <2>1. /\ 0 \in Nat /\ n \in Nat /\ s \in [1 .. n -> Nat]
        /\ step \in [Nat \X Nat -> Nat]
    BY <1>1, <1>3
  <2>2. \E r \in [0 .. n -> Nat] : IsRun(r, 0, it[1 .. n], step, s, n)
    BY <1>7, <2>1, FoldRun
  <2> QED BY <2>2
<1>9. ASSUME NEW i \in 1 .. n PROVE r[i] = 10 * r[i - 1] + s[i]
  <2>1. i - 1 \in 0 .. n /\ s[i] \in Nat
    BY <1>1
  <2> QED BY <1>3, <1>8, <2>1 DEF IsRun
<1> QED BY <1>1, <1>2, <1>8, <1>9 DEF n, IsRun, AddsUp

-----------------------------------------------------------------------------
(* Addresses from texts *)

\* What IPAddress_fromString starts with, and what it keeps on its way.
Scanned(ip, dots, acc) == [ok |-> TRUE, ip |-> ip, dots |-> dots, acc |-> acc]
Start(ip) == Scanned(ip, 0, 0)

Scan ==
  {f \in [ok : BOOLEAN, ip : Address, dots : 0 .. 3, acc : Nat] : f.ok => f.acc <= 255}

\* A character keeps that.
LEMMA ScanTyped ==
  ASSUME NEW f \in Scan, NEW c \in 0 .. Letter
  PROVE  FromStringStep(f, c) \in Scan
<1>1. /\ f \in [ok : BOOLEAN, ip : Address, dots : 0 .. 3, acc : Nat]
      /\ f.ok => f.acc <= 255
  BY DEF Scan
<1>2. CASE ~f.ok
  BY <1>2 DEF FromStringStep
<1>3. CASE f.ok /\ c \in 0 .. 9
  <2>1. FromStringStep(f, c) = [f EXCEPT !.acc = 10 * f.acc + c, !.ok = (10 * f.acc + c <= 255)]
    BY <1>3 DEF FromStringStep
  <2>2. 10 * f.acc + c \in Nat /\ (10 * f.acc + c <= 255) \in BOOLEAN
    BY <1>1
  <2> DEFINE a == 10 * f.acc + c
             b == (10 * f.acc + c <= 255)
  <2>3. a \in Nat /\ b \in BOOLEAN /\ (b => a <= 255)
    BY <2>2
  <2>4. FromStringStep(f, c) = [f EXCEPT !.acc = a, !.ok = b]
    BY <2>1
  <2> HIDE DEF a, b
  <2> QED BY <1>1, <2>3, <2>4 DEF Scan
<1>4. CASE f.ok /\ c = Dot /\ f.dots < 3
  <2>1. FromStringStep(f, c)
          = [f EXCEPT !.ip[f.dots + 1] = f.acc, !.dots = f.dots + 1, !.acc = 0]
    BY <1>4 DEF FromStringStep, Dot
  <2>2. f.dots + 1 \in 1 .. 3 /\ f.acc \in 0 .. 255
    BY <1>1, <1>4
  <2>3. [f.ip EXCEPT ![f.dots + 1] = f.acc] \in Address
    BY <1>1, <2>2 DEF Address
  <2> DEFINE p == [f.ip EXCEPT ![f.dots + 1] = f.acc]
             d == f.dots + 1
  <2>4. FromStringStep(f, c) = [f EXCEPT !.ip = p, !.dots = d, !.acc = 0]
    BY <1>1, <2>1
  <2>5. p \in Address /\ d \in 0 .. 3
    BY <2>2, <2>3
  <2> HIDE DEF p, d
  <2>6. FromStringStep(f, c) = [ok |-> f.ok, ip |-> p, dots |-> d, acc |-> 0]
    BY <1>1, <2>4
  <2> QED BY <1>1, <2>5, <2>6 DEF Scan
<1>5. CASE f.ok /\ ~(c \in 0 .. 9) /\ ~(c = Dot /\ f.dots < 3)
  BY <1>1, <1>5 DEF FromStringStep, Scan
<1> QED BY <1>1, <1>2, <1>3, <1>4, <1>5

\* IPAddress_fromString goes from character to character.
Scans(r, text) ==
  /\ r \in [0 .. Len(text) -> Scan]
  /\ \A i \in 1 .. Len(text) : r[i] = FromStringStep(r[i - 1], text[i])

Result(f) == IF f.ok /\ f.dots = 3 THEN [f.ip EXCEPT ![4] = f.acc] ELSE f.ip

LEMMA ScanRun ==
  ASSUME NEW ip \in Address, NEW text \in Text
  PROVE  \E r : /\ Scans(r, text) /\ r[0] = Start(ip)
               /\ IPAddress_fromString(ip, text) = Result(r[Len(text)])
<1> DEFINE n == Len(text)
           C == 0 .. Letter
           step == [p \in Scan \X C |-> FromStringStep(p[1], p[2])]
           Eq(f) == f = [u \in SUBSET DOMAIN text |->
                           IF u = {} THEN Start(ip)
                           ELSE FromStringStep(f[u \ {Max(u)}], text[Max(u)])]
           it == CHOOSE f : Eq(f)
           last == it[DOMAIN text]
<1>1. n \in Nat /\ DOMAIN text = 1 .. n /\ text \in [1 .. n -> C]
  <2>1. text \in Seq(C)
    BY DEF Text
  <2> HIDE DEF C
  <2> QED BY <2>1
<1>2. IPAddress_fromString(ip, text) = Result(last)
  BY Zenon DEF IPAddress_fromString, FoldLeft, MapThenFoldSet, Start, Scanned, Result
<1>3. /\ step \in [Scan \X C -> Scan]
      /\ \A f \in Scan, c \in C : step[<<f, c>>] = FromStringStep(f, c)
  BY ScanTyped
<1>4. Start(ip) \in Scan
  BY DEF Start, Scanned, Scan
<1> HIDE DEF n, step, C
<1>5. \A u \in SUBSET (1 .. n) :
        u # {} => text[Max(u)] \in C /\ u \ {Max(u)} \in SUBSET (1 .. n)
  <2> SUFFICES ASSUME NEW u \in SUBSET (1 .. n), u # {}
               PROVE  text[Max(u)] \in C /\ u \ {Max(u)} \in SUBSET (1 .. n)
    OBVIOUS
  <2>1. Max(u) \in u
    BY <1>1, Greatest
  <2> QED BY <1>1, <2>1
<1>6. Eq(it)
  <2>1. PICK f \in [SUBSET (1 .. n) -> Scan] : IsFold(f, Start(ip), step, text, n)
    BY <1>1, <1>3, <1>4, FoldExists
  <2>2. \A u \in SUBSET (1 .. n) :
          f[u] = IF u = {} THEN Start(ip)
                 ELSE FromStringStep(f[u \ {Max(u)}], text[Max(u)])
    BY <1>3, <1>5, <2>1 DEF IsFold
  <2>3. Eq(f)
    BY <1>1, <2>2
  <2> HIDE DEF Eq
  <2> QED BY <2>3
<1>7. /\ it[{}] = Start(ip)
      /\ \A u \in SUBSET (1 .. n) :
           u # {} => it[u] = FromStringStep(it[u \ {Max(u)}], text[Max(u)])
  <2> HIDE DEF it
  <2> QED BY <1>1, <1>6
<1> HIDE DEF it
<1>8. IsFoldIn(it, Scan, Start(ip), step, text, n)
  BY <1>3, <1>5, <1>7 DEF IsFoldIn
<1>9. PICK r \in [0 .. n -> Scan] : IsRun(r, Start(ip), it[1 .. n], step, text, n)
  BY <1>1, <1>3, <1>4, <1>8, FoldRun
<1>10. ASSUME NEW i \in 1 .. n PROVE r[i] = FromStringStep(r[i - 1], text[i])
  <2>1. i - 1 \in 0 .. n /\ text[i] \in C
    BY <1>1
  <2> QED BY <1>3, <1>9, <2>1 DEF IsRun
<1>11. r[0] = Start(ip) /\ r[n] = last
  BY <1>1, <1>9 DEF IsRun
<1> HIDE DEF last
<1>12. Scans(r, text)
  BY <1>9, <1>10 DEF Scans, n
<1> QED BY <1>2, <1>11, <1>12 DEF n

\* What is read is an address, whatever the text.
LEMMA FromStringType ==
  ASSUME NEW ip \in Address, NEW text \in Text
  PROVE  IPAddress_fromString(ip, text) \in Address
<1>1. PICK r : Scans(r, text) /\ IPAddress_fromString(ip, text) = Result(r[Len(text)])
  BY ScanRun
<1> DEFINE f == r[Len(text)]
<1>2. f \in Scan
  BY <1>1 DEF Scans, Text
<1> HIDE DEF f
<1>3. f.ip \in Address /\ (f.ok => f.acc \in 0 .. 255)
  <2>1. /\ f \in [ok : BOOLEAN, ip : Address, dots : 0 .. 3, acc : Nat]
        /\ f.ok => f.acc <= 255
    BY <1>2 DEF Scan
  <2>2. f.ip \in Address /\ f.acc \in Nat
    BY <2>1
  <2>3. ASSUME f.ok PROVE f.acc \in 0 .. 255
    <3>1. f.acc <= 255
      BY <2>1, <2>3
    <3> DEFINE a == f.acc
    <3> HIDE DEF a
    <3>2. a \in Nat /\ a <= 255
      BY <2>2, <3>1 DEF a
    <3>3. a \in 0 .. 255
      BY <3>2
    <3> QED BY <3>3 DEF a
  <2> QED BY <2>2, <2>3
<1>4. f.ok => [f.ip EXCEPT ![4] = f.acc] \in Address
  BY <1>3 DEF Address
<1> QED BY <1>1, <1>3, <1>4 DEF f, Result

\* Digits from position p + 1 to q.
Digits(text, p, q) == \A i \in p + 1 .. q : text[i] \in 0 .. 9

\* A part of a text, from one dot to the next: digits that make a number below 256
\* leave that number in acc, and the rest as it was.
LEMMA PartScanned ==
  ASSUME NEW text \in Text, NEW r, Scans(r, text),
         NEW p \in 0 .. Len(text), NEW q \in p .. Len(text), Digits(text, p, q),
         NEW ip, NEW k, r[p] = Scanned(ip, k, 0),
         NEW m, m = Number(SubSeq(text, p + 1, q)), m <= 255
  PROVE  r[q] = Scanned(ip, k, m)
<1> DEFINE s == SubSeq(text, p + 1, q)
           n == q - p
<1>1. /\ n \in Nat /\ s \in Seq(Nat) /\ Len(s) = n
      /\ \A i \in 1 .. n : s[i] = text[p + i] /\ s[i] \in 0 .. 9
  <2>1. text \in Seq(Nat) /\ p + 1 \in 1 .. Len(text) + 1 /\ q \in Nat /\ p <= q /\ q <= Len(text)
    BY DEF Text, Letter
  <2>2. n \in Nat /\ s \in Seq(Nat) /\ Len(s) = n
    BY <2>1
  <2>3. ASSUME NEW i \in 1 .. n PROVE s[i] = text[p + i] /\ s[i] \in 0 .. 9
    <3>1. p + i \in p + 1 .. q /\ p + 1 + i - 1 = p + i
      BY <2>1
    <3>2. s[i] = text[p + i]
      BY <2>1, <2>2, <3>1
    <3> QED BY <3>1, <3>2 DEF Digits
  <2> QED BY <2>2, <2>3
<1> HIDE DEF s
<1>2. PICK v \in [0 .. n -> Nat] :
        /\ v[0] = 0 /\ v[n] = Number(s)
        /\ \A i \in 1 .. n : v[i] = 10 * v[i - 1] + s[i]
  <2>1. PICK v : AddsUp(v, s) /\ v[n] = Number(s)
    BY <1>1, NumberRun
  <2> QED BY <1>1, <2>1 DEF AddsUp
<1>3. ASSUME NEW i \in 0 .. n - 1
      PROVE  v[i + 1] = 10 * v[i] + text[p + i + 1] /\ text[p + i + 1] \in 0 .. 9
  <2>1. i + 1 \in 1 .. n /\ (i + 1) - 1 = i /\ p + (i + 1) = p + i + 1
    BY <1>1
  <2>2. v[i + 1] = 10 * v[i] + s[i + 1]
    BY <1>2, <2>1
  <2>3. s[i + 1] = text[p + i + 1] /\ s[i + 1] \in 0 .. 9
    BY <1>1, <2>1
  <2> QED BY <2>2, <2>3
<1>4. \A i \in 0 .. n : v[i] <= 255
  <2> DEFINE D == {j \in 0 .. n : v[n - j] <= 255}
  <2>1. 0 \in D
    BY <1>2 DEF s
  <2>2. ASSUME NEW j \in 0 .. n - 1, j \in D PROVE j + 1 \in D
    <3> DEFINE i == n - (j + 1)
    <3>1. i \in 0 .. n - 1 /\ i + 1 = n - j /\ v[i] \in Nat /\ v[i + 1] \in Nat
      OBVIOUS
    <3>2. v[i + 1] <= 255
      BY <2>2, <3>1
    <3>3. v[i] <= v[i + 1]
      <4> DEFINE a == v[i]
                 b == v[i + 1]
                 c == text[p + i + 1]
      <4>1. a \in Nat /\ b = 10 * a + c /\ c \in 0 .. 9
        BY <1>3, <3>1
      <4> HIDE DEF a, b, c
      <4>2. a <= b
        BY <4>1
      <4> QED BY <4>2 DEF a, b
    <3> HIDE DEF i
    <3>4. v[i] <= 255
      BY <3>1, <3>2, <3>3
    <3> QED BY <3>4 DEF i
  <2> HIDE DEF D
  <2>3. 0 .. n \subseteq D
    <3>1. \A j \in 0 .. n - 1 : j \in D => j + 1 \in D
      BY <2>2
    <3> QED BY <1>1, <2>1, <3>1, InductiveUpTo
  <2>4. ASSUME NEW i \in 0 .. n PROVE v[i] <= 255
    <3>1. n - i \in D
      BY <1>1, <2>3
    <3>2. n - (n - i) = i
      BY <1>1
    <3> QED BY <3>1, <3>2 DEF D
  <2> QED BY <2>4
<1> DEFINE E == {i \in 0 .. n : r[p + i] = Scanned(ip, k, v[i])}
<1>6. 0 \in E
  BY <1>1, <1>2
<1>7. ASSUME NEW i \in 0 .. n - 1, i \in E PROVE i + 1 \in E
  <2> DEFINE c == text[p + i + 1]
             x == v[i]
             y == v[i + 1]
             f == Scanned(ip, k, x)
  <2>1. r[p + i] = f
    BY <1>7
  <2>2. x \in Nat /\ y = 10 * x + c /\ c \in 0 .. 9 /\ y <= 255 /\ y \in Nat
    <3>1. i \in 0 .. n /\ i + 1 \in 0 .. n
      BY <1>1
    <3> QED BY <1>3, <1>4, <3>1
  <2>3. r[p + i + 1] = FromStringStep(f, c)
    <3>1. p + i + 1 \in 1 .. Len(text) /\ (p + i + 1) - 1 = p + i
      BY DEF Text
    <3> QED BY <2>1, <3>1 DEF Scans
  <2>4. f = [ok |-> TRUE, ip |-> ip, dots |-> k, acc |-> x]
    BY DEF Scanned
  <2> HIDE DEF f, c, x, y
  <2>5. FromStringStep(f, c) = [f EXCEPT !.acc = y, !.ok = TRUE]
    <3>1. f.ok /\ f.acc = x
      BY <2>4
    <3> QED BY <2>2, <3>1 DEF FromStringStep
  <2>6. FromStringStep(f, c) = Scanned(ip, k, y)
    BY <2>4, <2>5 DEF Scanned
  <2>7. r[p + (i + 1)] = Scanned(ip, k, v[i + 1]) /\ i + 1 \in 0 .. n
    BY <1>1, <2>3, <2>6 DEF y
  <2> QED BY <2>7
<1> HIDE DEF E
<1>8. 0 .. n \subseteq E
  <2>1. \A i \in 0 .. n - 1 : i \in E => i + 1 \in E
    BY <1>7
  <2> QED BY <1>1, <1>6, <2>1, InductiveUpTo
<1>9. n \in E /\ p + n = q
  BY <1>1, <1>8
<1> QED BY <1>2, <1>9 DEF E, s

\* A part and the dot behind it, but a fourth: the number goes into the address.
LEMMA PartAndDot ==
  ASSUME NEW text \in Text, NEW r, Scans(r, text),
         NEW p \in 0 .. Len(text), NEW q \in p + 1 .. Len(text),
         Digits(text, p, q - 1), text[q] = Dot,
         NEW ip \in Address, NEW k \in 0 .. 2, r[p] = Scanned(ip, k, 0),
         NEW m, m = Number(SubSeq(text, p + 1, q - 1)), m <= 255
  PROVE  r[q] = Scanned([ip EXCEPT ![k + 1] = m], k + 1, 0)
<1> DEFINE o == q - 1
<1>1. o \in p .. Len(text) /\ m = Number(SubSeq(text, p + 1, o))
  BY DEF Text
<1>2. Digits(text, p, o)
  OBVIOUS
<1> HIDE DEF o
<1>3. r[o] = Scanned(ip, k, m)
  BY <1>1, <1>2, PartScanned
<1>4. r[q] = FromStringStep(r[o], Dot)
  <2>1. q \in 1 .. Len(text)
    BY DEF Text
  <2> QED BY <2>1 DEF o, Scans
<1>5. FromStringStep(Scanned(ip, k, m), Dot) = Scanned([ip EXCEPT ![k + 1] = m], k + 1, 0)
  <2> DEFINE f == Scanned(ip, k, m)
  <2>1. f = [ok |-> TRUE, ip |-> ip, dots |-> k, acc |-> m]
    BY DEF Scanned
  <2> HIDE DEF f
  <2>2. f.ok /\ f.dots = k /\ k < 3 /\ f.acc = m /\ Dot \notin 0 .. 9
    BY <2>1 DEF Dot
  <2>3. FromStringStep(f, Dot)
          = [f EXCEPT !.ip[f.dots + 1] = f.acc, !.dots = f.dots + 1, !.acc = 0]
    BY <2>2 DEF FromStringStep
  <2> QED BY <2>1, <2>3 DEF Scanned, f
<1> QED BY <1>3, <1>4, <1>5

\* The characters of a text that has its dots where cut says are digits or dots.
LEMMA CutProperties ==
  ASSUME NEW text \in Text, NEW d \in Cuts(text), Letter \notin ToSet(text)
  PROVE  /\ d[1] \in 1 .. Len(text) /\ d[2] \in 1 .. Len(text) /\ d[3] \in 1 .. Len(text)
         /\ d[1] < d[2] /\ d[2] < d[3]
         /\ text[d[1]] = Dot /\ text[d[2]] = Dot /\ text[d[3]] = Dot
         /\ \A i \in 1 .. Len(text) : i \notin {d[1], d[2], d[3]} => text[i] \in 0 .. 9
<1> DEFINE dots == {i \in DOMAIN text : text[i] = Dot}
<1>1. DOMAIN text = 1 .. Len(text) /\ \A i \in 1 .. Len(text) : text[i] \in 0 .. Letter
  <2> DEFINE C == 0 .. Letter
  <2>1. text \in Seq(C)
    BY DEF Text
  <2> HIDE DEF C
  <2>2. DOMAIN text = 1 .. Len(text) /\ \A i \in 1 .. Len(text) : text[i] \in C
    BY <2>1
  <2> QED BY <2>2 DEF C
<1>2. /\ d[1] \in dots /\ d[2] \in dots /\ d[3] \in dots
      /\ d[1] < d[2] /\ d[2] < d[3] /\ dots = {d[1], d[2], d[3]}
  BY DEF Cuts
<1>3. ASSUME NEW i \in 1 .. Len(text), i \notin {d[1], d[2], d[3]}
      PROVE  text[i] \in 0 .. 9
  <2>1. text[i] # Dot
    BY <1>1, <1>2, <1>3
  <2>2. text[i] # Letter
    BY <1>1 DEF ToSet
  <2> QED BY <1>1, <2>1, <2>2 DEF Dot, Letter
<1> QED BY <1>1, <1>2, <1>3

\* The number of dots makes no difference to what the parts are: there is one way to
\* have three.
LEMMA OneCut ==
  ASSUME NEW text \in Text, NEW d \in Cuts(text), NEW e \in Cuts(text)
  PROVE  d[1] = e[1] /\ d[2] = e[2] /\ d[3] = e[3]
<1>1. DOMAIN text = 1 .. Len(text)
  BY DEF Text
<1>2. /\ d[1] \in Int /\ d[2] \in Int /\ d[3] \in Int
      /\ e[1] \in Int /\ e[2] \in Int /\ e[3] \in Int
      /\ d[1] < d[2] /\ d[2] < d[3] /\ e[1] < e[2] /\ e[2] < e[3]
      /\ {d[1], d[2], d[3]} = {e[1], e[2], e[3]}
  BY <1>1 DEF Cuts
<1> QED BY <1>2

\* From a text that is an address IPAddress_fromString reads that address, whatever
\* was in the variable before.
THEOREM FromStringReads ==
  ASSUME NEW ip \in Address, NEW text \in Text, Asked(text) # Unknown
  PROVE  IPAddress_fromString(ip, text) = Asked(text)
<1>1. /\ Letter \notin ToSet(text)
      /\ \E d \in Cuts(text) : Parts(text, d) \in Address /\ Asked(text) = Parts(text, d)
  BY DEF Asked
<1>2. PICK d \in Cuts(text) : Parts(text, d) \in Address /\ Asked(text) = Parts(text, d)
  BY <1>1
<1> DEFINE n == Len(text)
           a == d[1]
           b == d[2]
           c == d[3]
           n1 == Number(SubSeq(text, 1, a - 1))
           n2 == Number(SubSeq(text, a + 1, b - 1))
           n3 == Number(SubSeq(text, b + 1, c - 1))
           n4 == Number(SubSeq(text, c + 1, n))
<1>3. /\ n \in Nat /\ a \in 1 .. n /\ b \in 1 .. n /\ c \in 1 .. n /\ a < b /\ b < c
      /\ text[a] = Dot /\ text[b] = Dot /\ text[c] = Dot
      /\ \A i \in 1 .. n : i \notin {a, b, c} => text[i] \in 0 .. 9
  BY <1>1, CutProperties DEF Text
<1>4. /\ Asked(text) = <<n1, n2, n3, n4>>
      /\ n1 \in 0 .. 255 /\ n2 \in 0 .. 255 /\ n3 \in 0 .. 255 /\ n4 \in 0 .. 255
  <2>1. Parts(text, d) = <<n1, n2, n3, n4>>
    BY DEF Parts
  <2> HIDE DEF n1, n2, n3, n4
  <2> QED BY <1>2, <2>1 DEF Address
<1>5. PICK r : /\ Scans(r, text) /\ r[0] = Start(ip)
              /\ IPAddress_fromString(ip, text) = Result(r[n])
  BY ScanRun
<1> HIDE DEF a, b, c, n1, n2, n3, n4
<1> DEFINE p1 == [ip EXCEPT ![1] = n1]
           p2 == [p1 EXCEPT ![2] = n2]
           p3 == [p2 EXCEPT ![3] = n3]
<1>6. p1 \in Address /\ p2 \in Address /\ p3 \in Address
  BY <1>4 DEF Address
<1> HIDE DEF p1, p2, p3
<1>7. r[a] = Scanned(p1, 1, 0)
  <2>1. 0 \in 0 .. n /\ a \in 0 + 1 .. n /\ Digits(text, 0, a - 1)
    BY <1>3 DEF Digits
  <2>2. n1 = Number(SubSeq(text, 0 + 1, a - 1))
    BY DEF n1
  <2>0. n1 <= 255
    BY <1>4
  <2>3. r[0] = Scanned(ip, 0, 0) /\ text[a] = Dot
    BY <1>3, <1>5 DEF Start
  <2>4. r[a] = Scanned([ip EXCEPT ![0 + 1] = n1], 0 + 1, 0)
    BY <1>5, <2>0, <2>1, <2>2, <2>3, PartAndDot
  <2> QED BY <2>4 DEF p1
<1>8. r[b] = Scanned(p2, 2, 0)
  <2>1. a \in 0 .. n /\ b \in a + 1 .. n /\ Digits(text, a, b - 1)
    BY <1>3 DEF Digits
  <2>2. n2 = Number(SubSeq(text, a + 1, b - 1))
    BY DEF n2
  <2>0. n2 <= 255
    BY <1>4
  <2>3. r[b] = Scanned([p1 EXCEPT ![1 + 1] = n2], 1 + 1, 0)
    BY <1>3, <1>5, <1>6, <1>7, <2>0, <2>1, <2>2, PartAndDot
  <2> QED BY <2>3 DEF p2
<1>9. r[c] = Scanned(p3, 3, 0)
  <2>1. b \in 0 .. n /\ c \in b + 1 .. n /\ Digits(text, b, c - 1)
    BY <1>3 DEF Digits
  <2>2. n3 = Number(SubSeq(text, b + 1, c - 1))
    BY DEF n3
  <2>0. n3 <= 255
    BY <1>4
  <2>3. r[c] = Scanned([p2 EXCEPT ![2 + 1] = n3], 2 + 1, 0)
    BY <1>3, <1>5, <1>6, <1>8, <2>0, <2>1, <2>2, PartAndDot
  <2> QED BY <2>3 DEF p3
<1>10. r[n] = Scanned(p3, 3, n4)
  <2>1. c \in 0 .. n /\ n \in c .. n /\ Digits(text, c, n)
    BY <1>3 DEF Digits
  <2>2. n4 = Number(SubSeq(text, c + 1, n))
    BY DEF n4
  <2>0. n4 <= 255
    BY <1>4
  <2> QED BY <1>5, <1>9, <2>0, <2>1, <2>2, PartScanned
<1>11. IPAddress_fromString(ip, text) = [p3 EXCEPT ![4] = n4]
  <2>1. /\ Scanned(p3, 3, n4).ok /\ Scanned(p3, 3, n4).dots = 3
        /\ Scanned(p3, 3, n4).ip = p3 /\ Scanned(p3, 3, n4).acc = n4
    BY DEF Scanned
  <2> QED BY <1>5, <1>10, <2>1 DEF Result
<1>12. [p3 EXCEPT ![4] = n4] = <<n1, n2, n3, n4>>
  BY <1>4 DEF p1, p2, p3, Address
<1> QED BY <1>4, <1>11, <1>12

-----------------------------------------------------------------------------
(* Texts from addresses *)

\* A byte has at most three digits, and they make it up again.
LEMMA DecimalNumber ==
  ASSUME NEW n \in 0 .. 255
  PROVE  Decimal(n) \in Seq(0 .. 9) /\ Number(Decimal(n)) = n
<1> DEFINE s == Decimal(n)
<1>1. s \in Seq(0 .. 9) =>
        \E r : AddsUp(r, s) /\ r[Len(s)] = Number(s)
  <2>1. s \in Seq(0 .. 9) => s \in Seq(Nat)
    OBVIOUS
  <2> HIDE DEF s
  <2> QED BY <2>1, NumberRun
<1>2. CASE n < 10
  <2>1. s = <<n>>
    BY <1>2 DEF Decimal
  <2>2. s \in Seq(0 .. 9) /\ Len(s) = 1 /\ s[1] = n
    BY <1>2, <2>1
  <2> HIDE DEF s
  <2>3. PICK r : AddsUp(r, s) /\ r[1] = Number(s)
    BY <1>1, <2>2
  <2>4. r[0] = 0 /\ r[1] = 10 * r[1 - 1] + s[1]
    BY <2>2, <2>3 DEF AddsUp
  <2> QED BY <2>2, <2>3, <2>4 DEF s
<1>3. CASE n >= 10 /\ n < 100
  <2> DEFINE x == n \div 10
             y == n % 10
  <2>1. s = <<x, y>>
    BY <1>3 DEF Decimal
  <2>2. x \in 0 .. 9 /\ y \in 0 .. 9 /\ n = 10 * x + y
    BY <1>3
  <2> HIDE DEF x, y
  <2>3. s \in Seq(0 .. 9) /\ Len(s) = 2 /\ s[1] = x /\ s[2] = y
    BY <2>1, <2>2
  <2> HIDE DEF s
  <2>4. PICK r : AddsUp(r, s) /\ r[2] = Number(s)
    BY <1>1, <2>3
  <2>5. /\ r[0] = 0 /\ r[1] = 10 * r[1 - 1] + s[1] /\ r[2] = 10 * r[2 - 1] + s[2]
        /\ r[1] \in Nat /\ r[2] \in Nat
    BY <2>3, <2>4 DEF AddsUp
  <2>6. r[1] = x
    BY <2>2, <2>3, <2>5
  <2>7. r[2] = n
    BY <2>2, <2>3, <2>5, <2>6
  <2> QED BY <2>3, <2>4, <2>7 DEF s
<1>4. CASE n >= 100
  <2> DEFINE x == n \div 100
             y == (n \div 10) % 10
             z == n % 10
  <2>1. s = <<x, y, z>>
    BY <1>4 DEF Decimal
  <2>2. x \in 0 .. 9 /\ y \in 0 .. 9 /\ z \in 0 .. 9 /\ n = 10 * (10 * x + y) + z
    BY <1>4
  <2> HIDE DEF x, y, z
  <2>3. s \in Seq(0 .. 9) /\ Len(s) = 3 /\ s[1] = x /\ s[2] = y /\ s[3] = z
    BY <2>1, <2>2
  <2> HIDE DEF s
  <2>4. PICK r : AddsUp(r, s) /\ r[3] = Number(s)
    BY <1>1, <2>3
  <2>5. /\ r[0] = 0 /\ r[1] = 10 * r[1 - 1] + s[1] /\ r[2] = 10 * r[2 - 1] + s[2]
        /\ r[3] = 10 * r[3 - 1] + s[3]
        /\ r[1] \in Nat /\ r[2] \in Nat /\ r[3] \in Nat
    BY <2>3, <2>4 DEF AddsUp
  <2>6. r[1] = x
    BY <2>2, <2>3, <2>5
  <2>7. r[2] = 10 * x + y
    BY <2>2, <2>3, <2>5, <2>6
  <2>8. r[3] = n
    BY <2>2, <2>3, <2>5, <2>7
  <2> QED BY <2>3, <2>4, <2>8 DEF s
<1> QED BY <1>2, <1>3, <1>4

\* A text with a dot and more digits behind it.
Joined(s, d) == s \o <<Dot>> \o d

LEMMA JoinedProperties ==
  ASSUME NEW s \in Text, NEW d \in Seq(0 .. 9)
  PROVE  /\ Joined(s, d) \in Text
         /\ Len(Joined(s, d)) = Len(s) + 1 + Len(d)
         /\ \A i \in 1 .. Len(s) : Joined(s, d)[i] = s[i]
         /\ Joined(s, d)[Len(s) + 1] = Dot
         /\ \A i \in 1 .. Len(d) : Joined(s, d)[Len(s) + 1 + i] = d[i]
<1> DEFINE C == 0 .. Letter
           dot == <<Dot>>
           u == s \o dot
           t == u \o d
<1>1. s \in Seq(C) /\ d \in Seq(C) /\ dot \in Seq(C) /\ Len(dot) = 1 /\ dot[1] = Dot
  BY DEF Text, Letter, Dot
<1> HIDE DEF C, dot
<1>2. /\ u \in Seq(C) /\ Len(u) = Len(s) + 1
      /\ \A i \in 1 .. Len(s) : u[i] = s[i]
      /\ u[Len(s) + 1] = Dot
  <2>1. /\ u \in Seq(C) /\ Len(u) = Len(s) + Len(dot)
        /\ \A i \in 1 .. Len(s) + Len(dot) :
             u[i] = IF i <= Len(s) THEN s[i] ELSE dot[i - Len(s)]
    BY <1>1, ConcatProperties
  <2>2. Len(s) \in Nat
    BY <1>1
  <2> HIDE DEF u
  <2> QED BY <1>1, <2>1, <2>2
<1> HIDE DEF u
<1>3. /\ t \in Seq(C) /\ Len(t) = Len(u) + Len(d)
      /\ \A i \in 1 .. Len(u) : t[i] = u[i]
      /\ \A i \in 1 .. Len(d) : t[Len(u) + i] = d[i]
  <2>1. /\ t \in Seq(C) /\ Len(t) = Len(u) + Len(d)
        /\ \A i \in 1 .. Len(u) + Len(d) :
             t[i] = IF i <= Len(u) THEN u[i] ELSE d[i - Len(u)]
    BY <1>1, <1>2, ConcatProperties
  <2>2. Len(u) \in Nat /\ Len(d) \in Nat
    BY <1>1, <1>2
  <2> HIDE DEF t
  <2> QED BY <2>1, <2>2, SMTT(20)
<1> HIDE DEF t
<1>4. Joined(s, d) = t
  BY DEF Joined, t, u, dot
<1>5. Len(s) \in Nat /\ Len(d) \in Nat
  BY <1>1
<1>6. Len(s) + 1 \in 1 .. Len(u) /\ \A i \in 1 .. Len(s) : i \in 1 .. Len(u)
  BY <1>2, <1>5
<1> QED BY <1>2, <1>3, <1>4, <1>5, <1>6 DEF C, Text

\* Where a text is found in another one.
LEMMA FoundPart ==
  ASSUME NEW C, NEW t \in Seq(C), NEW d \in Seq(C), NEW p \in Nat, p + Len(d) <= Len(t),
         \A i \in 1 .. Len(d) : t[p + i] = d[i]
  PROVE  SubSeq(t, p + 1, p + Len(d)) = d
<1> DEFINE n == Len(d)
           s == SubSeq(t, p + 1, p + n)
<1>1. n \in Nat /\ p + n \in Nat /\ p + n <= Len(t)
  OBVIOUS
<1>2. s \in Seq(C) /\ Len(s) = n
  BY <1>1
<1>3. \A i \in 1 .. n : s[i] = t[p + i]
  BY <1>1, <1>2
<1> HIDE DEF s
<1>4. s = d
  <2>1. Len(s) = Len(d) /\ \A i \in 1 .. Len(s) : s[i] = d[i]
    BY <1>2, <1>3
  <2> QED BY <1>2, <2>1, SeqEqual
<1> QED BY <1>4 DEF s

\* The text that IPAddress_toString gives is one of that address.
THEOREM ToStringIsText ==
  ASSUME NEW ip \in Address
  PROVE  IPAddress_toString(ip) \in Text /\ Asked(IPAddress_toString(ip)) = ip
<1> DEFINE t == IPAddress_toString(ip)
           d1 == Decimal(ip[1])
           d2 == Decimal(ip[2])
           d3 == Decimal(ip[3])
           d4 == Decimal(ip[4])
           t1 == d1
           t2 == Joined(t1, d2)
           t3 == Joined(t2, d3)
           t4 == Joined(t3, d4)
<1>1. t = t4
  BY DEF IPAddress_toString, Joined
<1>2. /\ d1 \in Seq(0 .. 9) /\ d2 \in Seq(0 .. 9) /\ d3 \in Seq(0 .. 9) /\ d4 \in Seq(0 .. 9)
      /\ Number(d1) = ip[1] /\ Number(d2) = ip[2] /\ Number(d3) = ip[3] /\ Number(d4) = ip[4]
  <2>1. ip[1] \in 0 .. 255 /\ ip[2] \in 0 .. 255 /\ ip[3] \in 0 .. 255 /\ ip[4] \in 0 .. 255
    BY DEF Address
  <2> QED BY <2>1, DecimalNumber
<1> HIDE DEF t, d1, d2, d3, d4
<1>3. t1 \in Text
  BY <1>2 DEF Text, Letter
<1> DEFINE a == Len(d1) + 1
           b == a + Len(d2) + 1
           c == b + Len(d3) + 1
           n == c + Len(d4)
<1>4. /\ Len(d1) \in Nat /\ Len(d2) \in Nat /\ Len(d3) \in Nat /\ Len(d4) \in Nat
  BY <1>2
<1>5. /\ t2 \in Text /\ Len(t2) = a + Len(d2) /\ t2[a] = Dot
      /\ \A i \in 1 .. Len(d1) : t2[i] = d1[i]
      /\ \A i \in 1 .. Len(d2) : t2[a + i] = d2[i]
  BY <1>2, <1>3, JoinedProperties
<1> HIDE DEF t2, a
<1>6. /\ t3 \in Text /\ Len(t3) = b + Len(d3) /\ t3[b] = Dot
      /\ \A i \in 1 .. Len(t2) : t3[i] = t2[i]
      /\ \A i \in 1 .. Len(d3) : t3[b + i] = d3[i]
  <2>1. b = Len(t2) + 1
    BY <1>5
  <2> HIDE DEF b
  <2> QED BY <1>2, <1>5, <2>1, JoinedProperties
<1> HIDE DEF t3, b
<1>7. /\ t4 \in Text /\ Len(t4) = c + Len(d4) /\ t4[c] = Dot
      /\ \A i \in 1 .. Len(t3) : t4[i] = t3[i]
      /\ \A i \in 1 .. Len(d4) : t4[c + i] = d4[i]
  <2>1. c = Len(t3) + 1
    BY <1>6
  <2> HIDE DEF c
  <2> QED BY <1>2, <1>6, <2>1, JoinedProperties
<1> HIDE DEF t4, c
<1>8. /\ a \in Nat /\ b \in Nat /\ c \in Nat /\ n \in Nat
      /\ a = Len(d1) + 1 /\ b = a + Len(d2) + 1 /\ c = b + Len(d3) + 1
      /\ Len(t2) = b - 1 /\ Len(t3) = c - 1 /\ Len(t) = n
  BY <1>1, <1>4, <1>5, <1>6, <1>7 DEF a, b, c
<1> HIDE DEF n
<1>9. /\ \A i \in 1 .. Len(d1) : t[i] = d1[i]
      /\ t[a] = Dot
      /\ \A i \in 1 .. Len(d2) : t[a + i] = d2[i]
      /\ t[b] = Dot
      /\ \A i \in 1 .. Len(d3) : t[b + i] = d3[i]
      /\ t[c] = Dot
      /\ \A i \in 1 .. Len(d4) : t[c + i] = d4[i]
  <2>1. \A i \in 1 .. b - 1 : t[i] = t2[i]
    BY <1>1, <1>4, <1>6, <1>7, <1>8, SMTT(20)
  <2>2. \A i \in 1 .. c - 1 : t[i] = t3[i]
    BY <1>1, <1>7, <1>8
  <2>3. \A i \in 1 .. Len(d1) : t[i] = d1[i]
    BY <1>4, <1>5, <1>8, <2>1
  <2>4. t[a] = Dot
    BY <1>4, <1>5, <1>8, <2>1
  <2>5. ASSUME NEW i \in 1 .. Len(d2) PROVE t[a + i] = d2[i]
    <3>1. a + i \in 1 .. b - 1
      BY <1>4, <1>8
    <3> QED BY <1>5, <2>1, <3>1
  <2>6. t[b] = Dot
    BY <1>4, <1>6, <1>8, <2>2
  <2>7. ASSUME NEW i \in 1 .. Len(d3) PROVE t[b + i] = d3[i]
    <3>1. b + i \in 1 .. c - 1
      BY <1>4, <1>8
    <3> QED BY <1>6, <2>2, <3>1
  <2> QED BY <1>1, <1>7, <2>3, <2>4, <2>5, <2>6, <2>7
<1>0. /\ \A i \in 1 .. Len(d1) : d1[i] \in 0 .. 9
      /\ \A i \in 1 .. Len(d2) : d2[i] \in 0 .. 9
      /\ \A i \in 1 .. Len(d3) : d3[i] \in 0 .. 9
      /\ \A i \in 1 .. Len(d4) : d4[i] \in 0 .. 9
  BY <1>2, SMTT(20)
<1>10. /\ a \in 1 .. n /\ b \in 1 .. n /\ c \in 1 .. n /\ a < b /\ b < c
       /\ \A i \in 1 .. n : i \notin {a, b, c} => t[i] \in 0 .. 9
  <2>1. a \in 1 .. n /\ b \in 1 .. n /\ c \in 1 .. n /\ a < b /\ b < c
    BY <1>4, <1>8 DEF n
  <2>2. ASSUME NEW i \in 1 .. n, i \notin {a, b, c} PROVE t[i] \in 0 .. 9
    <3>1. \/ i \in 1 .. Len(d1)
          \/ i - a \in 1 .. Len(d2) /\ i = a + (i - a)
          \/ i - b \in 1 .. Len(d3) /\ i = b + (i - b)
          \/ i - c \in 1 .. Len(d4) /\ i = c + (i - c)
      BY <1>4, <1>8, <2>2 DEF n
    <3>2. CASE i \in 1 .. Len(d1)
      BY <1>0, <1>9, <3>2
    <3>3. CASE i - a \in 1 .. Len(d2) /\ i = a + (i - a)
      BY <1>0, <1>9, <3>3
    <3>4. CASE i - b \in 1 .. Len(d3) /\ i = b + (i - b)
      BY <1>0, <1>9, <3>4
    <3>5. CASE i - c \in 1 .. Len(d4) /\ i = c + (i - c)
      BY <1>0, <1>9, <3>5
    <3> QED BY <3>1, <3>2, <3>3, <3>4, <3>5
  <2> QED BY <2>1, <2>2
<1>11. t \in Text
  BY <1>1, <1>7
<1> DEFINE d == <<a, b, c>>
<1>12. d \in Cuts(t)
  <2> DEFINE dots == {i \in DOMAIN t : t[i] = Dot}
  <2>1. DOMAIN t = 1 .. n
    BY <1>8, <1>11 DEF Text
  <2>2. dots = {a, b, c}
    BY <1>9, <1>10, <2>1 DEF Dot
  <2> QED BY <1>10, <2>2 DEF Cuts
<1>13. Letter \notin ToSet(t)
  <2>1. DOMAIN t = 1 .. n
    BY <1>8, <1>11 DEF Text
  <2>2. ASSUME NEW i \in 1 .. n PROVE t[i] # Letter
    <3>1. CASE i \in {a, b, c}
      BY <1>9, <3>1 DEF Dot, Letter
    <3>2. CASE i \notin {a, b, c}
      <4>1. t[i] \in 0 .. 9
        BY <1>10, <3>2
      <4> QED BY <4>1 DEF Letter
    <3> QED BY <3>1, <3>2
  <2> QED BY <2>1, <2>2 DEF ToSet
<1>14. Parts(t, d) = <<ip[1], ip[2], ip[3], ip[4]>>
  <2> DEFINE C == 0 .. Letter
  <2>1. /\ t \in Seq(C) /\ d1 \in Seq(C) /\ d2 \in Seq(C) /\ d3 \in Seq(C) /\ d4 \in Seq(C)
    BY <1>2, <1>11 DEF Text, Letter
  <2> HIDE DEF C
  <2>2. SubSeq(t, 1, a - 1) = d1
    <3>1. 0 \in Nat /\ 0 + Len(d1) <= Len(t) /\ \A i \in 1 .. Len(d1) : t[0 + i] = d1[i]
      BY <1>4, <1>8, <1>9 DEF n
    <3>2. SubSeq(t, 0 + 1, 0 + Len(d1)) = d1
      BY <2>1, <3>1, FoundPart
    <3>3. 0 + 1 = 1 /\ 0 + Len(d1) = a - 1
      BY <1>4, <1>8
    <3> QED BY <3>2, <3>3
  <2>3. SubSeq(t, a + 1, b - 1) = d2
    <3>1. a + Len(d2) <= Len(t) /\ a + Len(d2) = b - 1
      BY <1>4, <1>8 DEF n
    <3> QED BY <1>8, <1>9, <2>1, <3>1, FoundPart, ZenonT(20)
  <2>4. SubSeq(t, b + 1, c - 1) = d3
    <3>1. b + Len(d3) <= Len(t) /\ b + Len(d3) = c - 1
      BY <1>4, <1>8 DEF n
    <3> QED BY <1>8, <1>9, <2>1, <3>1, FoundPart, ZenonT(20)
  <2>5. SubSeq(t, c + 1, Len(t)) = d4
    <3>1. c + Len(d4) <= Len(t) /\ c + Len(d4) = Len(t)
      BY <1>4, <1>8 DEF n
    <3> QED BY <1>8, <1>9, <2>1, <3>1, FoundPart, ZenonT(20)
  <2>6. d[1] = a /\ d[2] = b /\ d[3] = c
    OBVIOUS
  <2> HIDE DEF d
  <2> QED BY <1>2, <2>2, <2>3, <2>4, <2>5, <2>6 DEF Parts
<1>15. <<ip[1], ip[2], ip[3], ip[4]>> = ip
  BY DEF Address
<1>16. \A e \in Cuts(t) : Parts(t, e) = ip
  BY <1>11, <1>12, <1>14, <1>15, OneCut DEF Parts
<1>17. {Parts(t, e) : e \in Cuts(t)} \cap Address = {ip}
  BY <1>12, <1>16
<1> QED BY <1>11, <1>13, <1>17 DEF Asked, t

\* What was asked for is an address, or nothing is known of it.
LEMMA AskedType ==
  \A v : Asked(v) \in Address \cup {Unknown}
BY DEF Asked

\* A text has an address or is Unknown; the two are never the same.
LEMMA UnknownIsNone ==
  \A a \in Address : a # Unknown
<1> SUFFICES ASSUME NEW a \in Address PROVE a # <<>>
  BY DEF Unknown
<1>1. 1 \in DOMAIN a /\ 1 \notin DOMAIN <<>>
  BY DEF Address
<1> QED BY <1>1

\* Whatever follows chn=, the radio gets the number of a byte.
LEMMA ChannelType ==
  ASSUME NEW text \in Text
  PROVE  Channel(text) \in 0 .. 255
<1> DEFINE I == {i \in 1 .. Len(text) : text[i] \notin 0 .. 9}
           end == IF I # {} THEN Min(I) ELSE 0
           s == IF end = 0 THEN text ELSE SubSeq(text, 1, end - 1)
<1>1. text \in Seq(Nat) /\ Len(text) \in Nat
  BY DEF Text, Letter
<1>2. Channel(text) = Number(s) % 256
  BY DEF Channel, SelectInSeq
<1>3. end \in 0 .. Len(text)
  <2>1. I \subseteq Nat /\ I \subseteq 1 .. Len(text)
    BY <1>1
  <2> HIDE DEF I
  <2>2. I # {} => Min(I) \in I
    BY <2>1, LeastNatural DEF Min
  <2>3. I # {} => Min(I) \in 1 .. Len(text)
    BY <2>1, <2>2
  <2> DEFINE k == Min(I)
  <2> HIDE DEF k
  <2>4. end = IF I # {} THEN k ELSE 0
    BY DEF k
  <2> HIDE DEF end
  <2> QED BY <1>1, <2>3, <2>4 DEF k
<1> HIDE DEF end
<1>4. s \in Seq(Nat)
  BY <1>1, <1>3
<1> HIDE DEF s
<1>5. Number(s) \in Nat
  <2>1. PICK r : AddsUp(r, s) /\ r[Len(s)] = Number(s)
    BY <1>4, NumberRun
  <2>2. Len(s) \in 0 .. Len(s)
    BY <1>4
  <2> QED BY <2>1, <2>2 DEF AddsUp
<1> DEFINE m == Number(s)
<1> HIDE DEF m
<1>6. m \in Nat /\ m % 256 \in 0 .. 255
  BY <1>5 DEF m
<1> QED BY <1>2, <1>6 DEF m

-----------------------------------------------------------------------------
(* The query *)

Field == [name : STRING, value : Text]

QueryInv == query \in Seq(Field)

\* The next parameter has a text for its value, and the rest is fields again.
LEMMA NextParameterProperties ==
  ASSUME NEW q \in Seq(Field), q # <<>>, NEW null \in NullTexts
  PROVE  /\ NextParameter(q, null).parameter.value \in Text
         /\ NextParameter(q, null).rest \in Seq(Field)
<1>1. Head(q) \in Field /\ Tail(q) \in Seq(Field) /\ Len(q) \in Nat \ {0}
      /\ Len(Tail(q)) = Len(q) - 1
  BY HeadTailProperties
<1> DEFINE t == Tail(q)
<1>2. CASE Head(q).value # <<>>
  <2>1. NextParameter(q, null) = [parameter |-> Head(q), rest |-> t]
    BY <1>2 DEF NextParameter
  <2>2. Head(q).value \in Text
    BY <1>1 DEF Field
  <2> QED BY <1>1, <2>1, <2>2
<1>3. CASE Head(q).value = <<>> /\ Len(q) = 1
  <2>1. NextParameter(q, null) =
          [parameter |-> [name |-> Head(q).name, value |-> null], rest |-> <<>>]
    BY <1>3 DEF NextParameter
  <2>2. null \in Text
    BY SettingsAssumption
  <2> QED BY <2>1, <2>2
<1>4. CASE Head(q).value = <<>> /\ Len(q) # 1
  <2>1. NextParameter(q, null) =
          [parameter |-> [name |-> Head(q).name, value |-> <<Letter>>], rest |-> Tail(t)]
    BY <1>4 DEF NextParameter
  <2>2. <<Letter>> \in Text
    BY DEF Text, Letter
  <2>3. Len(t) # 0
    BY <1>1, <1>4
  <2> HIDE DEF t
  <2>4. t # <<>>
    BY <2>3
  <2>5. Tail(t) \in Seq(Field)
    BY <1>1, <2>4, HeadTailProperties DEF t
  <2> QED BY <2>1, <2>2, <2>5
<1> QED BY <1>2, <1>3, <1>4

-----------------------------------------------------------------------------
(* The invariant *)

TypeInv ==
  /\ chip \in [Registers -> Address] /\ hTargetIp \in Address /\ pTargetIp \in Text
  /\ bReadyToSend \in BOOLEAN /\ bUsingDhcp \in BOOLEAN
  /\ pc \in {"idle", "query", "remote", "stuck"}
  /\ pc \in {"idle", "remote"} => query = <<>>
  /\ page = [n \in Addresses \cup {"run", "served"} |-> page[n]]
  /\ want \in [Addresses -> Address \cup {Unknown}]

\* What was asked for in a text that is an address is what the chip holds; the
\* target is the one of the text that is kept with it.
AddressInv ==
  /\ \A n \in Registers : want[n] # Unknown => chip[n] = want[n]
  /\ Asked(pTargetIp) # Unknown /\ hTargetIp # NoAddress => hTargetIp = Asked(pTargetIp)

\* The page has what the chip holds, as soon as the first part of it is sent.
ShownInv ==
  pc = "remote" \/ (pc = "idle" /\ page["served"] = TRUE) =>
    \A n \in Registers : page[n] = IPAddress_toString(chip[n])

\* Between two requests it has the target too, or there has been none.
ServedInv ==
  pc = "idle" =>
    \/ page["served"] = TRUE /\ page["tgt"] = pTargetIp /\ page["run"] = bReadyToSend
    \/ bReadyToSend = FALSE /\ \A n \in Addresses : want[n] = Unknown

SettingsInv == TypeInv /\ QueryInv /\ AddressInv /\ ShownInv /\ ServedInv

LEMMA InitSettings == Init => SettingsInv
<1> SUFFICES ASSUME Init PROVE SettingsInv
  OBVIOUS
<1>1. NoAddress \in Address /\ DefaultTarget \in Text
  BY DEF NoAddress, Address, DefaultTarget, Text, Dot, Letter
<1>2. PICK a \in BootAddresses : chip = [n \in Registers |-> a]
  BY DEF Init
<1>3. a \in Address
  BY SettingsAssumption
<1>4. page = [n \in Addresses \cup {"run", "served"} |-> page[n]]
  BY DEF Init, Addresses, Registers
<1>5. TypeInv
  BY <1>1, <1>2, <1>3, <1>4 DEF Init, TypeInv
<1>6. QueryInv
  BY DEF Init, QueryInv
<1>7. AddressInv
  BY DEF Init, AddressInv, Addresses
<1>8. ShownInv /\ ServedInv
  <2>1. page["served"] = FALSE
    BY DEF Init, Addresses, Registers
  <2> QED BY <2>1 DEF Init, ShownInv, ServedInv
<1> QED BY <1>5, <1>6, <1>7, <1>8 DEF SettingsInv

\* A parameter keeps what is known of the addresses.
LEMMA ParameterKeeps ==
  ASSUME TypeInv, AddressInv,
         NEW n, NEW v \in Text, Dashboard_handleParameterChange(n, v)
  PROVE  /\ chip' \in [Registers -> Address] /\ hTargetIp' \in Address /\ pTargetIp' \in Text
         /\ bReadyToSend' \in BOOLEAN /\ bUsingDhcp' \in BOOLEAN
         /\ pc' \in {pc, "stuck"}
         /\ want' \in [Addresses -> Address \cup {Unknown}]
         /\ AddressInv'
<1>1. /\ want' = IF n \in Addresses THEN [want EXCEPT ![n] = Asked(v)] ELSE want
      /\ pc' = IF n = "dhcp" /\ First(v) = 1 THEN "stuck" ELSE pc
  BY DEF Dashboard_handleParameterChange
<1>2. want' \in [Addresses -> Address \cup {Unknown}]
  BY <1>1, AskedType DEF TypeInv
<1>3. CASE n \in Registers
  <2>1. PICK g \in Garbage : chip' = [chip EXCEPT ![n] = IPAddress_fromString(g, v)]
    BY <1>3 DEF Dashboard_handleParameterChange, Registers, Ethernet_setThisIp,
                Ethernet_setRegister
  <2>2. /\ UNCHANGED <<hTargetIp, pTargetIp, bReadyToSend>>
        /\ bUsingDhcp' \in {bUsingDhcp, FALSE}
    BY <1>3 DEF Dashboard_handleParameterChange, Registers, Ethernet_setThisIp,
                Ethernet_setRegister
  <2>3. g \in Address
    BY SettingsAssumption
  <2>4. /\ IPAddress_fromString(g, v) \in Address
        /\ Asked(v) # Unknown => IPAddress_fromString(g, v) = Asked(v)
    BY <2>3, FromStringType, FromStringReads
  <2> DEFINE a == IPAddress_fromString(g, v)
             k == Asked(v)
  <2>5. chip' = [chip EXCEPT ![n] = a] /\ a \in Address /\ (k # Unknown => a = k)
    BY <2>1, <2>4
  <2>6. want' = [want EXCEPT ![n] = k]
    BY <1>1, <1>3 DEF Addresses
  <2> HIDE DEF a, k
  <2>7. chip' \in [Registers -> Address]
    BY <2>5 DEF TypeInv
  <2>8. \A m \in Registers : want'[m] # Unknown => chip'[m] = want'[m]
    BY <2>5, <2>6 DEF TypeInv, AddressInv, Addresses
  <2>9. AddressInv'
    BY <2>2, <2>8 DEF AddressInv
  <2> QED BY <1>1, <1>2, <2>2, <2>7, <2>9 DEF TypeInv
<1>4. CASE n = "tgt"
  <2>1. Ethernet_setTargetIp(v)
    BY <1>4 DEF Dashboard_handleParameterChange
  <2>2. /\ IPAddress_fromString(hTargetIp, v) \in Address
        /\ Asked(v) # Unknown => IPAddress_fromString(hTargetIp, v) = Asked(v)
    BY FromStringType, FromStringReads DEF TypeInv
  <2>3. \A m \in Registers : want'[m] = want[m]
    BY <1>1, <1>4 DEF Registers, TypeInv
  <2>4. AddressInv'
    BY <2>1, <2>2, <2>3 DEF Ethernet_setTargetIp, AddressInv
  <2> QED BY <1>1, <1>2, <2>1, <2>2, <2>4 DEF Ethernet_setTargetIp, TypeInv
<1>5. CASE n \notin Addresses
  <2>1. UNCHANGED <<chip, hTargetIp, pTargetIp>> /\ want' = want
    BY <1>1, <1>5 DEF Dashboard_handleParameterChange, Addresses, Registers, SetRunning,
                      Ethernet_startDhcp, ethernet
  <2>2. bReadyToSend' \in BOOLEAN
    <3>1. bReadyToSend' = bReadyToSend \/ bReadyToSend' \in BOOLEAN
      BY <1>5 DEF Dashboard_handleParameterChange, Addresses, Registers, SetRunning,
                  Ethernet_startDhcp, ethernet
    <3> QED BY <3>1 DEF TypeInv
  <2>3. bUsingDhcp' \in BOOLEAN
    <3>1. bUsingDhcp' = bUsingDhcp \/ bUsingDhcp' = TRUE
      BY <1>5 DEF Dashboard_handleParameterChange, Addresses, Registers, SetRunning,
                  Ethernet_startDhcp, ethernet
    <3> QED BY <3>1 DEF TypeInv
  <2>4. AddressInv'
    BY <2>1 DEF AddressInv
  <2> QED BY <1>1, <1>2, <2>1, <2>2, <2>3, <2>4 DEF TypeInv
<1> QED BY <1>3, <1>4, <1>5 DEF Addresses

\* A step of the tasks keeps SettingsInv: a request brings one of the forms, a parameter
\* is handled, a part of the page is sent, or the radio goes on alone.
LEMMA SettingsStep == SettingsInv /\ [Next]_vars => SettingsInv'
<1> SUFFICES ASSUME SettingsInv, [Next]_vars PROVE SettingsInv'
  OBVIOUS
<1> USE DEF SettingsInv
<1>1. CASE Request
  <2>1. /\ UNCHANGED <<chip, hTargetIp, pTargetIp, bReadyToSend, bUsingDhcp, page, want>>
        /\ query' \in Forms /\ pc' = "query"
    BY <1>1 DEF Request, ethernet
  <2>2. QueryInv'
    BY <2>1, SettingsAssumption DEF QueryInv, Field
  <2>3. TypeInv'
    BY <2>1 DEF TypeInv
  <2> QED BY <2>1, <2>2, <2>3 DEF AddressInv, ShownInv, ServedInv
<1>2. CASE HandleParameter
  <2>0. PICK null \in NullTexts :
          LET next == NextParameter(query, null)
          IN  /\ Dashboard_handleParameterChange(next.parameter.name, next.parameter.value)
              /\ query' = next.rest
    BY <1>2 DEF HandleParameter
  <2> DEFINE next == NextParameter(query, null)
             n == next.parameter.name
             v == next.parameter.value
  <2>1. /\ pc = "query" /\ query # <<>>
        /\ Dashboard_handleParameterChange(n, v)
        /\ query' = next.rest /\ page' = page
    BY <1>2, <2>0 DEF HandleParameter
  <2>2. v \in Text /\ next.rest \in Seq(Field)
    BY <2>1, NextParameterProperties DEF QueryInv
  <2> HIDE DEF next, n, v
  <2>3. QueryInv'
    BY <2>1, <2>2 DEF QueryInv
  <2>4. /\ chip' \in [Registers -> Address] /\ hTargetIp' \in Address /\ pTargetIp' \in Text
        /\ bReadyToSend' \in BOOLEAN /\ bUsingDhcp' \in BOOLEAN
        /\ pc' \in {pc, "stuck"}
        /\ want' \in [Addresses -> Address \cup {Unknown}]
        /\ AddressInv'
    BY <2>1, <2>2, ParameterKeeps
  <2>5. TypeInv'
    BY <2>1, <2>4 DEF TypeInv
  <2>6. ShownInv' /\ ServedInv'
    BY <2>1, <2>4 DEF ShownInv, ServedInv
  <2> QED BY <2>3, <2>4, <2>5, <2>6
<1>3. CASE ShowNetwork
  <2>1. /\ UNCHANGED <<chip, hTargetIp, pTargetIp, bReadyToSend, bUsingDhcp, query, want>>
        /\ pc' = "remote" /\ query = <<>>
        /\ page' = [page EXCEPT !["tip"] = IPAddress_toString(chip["tip"]),
                                !["gip"] = IPAddress_toString(chip["gip"]),
                                !["msk"] = IPAddress_toString(chip["msk"])]
    BY <1>3 DEF ShowNetwork, ethernet
  <2>2. page = [n \in Addresses \cup {"run", "served"} |-> page[n]]
    BY DEF TypeInv
  <2>3. /\ page' = [n \in Addresses \cup {"run", "served"} |-> page'[n]]
        /\ \A n \in Registers : page'[n] = IPAddress_toString(chip[n])
    BY <2>1, <2>2 DEF Addresses, Registers
  <2>4. TypeInv'
    BY <2>1, <2>3 DEF TypeInv
  <2>5. ShownInv' /\ ServedInv'
    BY <2>1, <2>3 DEF ShownInv, ServedInv
  <2> QED BY <2>1, <2>4, <2>5 DEF QueryInv, AddressInv
<1>4. CASE ShowRemote
  <2>1. /\ UNCHANGED <<chip, hTargetIp, pTargetIp, bReadyToSend, bUsingDhcp, query, want>>
        /\ pc = "remote" /\ pc' = "idle"
        /\ page' = [page EXCEPT !["tgt"] = pTargetIp, !["run"] = bReadyToSend,
                                !["served"] = TRUE]
    BY <1>4 DEF ShowRemote, ethernet
  <2>2. page = [n \in Addresses \cup {"run", "served"} |-> page[n]]
    BY DEF TypeInv
  <2>3. /\ page' = [n \in Addresses \cup {"run", "served"} |-> page'[n]]
        /\ \A n \in Registers : page'[n] = page[n]
    BY <2>1, <2>2 DEF Addresses, Registers
  <2>4. page'["tgt"] = pTargetIp
    BY <2>1, <2>2 DEF Addresses
  <2>5. page'["run"] = bReadyToSend
    BY <2>1, <2>2 DEF Addresses
  <2>6. page'["served"] = TRUE
    BY <2>1, <2>2
  <2>7. query = <<>>
    BY <2>1 DEF TypeInv
  <2>8. TypeInv'
    BY <2>1, <2>3, <2>7 DEF TypeInv
  <2>9. ShownInv' /\ ServedInv'
    BY <2>1, <2>3, <2>4, <2>5, <2>6 DEF ShownInv, ServedInv
  <2> QED BY <2>1, <2>8, <2>9 DEF QueryInv, AddressInv
<1>5. CASE UNCHANGED <<ethernet, pc, query, page, want>>
  BY <1>5 DEF ethernet, TypeInv, QueryInv, AddressInv, ShownInv, ServedInv
<1> QED BY <1>1, <1>2, <1>3, <1>4, <1>5 DEF Next, Radio, vars

\* SettingsInv holds in every state, whatever forms, boot addresses and garbage there are.
THEOREM SettingsInvariant == Spec => []SettingsInv
<1> QED BY InitSettings, SettingsStep, PTL DEF Spec

-----------------------------------------------------------------------------
(* The radio *)

\* What a request does to the radio is one of its operations, with a channel that fits
\* a byte and a protocol that there is.
LEMMA RadioSteps == SettingsInv /\ [Next]_vars => [RadioNext]_radioVars
<1> SUFFICES ASSUME SettingsInv, [Next]_vars PROVE [RadioNext]_radioVars
  OBVIOUS
<1>1. CASE HandleParameter
  <2>0. PICK null \in NullTexts :
          LET next == NextParameter(query, null)
          IN  Dashboard_handleParameterChange(next.parameter.name, next.parameter.value)
    BY <1>1 DEF HandleParameter
  <2> DEFINE next == NextParameter(query, null)
             n == next.parameter.name
             v == next.parameter.value
             p == IF First(v) = 0 THEN "BLE_1M" ELSE "IEEE_802_15_4"
  <2>1. query # <<>> /\ Dashboard_handleParameterChange(n, v)
    BY <1>1, <2>0 DEF HandleParameter
  <2>2. v \in Text
    BY <2>1, NextParameterProperties DEF SettingsInv, QueryInv
  <2>3. Channel(v) \in 0 .. 255 /\ p \in Protocol
    BY <2>2, ChannelType DEF Protocol
  <2> HIDE DEF n, v
  <2>4. Radio_setRXChannel(Channel(v)) \/ Radio_stopRX(p) \/ UNCHANGED radioVars
    BY <2>1 DEF Dashboard_handleParameterChange
  <2> HIDE DEF p
  <2> QED BY <2>3, <2>4 DEF RadioNext
<1>2. CASE UNCHANGED radioVars
  BY <1>2
<1>3. CASE Radio
  BY <1>3 DEF Radio, RadioNext
<1> QED BY <1>1, <1>2, <1>3 DEF Next, Request, ShowNetwork, ShowRemote, vars

\* The Dashboard task uses the radio as RadioControl says it is used: what is proved
\* there for any order of operations holds behind the dashboard.
THEOREM SettingsImplementsRadio == Spec => RadioSpec
<1>1. Init => RadioInit
  BY DEF Init
<1> QED BY <1>1, RadioSteps, SettingsInvariant, PTL DEF Spec, RadioSpec

-----------------------------------------------------------------------------
(* The properties *)

\* Every address has four bytes, whatever text it is read from and whatever it was
\* before, and a request leaves nothing behind (ethernet_task.c, dashboard_task.c).
THEOREM SettingsTyped == Spec => []TypeOK
<1>1. SettingsInv /\ RadioTypeOK => TypeOK
  BY DEF SettingsInv, TypeInv, TypeOK
<1> QED BY <1>1, SettingsInvariant, SettingsImplementsRadio, RadioTyped, PTL

\* The page shows, and the chip holds, the address last asked for, for every address:
\* the text of an address is read as that address (IPAddress_fromString), and
\* what is shown for it is its text (IPAddress_toString).
THEOREM ShowsWhatWasSetAlways == Spec => []ShowsWhatWasSet
<1>1. SettingsInv => ShowsWhatWasSet
  <2> SUFFICES ASSUME SettingsInv, pc = "idle", NEW n \in Registers, want[n] # Unknown
               PROVE  chip[n] = want[n] /\ Asked(page[n]) = want[n]
    BY DEF ShowsWhatWasSet
  <2>1. chip[n] = want[n]
    BY DEF SettingsInv, AddressInv
  <2>2. page["served"] = TRUE
    BY DEF SettingsInv, ServedInv, Addresses
  <2>3. page[n] = IPAddress_toString(chip[n])
    BY <2>2 DEF SettingsInv, ShownInv
  <2>4. chip[n] \in Address
    BY DEF SettingsInv, TypeInv
  <2>5. Asked(IPAddress_toString(chip[n])) = chip[n]
    BY <2>4, ToStringIsText
  <2> QED BY <2>1, <2>3, <2>5
<1> QED BY <1>1, SettingsInvariant, PTL

\* While frames are sent the page says so, and they go to the target that it shows
\* (Ethernet_setTargetIp, Ethernet_startSniffing, Html_sectionRemoteTarget).
THEOREM SendsWhereThePageSaysAlways == Spec => []SendsWhereThePageSays
<1>1. SettingsInv => SendsWhereThePageSays
  BY DEF SettingsInv, AddressInv, ServedInv, SendsWhereThePageSays
<1> QED BY <1>1, SettingsInvariant, PTL
=============================================================================
