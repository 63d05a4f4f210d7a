---------------------------- MODULE RadioControl ----------------------------
(***************************************************************************)
(* What the radio core is told to do: the commands of radio_task.c, which  *)
(* the Dashboard task changes, against the state of the core, which knows  *)
(* only the commands it was given, as they were when it was given them.    *)
(*                                                                         *)
(* The callback is a software interrupt and comes between any two steps of *)
(* a task.  The ring it resets is the subject of RadioQueue.               *)
(***************************************************************************)
EXTENDS Integers

VARIABLES
    currentProtocol,
    fs,         \* RF_cmdFs_*.frequency, in MHz, by protocol
    channel,    \* RF_cmdBle5GenericRx.channel and RF_cmdIeeeRx.channel
    bOverride,  \* whitening.bOverride of the BLE command
    core,       \* the radio core: the protocol it is set up for, its frequency, and
                \* for the RX command that runs the channel its whitening is for
    change,     \* how far a change of channel or protocol is
    torn        \* history: RX was started in the middle of a change of channel

radioVars == <<currentProtocol, fs, channel, bOverride, core, change, torn>>

Protocol == {"BLE_1M", "IEEE_802_15_4"}
Off == [setup |-> "closed", frequency |-> 0, rx |-> FALSE, whitening |-> 0]

BleFrequency == [c \in 37 .. 39 |-> CASE c = 37 -> 2402 [] c = 38 -> 2426 [] c = 39 -> 2480]
IeeeFrequencies == {2405 + 5 * (c - 11) : c \in 11 .. 26}

\* The frequency that the channel of a BLE RX command stands for: an advertising
\* channel, or any other, given as the offset to 2300 MHz.
ChannelFrequency(c) == IF c \in 37 .. 39 THEN BleFrequency[c] ELSE 2300 + c

\* The commands as they are before Radio_initObjects and after it: frequency 0x0962 and
\* channel 0x66 for BLE; frequency 0x0965 and channel 0 for IEEE 802.15.4; the
\* whitening of channel 37, 0x65.
RF_cmdFs_bt5le1m_0 == 2402
RF_cmdBle5GenericRx_bt5le1m_0 == [channel |-> 102, bOverride |-> TRUE]
RF_cmdFs_ieee154_1 == 2405
RF_cmdIeeeRx_ieee154_1 == [channel |-> 0]
InitialWhitening == 37

\* The commands of a protocol: mode and setup, synthesizer, RX.
Radio_getRadioSetup(p) == p
Radio_getFScmd(p) == fs[p]
Radio_getRXcmd(p) == channel[p]

\* Mutant: the channel of the IEEE command is used as it is, 0.
Radio_beginRX_IeeeChannel(r, p) ==
    [r EXCEPT !.rx = TRUE,
              !.frequency = ChannelFrequency(Radio_getRXcmd(p)),
              !.whitening = IF bOverride THEN InitialWhitening ELSE channel[p]]

\* The core takes the RX command of protocol p: one of BLE tunes it, one of IEEE
\* 802.15.4, its channel being 0, leaves it where the synthesizer command has put it.
Radio_beginRX(r, p) ==
    [setup |-> r.setup, rx |-> TRUE,
     frequency |-> IF p = "BLE_1M" THEN ChannelFrequency(Radio_getRXcmd(p)) ELSE r.frequency,
     whitening |-> IF bOverride THEN InitialWhitening ELSE channel["BLE_1M"]]

Radio_openRF(p) ==
    [setup |-> Radio_getRadioSetup(p), frequency |-> 0, rx |-> FALSE, whitening |-> 0]

\* The one place from which the synthesizer is set.
Radio_setFS(r, p) ==
    [setup |-> r.setup, frequency |-> Radio_getFScmd(p), rx |-> r.rx, whitening |-> r.whitening]

\* Radio_mainTask has called Radio_initObjects and started reception.
RadioInit ==
    /\ currentProtocol = "IEEE_802_15_4"
    /\ fs = [p \in Protocol |->
               IF p = "BLE_1M" THEN RF_cmdFs_bt5le1m_0 ELSE RF_cmdFs_ieee154_1]
    /\ channel = [p \in Protocol |-> IF p = "BLE_1M" THEN RF_cmdBle5GenericRx_bt5le1m_0.channel
                                     ELSE RF_cmdIeeeRx_ieee154_1.channel]
    /\ bOverride = RF_cmdBle5GenericRx_bt5le1m_0.bOverride
    /\ core = [setup |-> "IEEE_802_15_4", frequency |-> RF_cmdFs_ieee154_1, rx |-> TRUE,
               whitening |-> InitialWhitening]
    /\ change = "none" /\ torn = FALSE
-----------------------------------------------------------------------------
\* The ring is full: the callback starts RX again.
Radio_callback ==
    /\ core.rx
    /\ core' = Radio_beginRX(core, currentProtocol)
    /\ torn' = (change = "whitening")
    /\ UNCHANGED <<currentProtocol, fs, channel, bOverride, change>>

\* Mutant: the frequency of a BLE channel is that of the one before it.
SetBleChannel_Off(c) ==
    /\ fs' = [fs EXCEPT !["BLE_1M"] = BleFrequency[IF c = 37 THEN 37 ELSE c - 1]]
    /\ channel' = [channel EXCEPT !["BLE_1M"] = c]
    /\ change' = "whitening"

SetBleChannel(c) ==
    /\ fs' = [fs EXCEPT !["BLE_1M"] = BleFrequency[c]]
    /\ channel' = [channel EXCEPT !["BLE_1M"] = c]
    /\ change' = "whitening"

\* Radio_setRXChannel: no command is given to the core.
Radio_setRXChannel(c) ==
    /\ change = "none"
    /\ \/ currentProtocol = "BLE_1M" /\ c \in 37 .. 39 /\ SetBleChannel(c)
       \/ /\ currentProtocol = "IEEE_802_15_4" /\ c \in 11 .. 26
          /\ fs' = [fs EXCEPT !["IEEE_802_15_4"] = 2405 + 5 * (c - 11)]
          /\ UNCHANGED <<channel, change>>
       \/ /\ c \notin (IF currentProtocol = "BLE_1M" THEN 37 .. 39 ELSE 11 .. 26)
          /\ UNCHANGED <<fs, channel, change>>
    /\ UNCHANGED <<currentProtocol, bOverride, core, torn>>

\* The last statement for a BLE channel: from here on its own whitening is used.
Radio_setRXChannel_whitening ==
    /\ change = "whitening"
    /\ bOverride' = FALSE /\ change' = "none"
    /\ UNCHANGED <<currentProtocol, fs, channel, core, torn>>

\* Radio_setCurrentProtocol(p), first part: commands are flushed, the driver is
\* closed, and no callback comes any more.
Radio_stopRX(p) ==
    /\ change = "none" /\ change' = p
    /\ core' = Off
    /\ UNCHANGED <<currentProtocol, fs, channel, bOverride, torn>>

\* Second part: the new protocol, its setup, its frequency, and RX.
Radio_setCurrentProtocol ==
    /\ change \in Protocol
    /\ currentProtocol' = change
    /\ core' = Radio_beginRX(Radio_setFS(Radio_openRF(change), change), change)
    /\ change' = "none" /\ torn' = FALSE
    /\ UNCHANGED <<fs, channel, bOverride>>

\* The end of an operation that has two parts.
RadioGoesOn == Radio_setRXChannel_whitening \/ Radio_setCurrentProtocol

RadioNext ==
    \/ Radio_callback \/ RadioGoesOn
    \/ \E c \in 0 .. 255 : Radio_setRXChannel(c)
    \/ \E p \in Protocol : Radio_stopRX(p)

RadioSpec == RadioInit /\ [][RadioNext]_radioVars
-----------------------------------------------------------------------------
(* Properties *)

RadioTypeOK ==
    /\ currentProtocol \in Protocol
    /\ fs \in [Protocol -> Nat]
    /\ channel \in [Protocol -> 0 .. 255]
    /\ bOverride \in BOOLEAN /\ torn \in BOOLEAN
    /\ core \in [setup : Protocol \cup {"closed"}, frequency : Nat, rx : BOOLEAN,
                 whitening : 0 .. 255]
    /\ change \in Protocol \cup {"none", "whitening"}

\* The synthesizer command and the RX command of BLE stand for one frequency, and
\* the one of IEEE 802.15.4 for a channel of its band, whatever numbers come.
CommandsAgree ==
    /\ fs["BLE_1M"] = ChannelFrequency(channel["BLE_1M"])
    /\ fs["IEEE_802_15_4"] \in IeeeFrequencies

\* Reception runs with the setup of the protocol that frames are labelled with, on a
\* frequency of that protocol; and what it receives as BLE it unwhitens for the
\* channel it is on, unless the callback has started it before the last statement
\* of a change of channel.
ReceivesItsProtocol ==
    core.rx =>
        /\ core.setup = currentProtocol
        /\ currentProtocol = "BLE_1M" =>
             /\ core.frequency \in {BleFrequency[c] : c \in 37 .. 39}
             /\ torn \/ core.frequency = BleFrequency[core.whitening]
        /\ currentProtocol = "IEEE_802_15_4" => core.frequency \in IeeeFrequencies

\* dashboard_task.c:205, over the call of Radio_setRXChannel: "Change BLE or IEEE
\* 802.15.4 RX channel".
TunesToItsChannel == core.rx /\ change = "none" => core.frequency = fs[currentProtocol]
=============================================================================
