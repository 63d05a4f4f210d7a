------------------------------ MODULE MCSettings ------------------------------
(***************************************************************************)
(* Instances of Settings for TLC.                                          *)
(***************************************************************************)
EXTENDS Settings

Field(n, v) == [name |-> n, value |-> v]

\* "10.0.0.77", "1..25.300" (no address) and "001..3.255".
ten == <<1, 0, Dot, 0, Dot, 0, Dot, 7, 7>>
none == <<1, Dot, Dot, 2, 5, Dot, 3, 0, 0>>
zeros == <<0, 0, 1, Dot, Dot, 3, Dot, 2, 5, 5>>

\* 10 is no channel, 282 is 26 in eight bits, 37 and 38 are channels of BLE.
MCChannels == {<<1, 0>>, <<2, 8, 2>>, <<3, 7>>, <<3, 8>>}

\* The three forms of the page, and a request without a query.
MCForms ==
    {<<>>, <<Field("run", <<0>>)>>, <<Field("run", <<1>>)>>, <<Field("dhcp", <<1>>)>>}
    \cup {<<Field("dhcp", <<0>>), Field("tip", a), Field("gip", b), Field("msk", c)>> :
            a \in {<<>>, ten}, b \in {none}, c \in {<<>>, zeros}}
    \cup {<<Field("pro", <<p>>), Field("chn", c), Field("tgt", t)>> :
            p \in {0, 1}, c \in MCChannels, t \in {<<>>, ten, zeros}}

MCBootAddresses == {NoAddress, <<192, 168, 5, 23>>}
MCGarbage == {NoAddress, <<9, 9, 9, 9>>}

\* Address 0 is in the flash: no character, or some.
MCNullTexts == {<<>>, none}
=============================================================================
