-------------------------------- MODULE MCDns --------------------------------
(***************************************************************************)
(* An instance of Dns for TLC.                                             *)
(***************************************************************************)
EXTENDS Dns

\* "ab", ".ab..cd.", "dd" (a name without address), "10.7", and an unknown name on
\* which inet_aton overflows.
ab == <<97, 98>>
cd == <<99, 100>>
dd == <<100, 100>>
long == [i \in 1 .. 12 |-> IF i % 2 = 1 THEN 121 ELSE 120]
MCHostNames ==
    {ab, <<Dot>> \o ab \o <<Dot, Dot>> \o cd \o <<Dot>>,
     dd, long, <<49, 48, Dot, 55>>}

AddressRecord(x) == [type |-> TypeA, data |-> <<10, 0, 0, x>>]
AliasRecord == [type |-> 5, data |-> <<2, 99, 100, 192, 12>>]

MCZone ==
    <<ab>> :> <<AddressRecord(1), AddressRecord(2)>>
    @@ <<ab, cd>> :> <<AliasRecord, AddressRecord(3)>>
    @@ <<dd>> :> <<AliasRecord>>
=============================================================================
