------------------------------ MODULE MCUdpSend ------------------------------
(***************************************************************************)
(* Values of the constants of UdpSend that a .cfg cannot write.            *)
(***************************************************************************)
EXTENDS UdpSend

\* IEEE 802.15.4: the protocol byte.  BLE: the access address, too.
MCHeaders == {<<1>>, <<1, 2>>}
=============================================================================
