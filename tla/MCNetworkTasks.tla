--------------------------- MODULE MCNetworkTasks ---------------------------
(***************************************************************************)
(* Values of the constants of NetworkTasks that a .cfg cannot write.       *)
(***************************************************************************)
EXTENDS NetworkTasks

MCAllParams == {"tgt", "run", "dhcp", "other"}
MCDhcp == {"dhcp"}
=============================================================================
