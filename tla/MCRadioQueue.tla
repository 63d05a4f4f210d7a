---------------------------- MODULE MCRadioQueue ------------------------------
(***************************************************************************)
(* Instances of RadioQueue for TLC; the constants are in the cfg files.    *)
(***************************************************************************)
EXTENDS RadioQueue
=============================================================================
