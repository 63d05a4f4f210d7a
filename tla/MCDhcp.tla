------------------------------- MODULE MCDhcp ---------------------------------
(***************************************************************************)
(* Instances of Dhcp for TLC.                                              *)
(***************************************************************************)
EXTENDS Dhcp, TLC

\* A word of four bits: seconds from -8 to 7.
MCWord == 16

Options(l, a, b) == [lease |-> l, t1 |-> a, t2 |-> b]

\* One lease without T1 and T2, as the acquisition runs need no more.
PlainLease == {Options(4, Absent, Absent)}

\* No lease time, an endless lease, a given T1 and T2.
MixedLeases ==
  {Options(Absent, Absent, Absent), Options(15, Absent, Absent), Options(6, 5, 3)}

ServerSymmetry == Permutations(Server)

ZeroSeconds == {0}
AnySeconds == {-1, 0, 3}
=============================================================================
