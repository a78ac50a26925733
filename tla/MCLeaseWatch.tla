---------------------------- MODULE MCLeaseWatch -----------------------------
(***************************************************************************)
(* Instances of LeaseWatch for TLC.                                        *)
(***************************************************************************)
EXTENDS LeaseWatch, TLC

CONSTANTS a, b

Hosts == {a, b}
Symmetric == Permutations(Hosts)
==============================================================================
