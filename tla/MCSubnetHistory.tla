--------------------------- MODULE MCSubnetHistory ---------------------------
(***************************************************************************)
(* Instances of SubnetHistory for TLC.                                     *)
(***************************************************************************)
EXTENDS SubnetHistory, MCSubnetLease
==============================================================================
