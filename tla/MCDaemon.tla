------------------------------- MODULE MCDaemon -------------------------------
(***************************************************************************)
(* An instance of Daemon for TLC: two configurations with a subnet each,   *)
(* and one that main refuses.                                              *)
(***************************************************************************)
EXTENDS Daemon

Leases == [c \in Net |-> {c} \cap Subnet]
==============================================================================
