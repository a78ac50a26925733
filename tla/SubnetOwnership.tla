--------------------------- MODULE SubnetOwnership ---------------------------
(***************************************************************************)
(* What the lease protocol of flannel-ng promises its hosts: a subnet of   *)
(* the overlay has at most one owner, a host routes traffic for a subnet   *)
(* only while it owns it, and a subnet changes hands only through a moment *)
(* in which nobody owns it and nobody uses it.                             *)
(*                                                                         *)
(* SubnetLease implements this specification (see Ownership there).        *)
(***************************************************************************)
CONSTANTS Node, Subnet, Nobody, Idle

VARIABLES owner,    \* the host a subnet is registered to
          using     \* the subnet a host is running with

Init ==
  /\ owner = [s \in Subnet |-> Nobody]
  /\ using = [n \in Node |-> Idle]

\* A host starts to use a subnet nobody owns, or one it still owns.
Acquire(n, s) ==
  /\ using[n] = Idle
  /\ owner[s] \in {Nobody, n}
  /\ owner' = [owner EXCEPT ![s] = n]
  /\ using' = [using EXCEPT ![n] = s]

\* A host stops. Its registration stays until it is reclaimed.
Stop(n) ==
  /\ using[n] # Idle
  /\ using' = [using EXCEPT ![n] = Idle]
  /\ UNCHANGED owner

\* The registration of a subnet its owner does not use goes away.
Reclaim(s) ==
  /\ owner[s] # Nobody
  /\ \A n \in Node : using[n] # s
  /\ owner' = [owner EXCEPT ![s] = Nobody]
  /\ UNCHANGED using

Next ==
  \/ \E n \in Node, s \in Subnet : Acquire(n, s)
  \/ \E n \in Node : Stop(n)
  \/ \E s \in Subnet : Reclaim(s)

Spec == Init /\ [][Next]_<<owner, using>>
==============================================================================
