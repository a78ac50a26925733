---------------------------- MODULE MCSubnetLease ----------------------------
(***************************************************************************)
(* Instances of SubnetLease for TLC.                                       *)
(***************************************************************************)
EXTENDS SubnetLease, TLC

CONSTANTS a, b, l1, l2, l3, l4

Hosts == {a, b}
Leases == {l1, l2, l3}
MoreLeases == {l1, l2, l3, l4}

\* One configuration with a subnet for every host.
OneConfig == {{1, 2}}

\* One subnet for all.
OneSubnet == {{1}}

\* Subnet 3 is longer than 1 and 2 and covers both: the configuration may change
\* from one size of subnet to the other.
TwoSizes == {{1, 2}, {3}}
SameSubnet == {<<s, s>> : s \in Subnet}
Covers == SameSubnet \cup ({1, 2} \X {3}) \cup ({3} \X {1, 2})

Symmetric == Permutations(Hosts) \cup Permutations(Leases)
==============================================================================
