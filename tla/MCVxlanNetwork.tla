---------------------------- MODULE MCVxlanNetwork ---------------------------
(***************************************************************************)
(* An instance of VxlanNetwork and VxlanHost for TLC.                      *)
(*                                                                         *)
(* The tables: a subnet of a configuration, and the two halves of it that  *)
(* another one leases, the first of which has its hop; two hosts, and one  *)
(* whose leases the backend has to ignore. The MAC of a host's device goes *)
(* by the name of the host.                                                *)
(*                                                                         *)
(* The device: three subnets and two configurations with two of them each, *)
(* so that one subnet lies inside both Networks; their devices are set up  *)
(* differently.                                                            *)
(***************************************************************************)
EXTENDS VxlanNetwork, VxlanHost, TLC

CONSTANTS h1, h2, h3, n1, n2, x, y, vxlan, other

All == [ip |-> 0, len |-> 0]
Whole == [net |-> All, subnetLen |-> 2, min |-> 8, max |-> 8]
Halves == [net |-> All, subnetLen |-> 3, min |-> 8, max |-> 12]

Subnets == {[ip |-> 8, len |-> 2], [ip |-> 8, len |-> 3], [ip |-> 12, len |-> 3]}
ASSUME LeasedAssumption ==
  /\ Accepted(Whole) /\ Accepted(Halves)
  /\ Subnets = Choosable(Config(Whole), {}) \cup Choosable(Config(Halves), {})

Leases ==
  {[subnet |-> s, ip |-> h, type |-> vxlan, mac |-> h] : s \in Subnet, h \in {h1, h2}}
    \cup [subnet : Subnet, ip : {h3}, type : {other}, mac : {h3}]

Macs == {h1, h2, h3}

Before == [setup |-> x, leasable |-> {1, 2}, inside |-> {1, 2}]
After == [setup |-> y, leasable |-> {2, 3}, inside |-> {2, 3}]
Confs == {Before, After}

OwnMacs == {n1, n2}
Setups == {x, y}

Symmetric == Permutations({h1, h2}) \cup Permutations(OwnMacs)

(***************************************************************************)
(* The two specifications have no variable in common, and no property      *)
(* speaks of both. So in each behaviour one of them is at rest, and TLC    *)
(* has the sum of their states to visit and not the product.               *)
(***************************************************************************)
VARIABLE runs  \* which of the two

EachInit ==
  /\ Init /\ HostInit
  /\ \/ runs = "tables" /\ conf = Before /\ own = 1
     \/ runs = "device" /\ reg = [s \in Subnet |-> NoLease]

TablesStep == runs = "tables" /\ Next /\ UNCHANGED host
DeviceStep == runs = "device" /\ HostNext /\ UNCHANGED vars

EachSpec == EachInit /\ [][(TablesStep \/ DeviceStep) /\ UNCHANGED runs]_<<vars, host, runs>>
==============================================================================
