---------------------------- MODULE MCUdpNetwork -----------------------------
(***************************************************************************)
(* An instance of UdpNetwork for TLC: two hosts, and a configuration that  *)
(* leases one subnet, or its two halves, or is refused.                    *)
(***************************************************************************)
EXTENDS UdpNetwork, TLC, MCNetworkConfig

CONSTANTS a, b

Upper == [ip |-> 32, len |-> 1]
Whole == [net |-> Upper, subnetLen |-> 0, min |-> None, max |-> 40]
Halves == [net |-> Upper, subnetLen |-> 4, min |-> 40, max |-> 44]
Refused == [net |-> Upper, subnetLen |-> 5, min |-> 40, max |-> 46]
Configs == {Whole, Halves, Refused}

Subnets == {[ip |-> 40, len |-> 3], [ip |-> 40, len |-> 4], [ip |-> 44, len |-> 4]}
ASSUME ChoosableAssumption == Subnets = UNION {Choosable(Config(raw), {}) : raw \in Configs \cap Usable}
ASSUME RefusedAssumption == Refused \notin Usable

Leases == [subnet : Subnet, ip : {a, b}]
Symmetric == Permutations({a, b})
==============================================================================
