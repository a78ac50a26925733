--------------------------- MODULE MCRouterNetwork ---------------------------
(***************************************************************************)
(* An instance of RouterNetwork for TLC: hosts a and b may register either *)
(* subnet, as host-gw hosts or with another backend; gateway c is no host. *)
(***************************************************************************)
EXTENDS RouterNetwork, TLC

CONSTANTS a, b, c, hostgw, other

Leases == [subnet : Subnet, ip : {a, b}, type : {hostgw, other}]
Gates == {a, b, c}
Symmetric == Permutations({a, b})
==============================================================================
