---------------------------- MODULE NetworkConfig ----------------------------
(***************************************************************************)
(* The network configuration (src/subnet/subnet.rs): the check and the     *)
(* defaults of what an operator puts into etcd, and the choice of a subnet *)
(* that is free. An address is a number of Width bits, and arithmetic on   *)
(* addresses wraps, as in a release build. A network is [ip, len]; its ip  *)
(* may have bits beyond its prefix, and nothing clears them.               *)
(***************************************************************************)
EXTENDS Integers, FiniteSets

CONSTANTS
  Width,       \* 32
  DefaultLen,  \* 24, the SubnetLen of a large network
  MaxChoices,  \* 100, the free subnets allocate_subnet looks for
  None         \* SubnetMin or SubnetMax is not given

ASSUME WidthAssumption == Width \in Nat /\ DefaultLen \in 2..(Width - 2) /\ MaxChoices \in Nat \ {0}

Pow2[n \in 0..Width] == IF n = 0 THEN 1 ELSE 2 * Pow2[n - 1]

Space == Pow2[Width]
Size(len) == Pow2[Width - len]
Address == 0..(Space - 1)
Net == [ip : Address, len : 0..Width]
Aligned(ip, len) == ip % Size(len) = 0

(***************************************************************************)
(* Of the crate ipnetwork                                                  *)
(***************************************************************************)

NetworkOf(n) == n.ip - (n.ip % Size(n.len))
HasAddress(n, ip) == NetworkOf([n EXCEPT !.ip = ip]) = NetworkOf(n)

Overlaps(m, n) == HasAddress(m, n.ip) \/ HasAddress(n, m.ip)

(***************************************************************************)
(* check_network_config                                                    *)
(***************************************************************************)

\* What an operator may write; a subnetLen of 0 is none given.
RawConfig == [net : Net, subnetLen : Nat, min : {None} \cup Address, max : {None} \cup Address]

\* A prefix of 0 shifts 1 by all its bits, which a release build takes for by none.
NextNetwork(n) ==
  [n EXCEPT !.ip = (@ + (IF n.len = 0 THEN 1 ELSE Size(n.len))) % Space]

LenFits(raw) ==
  IF raw.subnetLen = 0 THEN raw.net.len <= Width - 4
  ELSE raw.subnetLen <= Width - 2 /\ raw.subnetLen >= raw.net.len + 2

SubnetLen(raw) ==
  IF raw.subnetLen > 0 THEN raw.subnetLen
  ELSE IF raw.net.len <= DefaultLen - 2 THEN DefaultLen ELSE raw.net.len + 2

\* The configuration as it is after the defaults.
Config(raw) ==
  LET len == SubnetLen(raw) IN
  [len |-> len,
   min |-> IF raw.min = None THEN (raw.net.ip + Size(len)) % Space ELSE raw.min,
   max |-> IF raw.max = None THEN (NextNetwork(raw.net).ip - Size(len)) % Space ELSE raw.max]

\* What the daemon goes on with. The defaults are not checked for being in the network.
Accepted(raw) ==
  /\ LenFits(raw)
  /\ raw.min # None => HasAddress(raw.net, raw.min)
  /\ raw.max # None => HasAddress(raw.net, raw.max)
  /\ LET c == Config(raw) IN Aligned(c.min, c.len) /\ Aligned(c.max, c.len)

(***************************************************************************)
(* The choice of a subnet                                                  *)
(***************************************************************************)

\* try_acquire_lease: a host keeps the subnet it has if the configuration could have
\* given it.
Reusable(c, s) == s.ip >= c.min /\ s.ip <= c.max /\ s.len = c.len

\* allocate_subnet walks from SubnetMin until it is past SubnetMax, or has found
\* MaxChoices that overlap no subnet of taken. Any of those may be chosen. After the last
\* subnet of the address space the walk goes on at its first; from a second round it
\* learns nothing new.
Choosable(c, taken) ==
  LET At(k) == [ip |-> (c.min + k * Size(c.len)) % Space, len |-> c.len]
      Free(k) == \A t \in taken : ~Overlaps(At(k), t)
      Walked(k) == /\ \A j \in 0..k : At(j).ip <= c.max
                   /\ Cardinality({j \in 0..(k - 1) : Free(j)}) < MaxChoices
  IN  {At(k) : k \in {j \in 0..(Pow2[c.len] - 1) : Free(j) /\ Walked(j)}}
==============================================================================
