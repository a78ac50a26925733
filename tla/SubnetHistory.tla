---------------------------- MODULE SubnetHistory ----------------------------
(***************************************************************************)
(* SubnetLease with a history variable: which hosts have ever been         *)
(* registered on which subnet.                                             *)
(***************************************************************************)
EXTENDS SubnetLease

VARIABLE former

Registered == {<<kv[s].ip, s>> : s \in {t \in Subnet : kv[t] # NoEntry}}

HInit == Init /\ former = {}
HNext == Next /\ former' = former \cup Registered
HSpec == HInit /\ [][HNext]_<<vars, former>>

\* Whatever fails, a registration is only ever overwritten by a host that was
\* itself registered on that subnet before: create_subnet never displaces anyone,
\* and the unconditional put of update_subnet, be it of a stale snapshot or of a
\* renewal with adopted attributes, can at worst bring a former owner back.
DisplacedOnlyByFormerOwner ==
  [][\A s \in Subnet :
       kv[s] # NoEntry /\ kv'[s] # NoEntry /\ kv'[s].ip # kv[s].ip
         => <<kv'[s].ip, s>> \in former]_<<vars, former>>
==============================================================================
