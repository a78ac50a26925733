----------------------------- MODULE UdpNetwork ------------------------------
(***************************************************************************)
(* The routes of the UDP backend (src/backend/udp/udp.rs), a vector that   *)
(* is searched in order for the first entry that matches the address of a  *)
(* packet, over subnets that hosts choose (src/subnet/subnet.rs) from a    *)
(* configuration that changes under them, so that subnets of several sizes *)
(* are registered side by side.                                            *)
(***************************************************************************)
EXTENDS LeaseEvents, NetworkConfig

CONSTANTS
  RawConfigs,  \* the configurations etcd may hold
  MaxRoutes,   \* bound: every renewal adds a route
  NoHop

ASSUME RawConfigsAssumption == RawConfigs \subseteq RawConfig

\* Whatever is registered, what may be chosen is one of the subnets there are.
ASSUME SubnetsAssumption ==
  /\ Subnet \subseteq Net
  /\ \A raw \in RawConfigs, taken \in SUBSET Subnet :
       Accepted(raw) => Choosable(Config(raw), taken) \subseteq Subnet

VARIABLES
  routes,
  config,  \* the configuration in etcd
  chosen,  \* the subnets chosen from it that nobody has registered yet
  stray    \* history: the registered subnets that rest on what was so before

overlay == <<config, chosen, stray>>
vars == <<reg, queue, up, routes, overlay>>

(***************************************************************************)
(* The other hosts                                                         *)
(***************************************************************************)

Taken == {s \in Subnet : reg[s] # NoLease}

Reconfigure(raw) ==
  /\ raw # config /\ config' = raw
  /\ chosen' = {}
  /\ UNCHANGED <<reg, queue, up, routes, stray>>

\* Mutant of Choose: only subnets of the size that is wanted are in the way.
MutChooseBySize ==
  /\ Accepted(config)
  /\ LET c == Config(config) IN
     \E s \in Choosable(c, {t \in Taken : t.len = c.len}) : chosen' = chosen \cup {s}
  /\ UNCHANGED <<reg, queue, up, routes, config, stray>>

\* A host has read the configuration and what is registered.
Choose ==
  /\ Accepted(config)
  /\ \E s \in Choosable(Config(config), Taken) : chosen' = chosen \cup {s}
  /\ UNCHANGED <<reg, queue, up, routes, config, stray>>

\* create_subnet: only the key itself must not be there.
Create(l) ==
  /\ l.subnet \in chosen \ Taken /\ Register(l)
  /\ chosen' = chosen \ {l.subnet}
  /\ UNCHANGED <<routes, config, stray>>

\* A registration is renewed, or the subnet is taken over.
Renewed(l) == l.subnet \in Taken /\ Register(l) /\ UNCHANGED <<routes, overlay>>

\* The subnet was chosen under another configuration, or without a lease whose
\* time-to-live query had failed, or the renewal comes after the end of the registration.
CreateLate(l) ==
  /\ l.subnet \notin Taken /\ Register(l)
  /\ stray' = stray \cup {l.subnet}
  /\ UNCHANGED <<routes, config, chosen>>

Ended(s) == Gone(s) /\ stray' = stray \ {s} /\ UNCHANGED <<routes, config, chosen>>

Hosts ==
  \/ \E l \in Lease : Create(l) \/ Renewed(l) \/ CreateLate(l)
  \/ Choose
  \/ \E s \in Subnet : Ended(s)
  \/ \E raw \in RawConfigs : Reconfigure(raw)

(***************************************************************************)
(* The backend                                                             *)
(***************************************************************************)

RouteTo(l) == [dst |-> l.subnet, hop |-> l.ip]

\* Mutant of AddRoute: the routes there are stay as they are.
MutPutAppends(rs, l) == Append(rs, RouteTo(l))

\* A Put corrects the routes to the subnet and then adds one more, always.
AddRoute(rs, l) ==
  Append([i \in DOMAIN rs |-> IF rs[i].dst = l.subnet THEN RouteTo(l) ELSE rs[i]], RouteTo(l))

\* Mutant of DropRoutes: the routes are blanked, not removed.
MutDeleteBlanks(rs, l) ==
  [i \in DOMAIN rs |-> IF rs[i].dst = l.subnet THEN [rs[i] EXCEPT !.hop = NoHop] ELSE rs[i]]

DropRoutes(rs, l) ==
  LET kept[i \in 0..Len(rs)] ==
        IF i = 0 THEN <<>>
        ELSE IF rs[i].dst = l.subnet THEN kept[i - 1] ELSE Append(kept[i - 1], rs[i])
  IN  kept[Len(rs)]

HandlePut(e) ==
  /\ Handling(e) /\ e.type = "put" /\ Len(routes) < MaxRoutes
  /\ routes' = AddRoute(routes, e.lease)
  /\ Handled /\ UNCHANGED overlay

HandleDelete(e) ==
  /\ Handling(e) /\ e.type = "delete"
  /\ routes' = DropRoutes(routes, e.lease)
  /\ Handled /\ UNCHANGED overlay

\* find_route, by the first route whose network is that of the destination.
FindRoute(rs, dst) ==
  LET i == SelectInSeq(rs, LAMBDA r : HasAddress(r.dst, dst)) IN IF i = 0 THEN NoHop ELSE rs[i].hop

\* The routes die with the daemon.
Stop == Die /\ routes' = <<>> /\ UNCHANGED overlay

Init ==
  /\ config \in RawConfigs /\ chosen = {} /\ stray = {}
  /\ reg = [s \in Subnet |-> NoLease] /\ queue = <<>> /\ up = FALSE
  /\ routes = <<>>

Next ==
  \/ Hosts
  \/ Restart /\ UNCHANGED <<routes, overlay>>
  \/ \E e \in Events : HandlePut(e) \/ HandleDelete(e)
  \/ Stop

Spec == Init /\ [][Next]_vars

(***************************************************************************)
(* Properties                                                              *)
(***************************************************************************)

Route == [dst : Subnet, hop : {l.ip : l \in Lease}]

\* The types of the variables.
TypeOK ==
  /\ EventsOK
  /\ routes \in Seq(Route)
  /\ config \in RawConfigs /\ chosen \subseteq Subnet /\ stray \subseteq Taken

ExactAt(dst) ==
  LET at == {s \in Subnet : HasAddress(s, dst)}
      owners == {reg[s].ip : s \in at \cap Taken}
      hop == FindRoute(routes, dst)
  IN  (\A s \in at : ~Pending(s)) => hop \in owners \/ (owners = {} /\ hop = NoHop)

\* Once no event is under way for the subnets with an address a packet to it goes to a
\* host that has registered one of them, and is dropped if there is none, although the
\* vector is never rid of the duplicates that renewals leave in it, only its first match
\* counts, and subnets of another size may have had the address before. (The first and
\* the last address of each subnet; the proof is about all.)
RoutesExact ==
  up => \A dst \in UNION {{s.ip, s.ip + Size(s.len) - 1} : s \in Subnet} : ExactAt(dst)

\* Hosts that choose at the same time, and before and after a change of SubnetLen, get
\* subnets that do not overlap. The condition of create_subnet is on one key and does
\* not ensure that: two subnets that overlap are possible, if one of them was chosen
\* under a configuration that changed before it was created, or by a host that had no
\* answer about the other's lease, or was renewed too late.
Disjoint ==
  \A s, t \in Taken \ stray : s # t => ~Overlaps(s, t)
==============================================================================
