---------------------------- MODULE VxlanNetwork -----------------------------
(***************************************************************************)
(* The VXLAN backend (src/backend/vxlan/vxlan_network.rs): three kernel    *)
(* tables lead a packet for a remote address to its host. The longest      *)
(* route that has the address says that it goes into the vxlan device, to  *)
(* the first address of the routed subnet as its next hop; the neighbour   *)
(* table gives the MAC for that hop, and the device's forwarding table the *)
(* host behind that MAC.                                                   *)
(*                                                                         *)
(* Each Put is three netlink requests, and the loop ends at the first that *)
(* fails. Nothing is ever taken out of the tables: they belong to the      *)
(* device and outlive subnets, configurations and the daemon, unless a     *)
(* start of it (VxlanHost) or a reboot replaces the device.                *)
(***************************************************************************)
EXTENDS LeaseEvents, NetworkConfig

CONSTANTS
  Vxlan,  \* this backend's type
  Mac,
  NoMac,  \* of a lease without backend data, or not in a table
  NoHost

\* Subnets may be of several sizes, by configurations of several times.
ASSUME AlignedAssumption == \A s \in Subnet : s \in Net /\ Aligned(s.ip, s.len)
ASSUME MacAssumption ==  \* no two hosts' devices have one MAC
  \A k, l \in Lease : k.mac = l.mac /\ k.mac # NoMac => k.ip = l.ip
ASSUME TableAssumption == NoMac \notin Mac /\ \A l \in Lease : l.mac \in Mac \cup {NoMac} /\ l.ip # NoHost

VARIABLES
  route,  \* the subnets routed through the device
  arp,    \* the MAC for each next hop
  fdb,    \* the host behind each MAC
  step,   \* "idle", or the request that is next
  last    \* history: the subnets that were the last of this life's to set their hop's MAC

Hop == {s.ip : s \in Subnet}

tables == <<route, arp, fdb>>
events == <<reg, queue, up>>
vars == <<events, tables, step, last>>

\* Leases of another type or without data are ignored, and with them the Delete of a
\* lease nobody knew.
Ours(l) == "type" \in DOMAIN l /\ l.type = Vxlan /\ l.mac # NoMac

Ignore(e) ==
  /\ step = "idle" /\ Handling(e) /\ ~Ours(e.lease)
  /\ Handled
  /\ UNCHANGED <<tables, step, last>>

\* Subnets of two sizes may have one first address, and with it one hop.
SetsHop(s) == last' = {t \in last : t.ip # s.ip} \cup {s}

\* Mutant of AddArp: an entry there is stays as it is.
MutArpKept(e) ==
  /\ step = "idle" /\ Handling(e) /\ e.type = "put" /\ Ours(e.lease)
  /\ arp' = [arp EXCEPT ![e.lease.subnet.ip] = IF @ = NoMac THEN e.lease.mac ELSE @]
  /\ SetsHop(e.lease.subnet)
  /\ step' = "fdb"
  /\ UNCHANGED <<events, route, fdb>>

\* Mutant of AddArp: the route comes first.
MutRouteFirst(e) ==
  /\ step = "idle" /\ Handling(e) /\ e.type = "put" /\ Ours(e.lease)
  /\ arp' = [arp EXCEPT ![e.lease.subnet.ip] = e.lease.mac]
  /\ route' = route \cup {e.lease.subnet}
  /\ SetsHop(e.lease.subnet)
  /\ step' = "fdb"
  /\ UNCHANGED <<events, fdb>>

AddArp(e) ==
  /\ step = "idle" /\ Handling(e) /\ e.type = "put" /\ Ours(e.lease)
  /\ arp' = [arp EXCEPT ![e.lease.subnet.ip] = e.lease.mac]
  /\ SetsHop(e.lease.subnet)
  /\ step' = "fdb"
  /\ UNCHANGED <<events, route, fdb>>

AddFdb(e) ==
  /\ step = "fdb" /\ Handling(e)
  /\ fdb' = [fdb EXCEPT ![e.lease.mac] = e.lease.ip]
  /\ step' = "route"
  /\ UNCHANGED <<events, route, arp, last>>

ReplaceRoute(e) ==
  /\ step = "route" /\ Handling(e)
  /\ route' = route \cup {e.lease.subnet}
  /\ step' = "idle"
  /\ Handled
  /\ UNCHANGED <<arp, fdb, last>>

\* A Delete takes nothing out of the tables.
HandleDelete(e) ==
  /\ step = "idle" /\ Handling(e) /\ e.type = "delete" /\ Ours(e.lease)
  /\ Handled
  /\ UNCHANGED <<tables, step, last>>

\* Mutant of Stop: a new life begins in mid-change.
MutStopInStep == Die /\ last' = {} /\ UNCHANGED <<tables, step>>

\* The daemon is killed or a netlink request fails.
Stop ==
  /\ Die
  /\ step' = "idle" /\ last' = {}
  /\ UNCHANGED tables

NoArp == [h \in Hop |-> NoMac]
NoFdb == [m \in Mac |-> NoHost]

\* The tables go with the device.
ReplaceDevice ==
  /\ ~up
  /\ route' = {} /\ arp' = NoArp /\ fdb' = NoFdb
  /\ UNCHANGED <<events, step, last>>

Init == EventsInit /\ route = {} /\ arp = NoArp /\ fdb = NoFdb /\ step = "idle" /\ last = {}

Handle(e) == Ignore(e) \/ AddArp(e) \/ AddFdb(e) \/ ReplaceRoute(e) \/ HandleDelete(e)

Next ==
  \/ (Registry \/ Restart) /\ UNCHANGED <<tables, step, last>>
  \/ \E e \in Events : Handle(e)
  \/ ReplaceDevice \/ Stop

Spec == Init /\ [][Next]_vars

(***************************************************************************)
(* Properties                                                              *)
(***************************************************************************)

Hosts == {l.ip : l \in Lease}

\* The types of the variables.
TypeOK ==
  /\ EventsOK
  /\ route \subseteq Subnet
  /\ arp \in [Hop -> Mac \cup {NoMac}]
  /\ fdb \in [Mac -> Hosts \cup {NoHost}]
  /\ step \in {"idle", "fdb", "route"}
  /\ step # "idle" => up /\ queue # <<>>
  /\ last \subseteq Subnet

\* Where a packet for the hop h goes.
HostBehind(h) == IF arp[h] = NoMac THEN NoHost ELSE fdb[arp[h]]

\* Where a packet for the address ip goes: of the routes that have it the longest counts.
Addresses == [s \in Subnet |-> {ip \in Address : HasAddress(s, ip)}]
Matching(ip) == {t \in route : ip \in Addresses[t]}
Longest(routes) == CHOOSE t \in routes : \A u \in routes : u.len <= t.len

Destination(ip) ==
  LET routes == Matching(ip) IN
  IF routes = {} THEN NoHost ELSE HostBehind(Longest(routes).ip)

\* The addresses of s that no longer route takes to another hop.
Undiverted(s) ==
  {ip \in Addresses[s] :
     \A t \in route : t.len > s.len /\ ip \in Addresses[t] => t.ip = s.ip}

\* When no event for it is under way a packet for a subnet that a vxlan host has
\* registered reaches that host: through takeovers, new MACs, and failures that left
\* the tables of an earlier life half changed. The exceptions are those of subnets of two
\* sizes, since nothing is ever taken out of the tables: addresses to which a longer
\* route, perhaps of a subnet long gone, leads another way, and a hop that a subnet of
\* another size has taken since.
Reachable ==
  up => \A s \in Subnet :
    reg[s] # NoLease /\ Ours(reg[s]) /\ ~Pending(s) /\ s \in last =>
      \A ip \in Undiverted(s) : Destination(ip) = reg[s].ip

\* A subnet is routed into the device only once its packets have somewhere to go:
\* a failure half way leaves it unrouted, never newly routed into nothing.
RoutedLast ==
  [][\A s \in route' \ route : HostBehind(s.ip)' # NoHost]_vars
==============================================================================
