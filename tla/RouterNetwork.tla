---------------------------- MODULE RouterNetwork ----------------------------
(***************************************************************************)
(* The host-gw backend (src/backend/hostgw/router_network.rs): one route   *)
(* per remote subnet in the kernel's table, through the host it is         *)
(* registered to, and a list of the routes the daemon has added.           *)
(*                                                                         *)
(* The kernel holds one route per destination (an add of a second one      *)
(* fails) and keeps it when the daemon ends. A replacement is a deletion   *)
(* and an addition, and the daemon may be killed, or the second netlink    *)
(* request fail, in between. All routes here have the daemon's own link;   *)
(* one through another link has a gateway that is no host.                 *)
(***************************************************************************)
EXTENDS LeaseEvents

CONSTANTS
  HostGw,     \* this backend's type
  Gateway,    \* the gateways the kernel's routes may have
  NoRoute

ASSUME RouteAssumption == NoRoute \notin Gateway /\ \A l \in Lease : l.ip # NoRoute

VARIABLES
  kernel,  \* the gateway of the kernel's route to each subnet
  routes,  \* RouterNetwork.routes, of which only the elements matter
  step,    \* "idle", or at the "add" of a route after a deletion
  left     \* history: the subnets whose kernel route no event will remove

vars == <<reg, queue, up, kernel, routes, step, left>>

Routed == {s \in Subnet : kernel[s] # NoRoute}

RouteTo(l) == [dst |-> l.subnet, gw |-> l.ip]

\* Leases of another backend type are ignored, and so is a Delete of a lease
\* nobody knew, which has no type at all.
Ours(l) == "type" \in DOMAIN l /\ l.type = HostGw

Ignore(e) ==
  /\ step = "idle" /\ Handling(e) /\ ~Ours(e.lease)
  /\ Handled
  /\ left' = left \cup ({e.lease.subnet} \cap Routed)
  /\ UNCHANGED <<kernel, routes, step>>

HandlingPut(e) ==
  /\ step = "idle" /\ Handling(e) /\ e.type = "put" /\ Ours(e.lease)

\* route_add: the list gets the route first. There is no other in its way.
AddRoute(e) ==
  /\ HandlingPut(e)
  /\ kernel[e.lease.subnet] \in {NoRoute, e.lease.ip}
  /\ routes' = routes \cup {RouteTo(e.lease)}
  /\ kernel' = [kernel EXCEPT ![e.lease.subnet] = e.lease.ip]
  /\ Handled
  /\ left' = left \ {e.lease.subnet}
  /\ UNCHANGED step

\* Mutant of DeleteOldRoute: any route will do.
MutAnyRouteWillDo(e) ==
  /\ HandlingPut(e)
  /\ kernel[e.lease.subnet] \notin {NoRoute, e.lease.ip}
  /\ routes' = routes \cup {RouteTo(e.lease)}
  /\ Handled
  /\ UNCHANGED <<kernel, step, left>>

\* Mutant of DeleteOldRoute: the old route stays in the list.
MutOldRouteListed(e) ==
  /\ HandlingPut(e)
  /\ kernel[e.lease.subnet] \notin {NoRoute, e.lease.ip}
  /\ routes' = routes \cup {RouteTo(e.lease)}
  /\ kernel' = [kernel EXCEPT ![e.lease.subnet] = NoRoute]
  /\ step' = "add"
  /\ UNCHANGED <<reg, queue, up, left>>

\* There is one, which is deleted.
DeleteOldRoute(e) ==
  /\ HandlingPut(e)
  /\ kernel[e.lease.subnet] \notin {NoRoute, e.lease.ip}
  /\ routes' = (routes \cup {RouteTo(e.lease)})
                  \ {[dst |-> e.lease.subnet, gw |-> kernel[e.lease.subnet]]}
  /\ kernel' = [kernel EXCEPT ![e.lease.subnet] = NoRoute]
  /\ step' = "add"
  /\ UNCHANGED <<reg, queue, up, left>>

\* Mutant of AddNewRoute: the loop waits for another event in mid-change.
MutAddUnhandled(e) ==
  /\ step = "add" /\ Handling(e)
  /\ kernel' = [kernel EXCEPT ![e.lease.subnet] = e.lease.ip]
  /\ Handled
  /\ UNCHANGED <<routes, step, left>>

AddNewRoute(e) ==
  /\ step = "add" /\ Handling(e)
  /\ kernel' = [kernel EXCEPT ![e.lease.subnet] = e.lease.ip]
  /\ step' = "idle"
  /\ Handled
  /\ left' = left \ {e.lease.subnet}
  /\ UNCHANGED routes

HandlingDelete(e) ==
  /\ step = "idle" /\ Handling(e) /\ e.type = "delete" /\ Ours(e.lease)

\* Mutant of HandleDelete: the kernel is not asked.
MutDeleteListed(e) ==
  /\ HandlingDelete(e)
  /\ routes' = routes \ {RouteTo(e.lease)}
  /\ Handled
  /\ UNCHANGED <<kernel, step, left>>

\* There may be no such route in the kernel.
HandleDelete(e) ==
  /\ HandlingDelete(e)
  /\ routes' = routes \ {RouteTo(e.lease)}
  /\ kernel' = [kernel EXCEPT ![e.lease.subnet] = IF @ = e.lease.ip THEN NoRoute ELSE @]
  /\ Handled
  /\ UNCHANGED <<step, left>>

\* A deletion that fails is only reported. What is there stays, and is listed no more.
DeleteRefused(e) ==
  /\ HandlingDelete(e)
  /\ routes' = routes \ {RouteTo(e.lease)}
  /\ Handled
  /\ left' = left \cup ({e.lease.subnet} \cap Routed)
  /\ UNCHANGED <<kernel, step>>

\* The daemon is killed or a netlink request fails with ?.
Stop ==
  /\ Die
  /\ routes' = {} /\ step' = "idle"
  /\ UNCHANGED <<kernel, left>>

\* The list begins empty: routes there are in the kernel are nobody's.
RestartDaemon == Restart /\ left' = Routed /\ UNCHANGED <<kernel, routes, step>>

Init ==
  /\ EventsInit
  /\ kernel \in [Subnet -> Gateway \cup {NoRoute}]
  /\ routes = {} /\ step = "idle" /\ left = {}

Handle(e) ==
  \/ Ignore(e) \/ AddRoute(e) \/ DeleteOldRoute(e) \/ AddNewRoute(e)
  \/ HandleDelete(e) \/ DeleteRefused(e)

Next ==
  \/ Registry /\ UNCHANGED <<kernel, routes, step, left>>
  \/ \E e \in Events : Handle(e)
  \/ RestartDaemon \/ Stop

Spec == Init /\ [][Next]_vars

(***************************************************************************)
(* Properties                                                              *)
(***************************************************************************)

Gateways == {l.ip : l \in Lease} \cup Gateway

\* The types of the variables.
TypeOK ==
  /\ EventsOK
  /\ kernel \in [Subnet -> Gateways \cup {NoRoute}]
  /\ routes \subseteq [dst : Subnet, gw : Gateways]
  /\ step \in {"idle", "add"} /\ left \subseteq Subnet
  /\ step = "add" => up /\ queue # <<>>

\* When no event for it is under way a subnet that a host-gw host has registered is
\* routed to that host, whatever routes an earlier life of the daemon, cut off
\* between the deletion and the addition perhaps, or anybody else left there.
RoutesFollowLeases ==
  up => \A s \in Subnet :
    reg[s] # NoLease /\ Ours(reg[s]) /\ ~Pending(s) => kernel[s] = reg[s].ip

\* A subnet that no host-gw host has registered is routed nowhere once no event for it
\* is under way, with three exceptions: a route from before the daemon's start, whose
\* subnet may have gone while nobody watched, one to a subnet that a host with another
\* backend has taken over, whose Put and Delete are both ignored, and one whose deletion
\* failed, which the loop reports and forgets.
VacatedIsUnrouted ==
  up /\ step = "idle" => \A s \in Subnet \ left :
    ~(reg[s] # NoLease /\ Ours(reg[s])) /\ ~Pending(s) => kernel[s] = NoRoute

\* The daemon's list and the kernel never disagree between two events: a listed
\* route is installed, and no two listed routes to one subnet differ.
ListedIsInstalled ==
  up /\ step = "idle" => \A r \in routes : kernel[r.dst] = r.gw
==============================================================================
