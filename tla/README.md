# flannel-ng in TLA+

flannel-ng gives every host of a network a subnet of an overlay and keeps the
routes between them. This directory holds a model of the protocols it does that
with, model-checked with TLC on small instances and in part proved with TLAPS.
Every definition is translated from the Rust sources under `src/src`; `PROJECT.json`
names the lines each definition stands for.

## The system

One daemon runs on each host. Daemons never talk to each other: they meet in etcd,
where a registered subnet is a key `<prefix>/subnets/<ip>-<len>` whose value names
the host and its backend, attached to an etcd lease of 24 hours. When the lease ends
etcd deletes the key.

| Part | State | Operations | Interacts with |
|---|---|---|---|
| Daemon (`main.rs`) | its lease, the subnet file | read the configuration, register the backend, write the subnet file, spawn the backend's loop, renew until an error | everything below, by calls and spawned tasks |
| Subnet manager (`subnet/subnet.rs`) | the lease, its renewal timer | `acquire_lease`, `renew_lease_if_needed`, `watch_lease`, `watch_leases` | registry by RPC; backend by a channel |
| Registry client (`etcd/registry.rs`) | none of its own | `get_subnets`, `get_subnet`, `create_subnet`, `update_subnet`, `watch_subnet(s)` | etcd |
| LeaseWatcher (`subnet/subnet.rs`) | the other hosts' leases | `reset`, `update`, `add`, `remove` | fed by the watch, feeds the backend |
| UDP backend (`backend/udp`) | a vector of routes | events, `find_route`, forwarding | tun device and socket |
| host-gw backend (`backend/hostgw`) | a list of routes, the kernel's table | events, `route_add` | kernel by netlink |
| VXLAN backend (`backend/vxlan`, `ip/iface.rs`) | the device, its MAC and addresses; ARP, FDB and routes | `ensure_vxlan_link`, `ensure_v4_addr_on_link`, events | kernel by netlink; its MAC travels in the lease |
| Configuration (`subnet/config.rs`, `check_network_config`) | none | parse, check, defaults; `allocate_subnet` walks it | etcd |
| Interface lookup, tun, MAC, codec | none | kernel and byte-level I/O | kernel |

What is hard about it:

* *Races through etcd.* A choice of subnet rests on a snapshot many RPCs old. Only
  `create_subnet` is conditional; `update_subnet` overwrites whatever is there.
* *Ambiguous failures.* A put whose reply is lost is answered by revoking its lease,
  which may delete a registration that took effect.
* *Leases and watches end on their own.* Expiry, renewal, the Delete of the own key and
  the timer race in one `select!`. A lease that ends between two RPCs makes a task
  panic. Tasks die silently.
* *A snapshot and a watch must join without a gap*, through three tasks, two bounded
  channels, dropped and repeated events.
* *State that outlives the daemon* in the kernel, in etcd and in a file, changed in
  several requests each of which may fail.
* *Arithmetic on time and addresses* that panics or wraps at its ends: a margin longer
  than what is left of a lease, a subnet after the last one of the address space.
* *A configuration that changes under the hosts*: subnets of two sizes side by side.

What makes each part correct: a subnet has one user (lease protocol); a backend ends
up knowing exactly the registered leases (distribution); packets for a registered
subnet go to the host that registered it, and for a vacated one nowhere (backends); the
registration does not run out under a daemon that can reach etcd (renewal); subnets do
not overlap (configuration). The hazards are listed in
`PROJECT.json`, each at its line, with the properties that would catch it or the
reason why none does.

## The modules

| Module | Models | Checked by |
|---|---|---|
| `SubnetOwnership` | abstract: who owns and who uses a subnet | property of `lease_safe` |
| `SubnetLease` | acquisition, renewal and own watch of several daemons over etcd | `lease_*` |
| `SubnetHistory` | `SubnetLease` with the former owners of each subnet as history | `lease_faults` |
| `MCSubnetLease`, `MCSubnetHistory` | instances | |
| `SubnetLease_proofs` | theorems about `SubnetLease` and `SubnetHistory` | TLAPS |
| `LeaseWatcher` | the watcher's list operations as operators | through `LeaseWatch` |
| `LeaseWatch`, `MCLeaseWatch` | snapshot, watch, relay and backend channel of one daemon | `watch_*` |
| `LeaseWatch_proofs` | theorems about `LeaseWatch` | TLAPS |
| `Daemon`, `MCDaemon` | one daemon from start to end, with its clock, its subnet file and etcd's time-to-live | `daemon` |
| `Daemon_proofs` | theorems about `Daemon` | TLAPS |
| `NetworkConfig` | check, defaults and walk of a configuration, as operators on addresses of `Width` bits | `MCNetworkConfig`, through `UdpNetwork` and `VxlanNetwork` |
| `MCNetworkConfig` | three assumptions about `NetworkConfig`, over all configurations of a few bits | evaluated by `udp_routes` |
| `LeaseEvents` | what a backend sees of `LeaseWatch` | through the backends |
| `UdpNetwork`, `MCUdpNetwork` | the UDP routes, over hosts that choose subnets by `NetworkConfig` | `udp_routes` |
| `RouterNetwork`, `MCRouterNetwork` | the host-gw event loop and the kernel's routes | `hostgw_routes` |
| `VxlanNetwork` | the VXLAN event loop and its tables, over subnets of any sizes | `vxlan` |
| `VxlanHost` | what a VXLAN daemon tells of its device: start, registration, address, renewals with the lease it has | `vxlan` |
| `MCVxlanNetwork` | an instance of both, of which one runs while the other is at rest | |
| `LeaseEvents_proofs`, `UdpNetwork_proofs`, `RouterNetwork_proofs`, `VxlanNetwork_proofs` | lemmas about `LeaseEvents`, theorems about the three backends | TLAPS |
| `InductionFacts` | induction over numbers, and functions defined by recursion: lemmas | TLAPS |

Operators whose names begin with `Mut` are mutants: plausible bugs, one for each
property of each run, that the run finds when they replace the definition they stand
before.

### SubnetLease

`pc[n]` is the step of daemon n: `config`, `range`, `ttl` (the time-to-live queries of
`get_subnets`), `update` or `create`, `revoke` (after an ambiguous put), then `run` and
`renewrevoke`. A step is one RPC as etcd executes it, and the local code up to the next
RPC. The variables `cfg`, `snap`, `todo`, `seen` are the locals of `acquire_lease` and
`get_subnets`; `held` the lease; `lid` the etcd lease to revoke; `watch` and `chan` the
task `watch_lease` and its channel. `kv`, `alive` and `config` are etcd.

Abstractions, and why they are harmless:

* Granting a lease and putting the key is one step: a lease without a key is seen by
  nobody and its leftovers run out.
* Lease ids nothing mentions any more are granted again, so that runs are finite. No
  step compares an id with one it no longer holds.
* There is no time, which is `Daemon`'s. The renewal timer may fire whenever the daemon
  waits, so every renewal schedule is covered; panics of `Duration` arithmetic are kills
  (`Crash`).
* An RPC in flight when a daemon is killed has taken effect or not; both are covered
  by a kill before and after it.
* The configuration is read once, where the lease is chosen (`subnet.rs:135`); `Daemon`
  has both reads. What is used of it is the set of subnets it leases. The cap of 100
  candidates in `allocate_subnet` (`NetworkConfig`) is left out: any free subnet may be
  chosen.
* The own Put that an inclusive start revision repeats changes nothing and is left out.

`Faults` says what may go wrong: failing RPCs, lost replies, early expiry. Without
`"expiry"` a lease does not end while its holder counts on it (`CountsOn`): it is about to
renew it, or does so whenever its timer fires. That is the timing the TTL of 24 hours and
the margin of an hour are meant to provide. It is an assumption here and has that name;
for a running daemon `KeptRegistered` of `Daemon` says how far the timing does provide it.

### LeaseWatch and LeaseWatcher

`log` is etcd's history of the subnet keys; a revision is an index in it. The fetch task
(`watch_leases_inner`), the relay (`watch_leases` with its `LeaseWatcher`) and the
backend's loop are three processes with channels of `Capacity` between them; the code's
100 is only ever "full" or "not full". `view` is what the backend has been told, and
`newest`, `readAt`, `since`, `skipped` record history for the properties. The loops of `LeaseWatcher` are
written as what they compute: `Find` is the search for the first lease of a subnet, `ResetBatch`
the pass over the snapshot that takes each lease it finds out of the old list, as a recursive
function; `ApplyAll` is the events of a batch applied one after the other, of which the last about a
subnet stands. When the relay has ended and its channel is empty the loops of host-gw and VXLAN end
(`while let Some`); that of UDP, the default, goes on with the routes it has, since there the channel
is one arm of a `select!` and is only disabled (`udp.rs:196`). `EndsWithChannel` says which loop it is;
`watch_live` has the first and `watch_safe` the second, where `WatcherTracksView` speaks of the loop
that outlives its watch too. The exemptions in
`Covered` are the losses the code does have: a failed time-to-live query, and changes
between an empty snapshot (revision 0) and the watch.

### Daemon

One daemon with time, where `SubnetLease` has many without. `ttl[s]` is what is left of
this host's registration of subnet s in etcd, and every other clock is a count-down too:
`exp` (`lease.expiration`), `timer` (the argument of `sleep`), the `left` of each event under
way. `Tick` lowers them all and waits for what is `Urgent`: a timer that has fired, an
answer that has taken `Latency`. A request takes effect in one step (`RenewPut`) and is
answered in another (`RenewDone`), so that a lease is always a little older than the daemon
thinks. A put comes after the grant of its lease and finds it aged by up to `Latency`. The own watch asks
for the time-to-live of each Put and adds the answer to the clock at which it has it
(`registry.rs:87`, `260-264`): `held` counts the ticks that answer is under way, while the lease runs
on and what the answer says does not. So `TimerTrue` bounds the timer within one latency of the
registration and not exactly. A query that is slow on its way to etcd is no more than a late
event. The steps follow `main`: `read`, `acquire` (the second read of the configuration and
the snapshot), `found` and `update` or `create`, the file (`rename`), `begin` (the unchecked
subtraction of the margin), `run`, and the renewal. `main` ends in `failed` when the code
ends, and is started again; in `down` when it was killed. `Stall` delays events of the own
watch, so that Puts come late. A panic of `Duration` arithmetic ends the process.

An RPC that fails had no effect here, and the host has its registrations to itself: lost
replies and other hosts are `SubnetLease`'s. A Put that the inclusive start revision of the
own watch repeats is left out.

### NetworkConfig

An address is a number below 2^`Width`, sums wrap as in a release build (a debug build
panics there), and a network keeps the host bits it was written with, as `Ipv4Network`
does. `Accepted` is `check_network_config`, `Config` its defaults, `Choosable` the set of
subnets `allocate_subnet` may return. `MCNetworkConfig` compares the walk with a
definition of what lies between the bounds (`WalkFindsFree`) and says when no subnet
outside the network is leased (`WithinNetwork`), and that this needs its conditions
(`BeyondNetwork`). `SubnetsStayWithin` proves the first for every width.

### Backends

`LeaseEvents` is the interface between the two halves: events in registry order,
beginning with a snapshot of Puts, with Deletes the watcher did not know. What
`LeaseWatch` establishes (`ViewCatchesUp`) is what `LeaseEvents` assumes. Each backend adds
its tables and one action per kernel request, with a stop (kill, or a failed request
whose `?` ends the loop) before each. Kernel tables survive the stop; the UDP vector and
the host-gw list do not. The semantics of the kernel's tables are external.

`UdpNetwork` also has the hosts that choose subnets: `Choose` is a host that has read the
configuration and the registrations, `Create` its transaction, `CreateLate` one that comes after
a change of the configuration or rests on a snapshot that misses a lease, or a renewal
after the end of the lease. `stray` records
the subnets registered so.

`RouterNetwork` speaks of the kernel's entry for a subnet (one per destination and metric), not of
lookups: of packets that a longer route takes elsewhere it says nothing. It
records in `left` the routes no event will remove, of which there are three kinds: those
found at a start, those of subnets that a host with another backend took over
(`Ignore`), and those whose deletion the kernel refused (`DeleteRefused`): the loop prints that error
and goes on (`router_network.rs:62-64`).

`VxlanNetwork` has subnets of several sizes, as configurations of several times lease them. A packet takes
the longest route that has its address; the next hop is the first address of the routed subnet
(`vxlan_network.rs:81`), and so one for a subnet and the first half of it; the neighbour and
forwarding entries are replaced by key. A Delete takes nothing out (`vxlan_network.rs:95-97`), so a route of a
subnet that is gone goes on to catch the packets of a shorter one registered since. `Reachable`
therefore speaks of the addresses that no longer route takes elsewhere (`Undiverted`), and of
subnets that were the last to set their hop's MAC in this life of the loop (`last`). Both are exceptions the code has; with subnets of one
size neither occurs.

`VxlanHost` is one netlink request or RPC a step: a device that suits is kept with its MAC, tables
and addresses (`KeepLink`; so is one that does not suit when making another fails in a way the
code lets pass), or deleted and made anew (`DeleteLink`, `AddLink`); then the lease, the deletion
of addresses, and the own address. Of the addresses on the device only those inside the
`Network` that `main` read first are deleted (`iface.rs:51`); others of earlier networks stay. The
host may hold a registration for each configuration it has lived under, each may end at any time,
and another host may take the subnet. `update_subnet` puts the device's MAC, but the lease that is
returned for one that was found is the one found, with the MAC it had (`subnet.rs:165`), and renewals
register what the lease says (`subnet.rs:288`) until the own watch replaces it. The
history variables `fresh` and `early` tell a lease corrected so from one that is not, and
whether a renewal came too early. A request of a daemon that is killed is taken to be answered or lost with
it: one that reaches etcd only after the next life has replaced the device is not covered.

## The runs

| Run | Instance | Shows |
|---|---|---|
| `lease_safe` | 2 daemons, 3 subnets in two overlapping configurations, 3 leases, failing RPCs; 205k states | `Exclusive`, `OwnershipSpec` |
| `lease_faults` | 2 daemons, 2 subnets, all faults; 1.2M states | `WatchInSync`, `DisplacedOnlyByFormerOwner` |
| `lease_served` | no faults but kills, fairness; 22k states | `OneSubnetPerNode`, `EventuallyServed` |
| `lease_stops` | 2 daemons contending for 1 subnet, early expiry, lost replies, fairness; 91k states | `LostLeaseStops` |
| `lease_retry` | no faults | violated: the retry loop does not retry |
| `watch_safe` | 2 subnets, 2 hosts, 5 revisions, failing RPCs, a loop that outlives its watch; 2.5M states | `ViewCatchesUp`, `WatcherTracksView`, `NeverBackwards` |
| `watch_live` | 4 revisions, failures of every task, a loop that ends with its channel, fairness; 748k states | `Converges`, `DeathPropagates` |
| `watch_known` | no faults | violated: Deletes of unlisted leases happen |
| `udp_routes` | 3 subnets of two sizes, 2 hosts, 3 configurations, one of them refused; 479k states | `RoutesExact`, `Disjoint`, the assumptions of `MCNetworkConfig` |
| `hostgw_routes` | 2 subnets, 2 hosts and a gateway that is none, 2 types; 82k states | `RoutesFollowLeases`, `VacatedIsUnrouted`, `ListedIsInstalled` |
| `vxlan` | the tables: a subnet and its two halves, 2 hosts with a MAC each and one with another backend; the device: 3 subnets, 2 configurations that share one of them, 2 MACs, 2 setups; 503k states | `Reachable`, `RoutedLast`, `DeviceAnnounced`, `AddressTrue` |
| `daemon` | TTL 12, margin 6, retry 1, latency 1, 2 subnets, 3 configurations, failing RPCs and watches, late events, kills; fairness; 242k states | `TimerTrue`, `KeptRegistered`, `FileTrue`, `RunsForGood` |

Bounds. Every conflict in the lease protocol is between two daemons and one key; the
second and third subnet give a daemon a choice, and an old registration outside the new
configuration. Three leases let both hosts hold one while a third is granted; two
undelivered events suffice for a Put and the Delete after it to be queued together.
Five revisions hold a registration before the snapshot, a change between snapshot and
watch, a takeover, and an end. `MaxQueue` and `MaxRoutes` suspend the environment or
the loop when they are reached; they hide only longer queues of the same events. In the
lease protocol `MaxEvents` may suspend a put, and never holds up a Delete. In `Daemon` the
margin of 6 has room for a renewal that fails once and not for one that fails again and
again, the TTL for a full timer and a lease found at any age; `MaxTold` ends a stall. A
width of 6 bits holds prefixes, host bits and both ends of the address space; in `vxlan` a
width of 5 has two sizes of subnets, a hop that two of them share and one they do not. There a MAC goes by
the name of its host: a host with a new MAC changes nothing that a takeover by another host does not. For the device `MaxTold`
holds what the own watch read and two changes after it; the three subnets are one that both configurations
lease and one each that only one does, so that an address of an earlier life lies inside the `Network` or
outside it. `VxlanNetwork` and `VxlanHost` have no variable in common, and no property speaks of both, so
`MCVxlanNetwork` lets one of them run in each behaviour; the replacement of the device
in one is `ReplaceDevice` in the other. The
theorems below have no bound on hosts, subnets, leases, queues or times.

`LeaseWatch` runs with deadlock checking off: its history is finite, so it may stop.
The other specifications have no state in which nothing can happen.

Fairness. The Tokio runtime polls every task that is ready and etcd answers, so a
daemon's own steps are fair; the supervisor restarts a daemon that has ended (every
host of a real deployment runs it so; it is the one assumption from outside the code).
etcd ends a lease nobody renews. `Acquire` is strongly fair, only because the finite
pool of lease ids and `MaxEvents` may suspend a put again and again; in the code it is
enabled until it is taken. The handling of events is strongly fair, since a renewal under
way suspends it: `select!` picks a ready branch at random, and after a renewal the timer is
not ready for seconds. Nothing is assumed of kills, failures, renewals or changes of
the configuration. `EventuallyServed` is conditional on kills ceasing. In `daemon` weak
fairness of `Step` is the runtime, etcd and the clock, and that of `Start` the supervisor;
`RunsForGood` is conditional on kills, failures, delays and changes of the configuration
ceasing (`Undisturbed`), and on a configuration that leases something. The runs of the backends
check safety only.

### Findings

* `acquire_lease` never retries: the `?` and the `return` in the body of its loop leave at
  the first attempt (`subnet.rs:136-142`). Losing a race ends the daemon. `EventuallyServed`
  shows that restarts make up for it.
* `LeaseWatcher::remove` notes "not found, may not happen" (`subnet.rs:468`). It happens, since the
  watch starts at the snapshot's revision and not after it. It does no harm: backends
  ignore such a Delete or have nothing to remove (`DeleteUnknown` in `LeaseEvents`).

What the models show besides, with nothing in the repository that says otherwise:

* Two running daemons can share a subnet if a lease expires early or a reply is lost (the
  assumption of `MutualExclusion`). A daemon whose registration was taken over adopts the
  other host's attributes and may then renew the subnet in that host's name, so that a host
  can end up with two registrations (`OneSubnetPerNode` fails when replies are lost). A
  daemon whose own watch died renews for ever; a UDP loop whose watch of the others died forwards
  for ever by the routes it had (`udp.rs:196`).
* A VXLAN host that found its lease and renews before its own watch has told it of the update, because
  the lease had little more than the margin left, registers the MAC it had in an earlier life again
  (`subnet.rs:165`, `288`): the others then reach for a device that is gone. If the own watch has
  ended nothing corrects it (`early` in `VxlanHost`).
* After a change of `SubnetLen`, VXLAN hosts keep the routes of the old size for as long as the device
  lives: one longer than a subnet registered since takes its packets, and a subnet and the first half of it
  share one neighbour entry, so that of a subnet and a half registered at a time one gets the other's packets
  (`Undiverted`, `last` in `VxlanNetwork`). Addresses of an earlier `Network` stay on the device.
* A daemon that finds its registration with less than the margin left renews it and then
  panics, since `try_acquire_lease` returns the old expiration (`subnet.rs:165`, `311`); its next
  start finds the renewed one. A Put of its own that it reads too late makes it panic in the
  same way (`subnet.rs:330`). `RunsForGood` shows that starting it again is enough.
* Two hosts get subnets that overlap when the configuration changes between the choice of
  one and its registration, when the query for the other's time to live fails
  (`registry.rs:106` drops that lease without a word), or when a renewal comes after the end
  of the lease: the transaction's condition is on one key (`stray` in `UdpNetwork`).
* A `Network` that is written with host bits gets a `SubnetMin` and `SubnetMax` that count from
  the address as written, and subnets outside the network are leased; so they are if the
  network ends with the address space (`BeyondNetwork`).
* host-gw routes of subnets that left while the daemon was down, went to a host with
  another backend, or whose deletion failed once, stay in the kernel (`left` in `RouterNetwork`).
* Read in the sources and not modelled: the UDP backend binds the configured `Port` and sends
  to 8285 (`udp.rs:247`), and changes a packet's TTL without its checksum (`udp.rs:254-259`); the
  VXLAN backend's `mtu()` is the external interface's, without the 50 bytes of the
  encapsulation (`vxlan_network.rs:45-47`), and its `Port` never reaches the device
  (`device.rs:47-53`); a link-local address of the external interface is preferred to a
  global one (`main.rs:188-211`).

## What is proved

Every theorem holds for any values of the constants that satisfy the named assumptions of
the modules, which TLC evaluates in each run.

| Module | Theorem | States | Assumes |
|---|---|---|---|
| `SubnetLease_proofs` | `TypeCorrect` | `TypeOK`, and which data each step has | |
| | `WatchSync` | `WatchInSync` | |
| | `MutualExclusion` | `Exclusive` | no early expiry, no lost replies |
| | `OneRegistration` | `OneSubnetPerNode` | no faults but kills, one configuration |
| | `Implementation` | `OwnershipSpec` | as for `MutualExclusion` |
| | `NoStrangerDisplaces` | `DisplacedOnlyByFormerOwner` | |
| `LeaseWatch_proofs` | `TypeCorrect` | `TypeOK` | finitely many subnets |
| | `BatchesAreInStep` | `WatcherTracksView` | the same |
| | `NothingIsLost` | `ViewCatchesUp` | the same |
| | `ViewMovesForward` | `NeverBackwards` | the same |
| `UdpNetwork_proofs` | `TypeCorrect` | `TypeOK` | finitely many subnets, `SubnetsAssumption` |
| | `PacketsAreRouted` | `ExactAt` of every address while the loop is up | the same |
| | `EdgesAreRouted` | `RoutesExact` | the same |
| | `SubnetsAreDisjoint` | `Disjoint` | the same |
| | `SubnetsStayWithin` | every address of a subnet chosen is in the network | a `Network` without host bits, a `SubnetMax` that is not the last subnet there is |
| `Daemon_proofs` | `TypeCorrect` | `TypeOK` | `TimingAssumption` |
| | `TimerArmed` | `TimerTrue` | `TimingAssumption` |
| | `LeaseKept` | `KeptRegistered` | `TimingAssumption` |
| | `FileWhole` | `FileTrue` | `FileAssumption` |
| `RouterNetwork_proofs` | `TypeCorrect` | `TypeOK` | finitely many subnets |
| | `SubnetsAreRouted` | `RoutesFollowLeases` | the same |
| | `ListIsTrue` | `ListedIsInstalled` | the same |
| | `NothingIsLeft` | `VacatedIsUnrouted` | the same |
| `VxlanNetwork_proofs` | `TypeCorrect` | `TypeOK` | finitely many subnets |
| | `SubnetsAreReached` | `Reachable` | the same, that subnets are aligned to their size, and that no two hosts have one MAC |
| | `RouteComesLast` | `RoutedLast` | the same |
| | `DeviceIsAnnounced` | `DeviceAnnounced` | |
| | `AddressIsTrue` | `AddressTrue` | |

`TimingAssumption` is what the defaults of the code provide by far: the retry fits into the margin and
so do three latencies, and the margin with five latencies fits into the TTL.
`SubnetsAssumption` says that `Subnet` has all a host may choose from the configurations there are.

*The lease protocol.* No property checked is inductive by itself. The argument goes through five
invariants, each proved with the help of those before it. `PhaseOK` says what a daemon
at each step holds. `LeasesOK`: an etcd lease is attached to one key at most, and a live
key's lease is alive. `StreamOK`: the last event queued at a live watch is what the key
says now, and if none is queued `held` is (`LastWord`); this is what survives renewals,
takeovers and drops. `OwnerOK`: each host counting on a subnet is the one its key
names (`Owns`). It needs that the registration a host reads as its own in a snapshot
is kept until it is put again, which is where the assumption of no early expiry enters.
`MutualExclusion` is then that one key names one host. `KeysOK` says what a starting daemon
knows (`Knows`): the keys that name it are among those it has looked at or will, as it read
them, so that when it creates a registration no key names it; from this `OneRegistration`
follows, with the assumption that nothing fails. For `Implementation` each action
is mapped: `UpdateSubnet` and `CreateSubnet` to `Acquire`, the end of a running daemon to
`Stop`, the end of a lease to `Reclaim`, the rest to stuttering. `NoStrangerDisplaces` needs none of
this but `PhaseOK`, and no assumption: `VouchedOK` says that whatever a daemon has of a registration,
in its snapshot, in its queue of events or as the lease it puts again, is of a host that was
registered there before (`Past`), since it was read from the key. The one put that rests on none of
them is that of `create_subnet`, whose condition is that there is no key.

*The distribution of leases.* What the backend will know is followed back to etcd in two steps.
`ViewTracked`: the last batch that speaks of a subnet, or `view` if there is none, says what the
watcher lists (`WillKnow`), for as long as the backend's loop runs, whether or not the relay still does. `LogTracked`: the last message on the wire that speaks of it, or the list
if there is none, says what the registry says (`WillList`), provided the change was read by the
snapshot or by the watch (`InSnapshot`, `InStream`). Neither is inductive without `SnapshotOK`, that
what the range read found stays true of subnets that have not changed since; `Phases`, that a
snapshot is the first message and meets an empty watcher; and `EndedOK`, that a put whose lease has
ended is not the last word on its subnet, so that dropping it leaves a later change to come.
`NeverBackwards` has an invariant of its own, `Ordered`. What the backend was told last, the batches
and the messages are the places of a `Line`, and the reader is at its end: along it the revisions told
of a subnet never fall (`Upto`), and behind a place that ends a registration they are greater than any
up to it (`Before`), so that nothing the backend was told has ended comes back. They need not rise
elsewhere because the watch repeats the change at the snapshot's revision. The order needs neither
`ViewTracked` nor `LogTracked`, and it survives the relay because a batch tells no more of a subnet
than its message does (`Passes`), so that each place follows one that told as much (`LineThins`).

*The UDP routes.* `RoutesInv` relates the vector to what the loop was last told: once no event for a
subnet is queued every route to it, the duplicates too, names the host that has registered it, and
there is none if nobody has (`Routed`). So the first match is right whichever it is. `ChosenOK`: a
subnet that was chosen overlaps nothing that is registered and not `stray`, as long as the
configuration stays; two subnets of one configuration have one size and are aligned to it, so that
they overlap only if they are the same. `SubnetsStayWithin` is about the walk alone: the bounds of an
accepted configuration, defaults included, are multiples of the subnets' size within the network
(`BoundsWithin`), and as there is a subnet after `SubnetMax` in the address space no step of the
walk up to it wraps.

*The daemon.* `WatchOK` strengthens `TimerTrue`: the last event under way, if there is one,
speaks of the key as it is, give or take the time its own answer has been under way (`LastWord`, with
`Says`), and none speaks of a lease with more left than the key has by more than that and one latency (`NoneLater`). So
whatever is queued, the timer is right within one latency once the queue is empty. Of the time a
query takes only the part after etcd's answer counts: before that the answer is still
true when it is given.
`Enough` strengthens `KeptRegistered`: at each step of a running daemon the registration has
the time left that the step may still take, the timer and the margin, less what failed
renewals have spent (`Spent`) and two latencies, that of the request before the timer was set and that of the
answer it was set by; the product of failures and their cost is the one nonlinear term, and has a
lemma of its own. `FileOK` says which file there is from the renaming on.

*The backends.* `LeaseEvents_proofs` shows once what a backend may rely on (`EventsInv`): the
last event queued for a subnet says what its registration is. Hence an event that is
handled and was the last one spoke of the registration as it is now, and it is enough
that its handler does what the event says. For host-gw `StepOK` says that a replacement
under way is that of the head of the queue, and `Listed` what the list is in mid-change.
`NothingIsLeft` needs more, since a Delete only removes the very route its lease names:
`UndoneInv` says that each queued Delete takes back the Put before it in the queue, or finds
that route in the kernel. A refused deletion enters `left`. For VXLAN
`StepOK` says which tables are done, and `Follows` that a subnet whose last event is handled has its route and
the host behind its lease's MAC, and that MAC for its hop if it was the last to set it (`Installed`); the
forwarding entry of a MAC that another subnet's Put overwrites stays right because a MAC belongs to one host.
A packet to an undiverted address takes that hop whichever route is the longest: one that is longer leads to
the same hop by the definition, one as long as the subnet is to the same hop since both are aligned (`SameHop`).
`HostInv` says that the daemon's lease, if it is `fresh`, its registration and the events of its own watch name
the device it has, until it has renewed too early; nobody else writes a MAC of this host.

*Loops and powers of two.* What a loop over a vector computes is proved by induction on how far it
has come: `InductionFacts` has the least counterexample and the existence of functions defined by
recursion, stated for sets and functions and not for operators. The loops a theorem is about
(`ResetBatch`, `DropRoutes`, `Pow2`) are recursive functions for that reason.

Only model-checked: liveness (`EventuallyServed`, `LostLeaseStops`, `Converges`,
`DeathPropagates`, `RunsForGood`), which is beyond the prover, with what is enabled when; and that
`allocate_subnet` finds all that is free (`WalkFindsFree`), which counts what the walk has passed. Every
invariant and action property of the passing runs is proved.

## Not modelled, and the plan

Not modelled, and why:

* Parsing and formatting of JSON, keys and options, and the wording of the subnet file:
  no state depends on it but by failing, which the models have.
* The external interface's lookup (`lookup_ext_iface`, `get_default_gateway_interface`): a query
  of the kernel whose answer is input (`Setup` in `VxlanHost`, the host itself elsewhere).
* The tun device, its `AsyncRead` and `AsyncWrite`, the UDP socket, a packet's bytes and the C
  proxy's codec, which the loop does not use: descriptors and byte layouts.
* The MAC of a new device: random. `MacAssumption` takes those of two hosts to differ.
* A change of the VNI, which makes a device under another name and leaves the old one;
  `DirectRouting`, which is read and not used; IPv6, a `todo!()` in the code.
* A backend's loop that ends while the daemon goes on renewing (`main.rs:150`): `LeaseWatch` and
  the backends have the end of the loop, `Daemon` has no loop, for nothing of `main` depends
  on it.

Done: the lease protocol, its abstraction and proofs; the distribution of leases with proofs; the
three backends with proofs; the daemon with its clock and proofs; the configuration.
What could follow:

1. `LeaseEvents`, which states what `LeaseWatch` promises a backend, as an abstraction that `LeaseWatch`
   implements step by step. A registration there is one whose Put the watch will not drop, which is
   decided only when the watch comes to it, so the mapping needs a variable that foretells it.
2. A run of `Daemon` with an adversary in its own key: takeovers as in `SubnetLease`, with time.
3. Packets between hosts: TTL, and loops of routes while a subnet is taken over.
