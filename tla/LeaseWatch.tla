----------------------------- MODULE LeaseWatch ------------------------------
(***************************************************************************)
(* How one daemon learns of the other hosts' subnets.                      *)
(*                                                                         *)
(* Three tasks in a row (SubnetManager::watch_leases): the fetch task      *)
(* (watch_leases_inner) reads a snapshot of the registry and then follows  *)
(* etcd's watch from its revision; the relay keeps the LeaseWatcher and    *)
(* turns what it receives into batches; the backend's run loop applies the *)
(* batches. Channels of capacity 100 connect them.                         *)
(*                                                                         *)
(* The registry is the log of changes etcd keeps of the subnet keys: the   *)
(* revision of a change is its index, and a put's lease is named by the    *)
(* put's revision. The other hosts, and this one's renewals, are the       *)
(* environment.                                                            *)
(***************************************************************************)
EXTENDS LeaseWatcher, FiniteSets

CONSTANTS
  Subnet,    \* subnets, numbered in the order of their etcd keys
  Own,       \* the subnet of this daemon's lease
  Host,      \* the hosts that may be registered
  Faults,    \* "rpc": an RPC or the watch stream fails; "backend": the backend ends
  EndsWithChannel,  \* whether the backend's loop does: host-gw's and vxlan's, not udp's
  Capacity,  \* of either channel
  MaxRev,    \* bound: changes of the registry
  NoLease    \* what a backend knows of a subnet nobody told it about

ASSUME SubnetAssumption == Subnet \subseteq Nat /\ IsFiniteSet(Subnet) /\ Own \in Subnet
ASSUME FaultsAssumption == Faults \subseteq {"rpc", "backend"}
ASSUME EndsWithChannelAssumption == EndsWithChannel \in BOOLEAN
ASSUME BoundsAssumption == Capacity \in Nat \ {0} /\ MaxRev \in Nat \ {0}

Rev == 1..MaxRev
Lease == [subnet : Subnet, ip : Host, rev : Rev]

ASSUME NoLeaseAssumption == NoLease \notin Lease

VARIABLES
  log,      \* etcd: the changes of the subnet keys
  ended,    \* etcd: the puts whose lease has ended
  fetch,    \* the step of watch_leases_inner
  todo,     \* get_subnets: the leases whose time to live is still to be queried
  got,      \* get_subnets: the result
  cursor,   \* the revision to watch from; 0 means from now on
  pos,      \* the next revision the watch stream delivers
  wire,     \* the channel of watch results
  relay,    \* whether watch_leases is still running
  leases,   \* LeaseWatcher.leases
  queue,    \* the channel of batches
  backend,  \* whether the backend's run loop is still running
  view,     \* what the backend has been told of each subnet
  newest,   \* history: the revision of the lease it was told of last, 0 if of none
  readAt,   \* history: the revision of the snapshot
  since,    \* history: the first revision the watch stream delivered
  skipped   \* history: the subnets whose time to live could not be queried

registry == <<log, ended>>
downstream == <<relay, leases, queue, backend, view, newest>>
fetching == <<fetch, todo, got, cursor, pos, readAt, since, skipped>>
vars == <<log, ended, fetch, todo, got, cursor, pos, wire, relay, leases, queue,
          backend, view, newest, readAt, since, skipped>>

(***************************************************************************)
(* The registry                                                            *)
(***************************************************************************)

Put(s, h) == [type |-> "put", subnet |-> s, ip |-> h]
Delete(s) == [type |-> "delete", subnet |-> s]

Changes(s) == {r \in DOMAIN log : log[r].subnet = s}
Latest(S) == CHOOSE r \in S : \A t \in S : t <= r

Registered(s) == Changes(s) # {} /\ log[Latest(Changes(s))].type = "put"

LeaseOf(r) == [subnet |-> log[r].subnet, ip |-> log[r].ip, rev |-> r]

\* What the registry says of s.
Entry(s) == IF Registered(s) THEN LeaseOf(Latest(Changes(s))) ELSE NoLease

\* A host registers a subnet or renews its registration.
Register(s, h) ==
  /\ Len(log) < MaxRev
  /\ log' = Append(log, Put(s, h))
  /\ UNCHANGED <<ended, fetching, wire, downstream>>

\* The lease of a put expires or is revoked. The key goes with it, unless it was
\* put again with another lease.
EndLease(r) ==
  /\ log[r].type = "put" /\ r \notin ended
  /\ ended' = ended \cup {r}
  /\ IF r = Latest(Changes(log[r].subnet))
       THEN Len(log) < MaxRev /\ log' = Append(log, Delete(log[r].subnet))
       ELSE UNCHANGED log
  /\ UNCHANGED <<fetching, wire, downstream>>

(***************************************************************************)
(* watch_leases_inner: leases_watch_reset, then watch_subnets              *)
(***************************************************************************)

\* A range read, in the order of the keys. With no key at all get_subnets says
\* revision 0.
RangeRead ==
  LET keys == {s \in Subnet : Registered(s)} IN
  /\ fetch = "range"
  /\ \E order \in [1..Cardinality(keys) -> keys] :
       /\ \A i, j \in DOMAIN order : i < j => order[i] < order[j]
       /\ todo' = [i \in DOMAIN order |-> Entry(order[i])]
  /\ cursor' = IF keys = {} THEN 0 ELSE Len(log)
  /\ fetch' = "ttl"
  /\ readAt' = Len(log)
  /\ UNCHANGED <<registry, got, pos, since, skipped, wire, downstream>>

QueryTtl ==
  /\ fetch = "ttl" /\ todo # <<>>
  /\ Head(todo).rev \notin ended
  /\ got' = Append(got, Head(todo))
  /\ todo' = Tail(todo)
  /\ UNCHANGED <<registry, fetch, cursor, pos, readAt, since, skipped, wire, downstream>>

\* A failed query drops the lease from the snapshot, silently.
TtlQueryFails ==
  /\ "rpc" \in Faults
  /\ fetch = "ttl" /\ todo # <<>>
  /\ todo' = Tail(todo)
  /\ skipped' = skipped \cup {Head(todo).subnet}
  /\ UNCHANGED <<registry, fetch, got, cursor, pos, readAt, since, wire, downstream>>

EndFetch ==
  /\ fetch' = "ended"
  /\ UNCHANGED <<registry, todo, got, cursor, pos, readAt, since, skipped, wire, downstream>>

\* The lease is gone: a time to live of -1 makes kv_to_ip_lease panic.
QueryTtlPanics ==
  /\ fetch = "ttl" /\ todo # <<>>
  /\ Head(todo).rev \in ended
  /\ EndFetch

\* A request fails, or the stream breaks or is canceled. Nobody starts over.
FetchFails ==
  /\ "rpc" \in Faults
  /\ fetch \in {"range", "open", "stream"}
  /\ EndFetch

\* Mutant of Room: one place less than there is.
MutRoomToSpare(channel) == Len(channel) + 1 < Capacity

Room(channel) == Len(channel) < Capacity

SendSnapshot ==
  /\ fetch = "ttl" /\ todo = <<>>
  /\ relay /\ Room(wire)
  /\ wire' = Append(wire, [snapshot |-> got, events |-> <<>>])
  /\ fetch' = "open"
  /\ UNCHANGED <<registry, todo, got, cursor, pos, readAt, since, skipped, downstream>>

\* Mutant of OpenWatch: the watch has no start revision.
MutWatchFromNow ==
  /\ fetch = "open"
  /\ fetch' = "stream"
  /\ pos' = Len(log) + 1
  /\ since' = pos'
  /\ UNCHANGED <<registry, todo, got, cursor, readAt, skipped, wire, downstream>>

\* Mutant of OpenWatch: the watch starts where the history does.
MutWatchFromStart ==
  /\ fetch = "open"
  /\ fetch' = "stream"
  /\ pos' = 1
  /\ since' = pos'
  /\ UNCHANGED <<registry, todo, got, cursor, readAt, skipped, wire, downstream>>

\* The watch delivers the changes from the cursor on, the cursor's own included.
OpenWatch ==
  /\ fetch = "open"
  /\ fetch' = "stream"
  /\ pos' = IF cursor = 0 THEN Len(log) + 1 ELSE cursor
  /\ since' = pos'
  /\ UNCHANGED <<registry, todo, got, cursor, readAt, skipped, wire, downstream>>

\* parse_subnet_watch_resp: a Delete tells only the subnet.
Parsed(r) ==
  IF log[r].type = "put"
    THEN Event("put", LeaseOf(r))
    ELSE Event("delete", [subnet |-> log[r].subnet])

ParseEvent ==
  /\ fetch = "stream" /\ pos <= Len(log)
  /\ log[pos].type = "put" => pos \notin ended
  /\ relay /\ Room(wire)
  /\ wire' = Append(wire, [snapshot |-> <<>>, events |-> <<Parsed(pos)>>])
  /\ pos' = pos + 1
  /\ UNCHANGED <<registry, fetch, todo, got, cursor, readAt, since, skipped, downstream>>

\* A put whose lease has ended since is dropped.
DropExpiredPut ==
  /\ fetch = "stream" /\ pos <= Len(log)
  /\ log[pos].type = "put" /\ pos \in ended
  /\ pos' = pos + 1
  /\ UNCHANGED <<registry, fetch, todo, got, cursor, readAt, since, skipped, wire, downstream>>

\* The receiver of what the task has to send is gone.
FetchUnheard ==
  /\ ~relay
  /\ \/ fetch = "ttl" /\ todo = <<>>
     \/ fetch = "stream" /\ pos <= Len(log) /\ (log[pos].type = "put" => pos \notin ended)
  /\ EndFetch

(***************************************************************************)
(* watch_leases: the relay                                                 *)
(***************************************************************************)

Batch(wr) ==
  IF wr.events # <<>> THEN UpdateBatch(Own, leases, Head(wr.events))
  ELSE IF wr.snapshot # <<>> THEN ResetBatch(Own, leases, wr.snapshot)
  ELSE <<>>

Known(wr) ==
  IF wr.events # <<>> THEN Update(Own, leases, Head(wr.events))
  ELSE IF wr.snapshot # <<>> THEN Reset(wr.snapshot)
  ELSE leases

Relay ==
  /\ relay /\ wire # <<>>
  /\ leases' = Known(Head(wire))
  /\ wire' = Tail(wire)
  /\ LET batch == Batch(Head(wire)) IN
     IF batch = <<>> THEN UNCHANGED queue
     ELSE backend /\ Room(queue) /\ queue' = Append(queue, batch)
  /\ UNCHANGED <<registry, fetching, relay, backend, view, newest>>

\* Mutant of RelayEnds: the end of its sender goes unnoticed.
MutRelayStays ==
  /\ relay
  /\ ~backend /\ wire # <<>> /\ Batch(Head(wire)) # <<>>
  /\ relay' = FALSE
  /\ wire' = <<>>
  /\ UNCHANGED <<registry, fetching, leases, queue, backend, view, newest>>

\* The relay ends when both its sender and the results it sent are gone, or when
\* the backend no longer listens.
RelayEnds ==
  /\ relay
  /\ \/ fetch = "ended" /\ wire = <<>>
     \/ ~backend /\ wire # <<>> /\ Batch(Head(wire)) # <<>>
  /\ relay' = FALSE
  /\ wire' = <<>>
  /\ UNCHANGED <<registry, fetching, leases, queue, backend, view, newest>>

(***************************************************************************)
(* The backend's run loop. What each backend makes of an event is modelled *)
(* in UdpNetwork, RouterNetwork and VxlanNetwork.                          *)
(***************************************************************************)

Told(e) == IF e.type = "put" THEN e.lease ELSE NoLease

About(batch, s) == {i \in DOMAIN batch : batch[i].lease.subnet = s}

\* The events of a batch are applied in order: the last one about a subnet stands.
ApplyAll(v, batch) ==
  [s \in Subnet |->
     IF About(batch, s) = {} THEN v[s] ELSE Told(batch[Latest(About(batch, s))])]

HandleBatch ==
  /\ backend /\ queue # <<>>
  /\ view' = ApplyAll(view, Head(queue))
  /\ newest' = [s \in Subnet |-> IF view'[s] = NoLease THEN newest[s] ELSE view'[s].rev]
  /\ queue' = Tail(queue)
  /\ UNCHANGED <<registry, fetching, wire, relay, leases, backend>>

EndBackend ==
  /\ backend' = FALSE
  /\ queue' = <<>>
  /\ UNCHANGED <<registry, fetching, wire, relay, leases, view, newest>>

\* An error, of the kernel's say, ends the loop.
BackendFails == "backend" \in Faults /\ backend /\ EndBackend

\* Nothing more can come: `while let Some` ends, where a select! loop would only have
\* one arm less.
BackendStops == EndsWithChannel /\ backend /\ ~relay /\ queue = <<>> /\ EndBackend

(***************************************************************************)
(* Specification                                                           *)
(***************************************************************************)

\* The backend starts to watch after its own lease was registered.
Init ==
  /\ \E h \in Host : log = <<Put(Own, h)>>
  /\ ended = {}
  /\ fetch = "range"
  /\ todo = <<>> /\ got = <<>> /\ cursor = 0 /\ pos = 0
  /\ wire = <<>> /\ relay = TRUE /\ leases = <<>>
  /\ queue = <<>> /\ backend = TRUE
  /\ view = [s \in Subnet |-> NoLease] /\ newest = [s \in Subnet |-> 0]
  /\ readAt = 0 /\ since = 0 /\ skipped = {}

Fetch ==
  \/ RangeRead \/ QueryTtl \/ QueryTtlPanics \/ SendSnapshot \/ OpenWatch
  \/ ParseEvent \/ DropExpiredPut \/ FetchUnheard

Environment ==
  \/ \E s \in Subnet, h \in Host : Register(s, h)
  \/ \E r \in DOMAIN log : EndLease(r)

Next ==
  \/ Environment
  \/ Fetch \/ FetchFails \/ TtlQueryFails
  \/ Relay \/ RelayEnds
  \/ HandleBatch \/ BackendFails \/ BackendStops

Spec == Init /\ [][Next]_vars

\* The runtime polls every task that is ready, and etcd answers.
Fairness ==
  /\ WF_vars(Fetch) /\ WF_vars(Relay) /\ WF_vars(RelayEnds)
  /\ WF_vars(HandleBatch) /\ WF_vars(BackendStops)

FairSpec == Spec /\ Fairness

(***************************************************************************)
(* Properties                                                              *)
(***************************************************************************)

\* The types of the variables; the watcher never lists a subnet twice.
TypeOK ==
  /\ Len(log) <= MaxRev
  /\ \A r \in DOMAIN log : log[r] \in {Put(s, h) : s \in Subnet, h \in Host}
                                        \cup {Delete(s) : s \in Subnet}
  /\ ended \subseteq DOMAIN log
  /\ fetch \in {"range", "ttl", "open", "stream", "ended"}
  /\ cursor \in 0..MaxRev /\ pos \in 0..(MaxRev + 1)
  /\ Len(wire) <= Capacity /\ Len(queue) <= Capacity
  /\ relay \in BOOLEAN /\ backend \in BOOLEAN
  /\ \A i, j \in DOMAIN leases : leases[i].subnet = leases[j].subnet => i = j
  /\ view \in [Subnet -> Lease \cup {NoLease}] /\ newest \in [Subnet -> 0..MaxRev]

\* Nothing is under way between etcd and the backend.
Drained == fetch = "stream" /\ pos > Len(log) /\ wire = <<>> /\ queue = <<>>

\* The daemon can know of s: the last change of s is one the snapshot holds, or one
\* the watch delivers. Not so if the query of its time to live failed, or if the
\* change fell between an empty snapshot and the watch "from now on".
Covered(s) ==
  LET r == Latest(Changes(s)) IN
  \/ Changes(s) = {}
  \/ r <= readAt /\ s \notin skipped
  \/ r > readAt /\ (cursor = 0 => r >= since)

InSync == \A s \in Subnet \ {Own} : Covered(s) => view[s] = Entry(s)

\* Once nothing is under way the backend knows of every other subnet exactly what
\* the registry says, attributes included, whatever happened between the snapshot
\* and the watch and however often leases were renewed, moved or ended meanwhile.
ViewCatchesUp == Drained /\ backend => InSync

\* What the backend will know of s when it has applied the batches on their way.
Promised(s) ==
  LET about == {i \in DOMAIN queue : About(queue[i], s) # {}} IN
  IF about = {} THEN view[s] ELSE ApplyAll(view, queue[Latest(about)])[s]

\* What the watcher lists of s.
Listed(s) == LET i == Find(leases, s) IN IF i = 0 THEN NoLease ELSE leases[i]

\* A batch on its way is never out of step with the watcher that made it: when it
\* has been applied, the backend knows of just the leases the watcher lists. Its
\* later diffs rest on that, and so does what a backend goes on with when the relay
\* has ended.
WatcherTracksView ==
  backend => \A s \in Subnet \ {Own} : Promised(s) = Listed(s)

\* The backend never goes back to an older registration of a subnet, and one it was told
\* has ended never comes back, not even for a moment: neither by the change the watch
\* repeats nor by a lease that ended on the way.
NeverBackwards ==
  [][\A s \in Subnet : view'[s] # NoLease =>
       view'[s].rev >= newest[s] /\ (view[s] = NoLease => view'[s].rev > newest[s])]_vars

\* If the registry comes to rest the backend gets in step with it for good, unless
\* a task has ended: no lost wakeup and no channels waiting on each other.
Converges == <>[](fetch = "ended" \/ ~backend \/ (Drained /\ InSync))

\* When the fetch task dies the relay ends, and the backend applies what was under way.
\* Then the loops of host-gw and vxlan end as well, instead of sitting on a dead
\* channel for ever; udp's goes on with the routes it has.
DeathPropagates ==
  (fetch = "ended") ~> (~relay /\ (backend => ~EndsWithChannel /\ queue = <<>>))

\* LeaseWatcher::remove says of a Delete for a lease it does not list: "not found,
\* may not happen".
DeletesAreKnown ==
  [][Relay /\ Head(wire).events # <<>> =>
       LET e == Head(Head(wire).events) IN
       e.type = "delete" /\ e.lease.subnet # Own => e.lease.subnet \in Subnets(leases)]_vars
==============================================================================
