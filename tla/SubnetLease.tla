----------------------------- MODULE SubnetLease -----------------------------
(***************************************************************************)
(* How the hosts of a flannel-ng network acquire, keep and lose a subnet.  *)
(*                                                                         *)
(* Each host runs one daemon (src/main.rs). It reads the network's         *)
(* configuration, acquires a subnet (SubnetManager::acquire_lease) and     *)
(* keeps it registered (SubnetManager::renew_lease_if_needed) while a task *)
(* of its own watches the registration (watch_lease). The hosts meet only  *)
(* in etcd: a key per registered subnet whose value names the host and     *)
(* which is attached to an etcd lease, deleted with it.                    *)
(*                                                                         *)
(* A step is one RPC as etcd executes it, together with what the daemon    *)
(* does until its next RPC. Granting a lease and the put that attaches it  *)
(* are one step: nothing can be seen of a lease with no key.               *)
(*                                                                         *)
(* Time is left out: the renewal timer may fire whenever the daemon waits. *)
(***************************************************************************)
EXTENDS Integers, Sequences

CONSTANTS
  Node,         \* the hosts, each known by its public IP
  Subnet,       \* subnets, numbered in the order of their etcd keys
  LeaseId,      \* etcd lease ids; an id nothing mentions is granted again
  Configs,      \* what the configuration may be: sets of leasable subnets
  Overlapping,  \* the pairs of subnets that share addresses
  Faults,       \* what may go wrong, see below
  MaxEvents,    \* bound: no put on a key whose watch has as many undelivered events
  NoEntry,      \* the value of a key that does not exist
  NoLease

(***************************************************************************)
(* "rpc":    an RPC fails and has no effect, or a watch stream breaks      *)
(* "reply":  a put takes effect but its reply is lost                      *)
(* "expiry": an etcd lease may expire before its holder renews it          *)
(***************************************************************************)
AllFaults == {"rpc", "reply", "expiry"}

Entry == [ip : Node, lease : LeaseId]
Event == Entry \cup {NoEntry}  \* a Put, or a Delete

ASSUME SubnetAssumption == Subnet \subseteq Nat
ASSUME ConfigsAssumption == Configs # {} /\ \A C \in Configs : C \subseteq Subnet
ASSUME FaultsAssumption == Faults \subseteq AllFaults
ASSUME NoEntryAssumption == NoEntry \notin Entry \cup Node \cup Subnet
ASSUME MaxEventsAssumption == MaxEvents \in Nat

VARIABLES
  config,  \* etcd: the network configuration
  kv,      \* etcd: the registration of each subnet
  alive,   \* etcd: the leases that have not expired
  pc,      \* the step each daemon is at
  cfg,     \* the configuration acquire_lease works with
  snap,    \* get_subnets: the keys as the range request returned them
  todo,    \* get_subnets: the keys whose lease is still to be queried
  seen,    \* get_subnets: the keys that made it into the result
  held,    \* the lease acquired or aimed at: a subnet and the IP in its attrs
  lid,     \* the lease to revoke after a failed put
  watch,   \* the daemon's watch_lease task
  chan     \* the events of that task the daemon has not handled yet

etcd == <<config, kv, alive>>
snapshot == <<cfg, snap, todo, seen>>
task == <<watch, chan>>
vars == <<config, kv, alive, pc, cfg, snap, todo, seen, held, lid, watch, chan>>

Starting == {"config", "range", "ttl", "update", "create", "revoke"}
Running == {"run", "renewrevoke"}

NoSnapshot == [s \in Subnet |-> NoEntry]
NoHold == [subnet |-> NoEntry, ip |-> NoEntry]

(***************************************************************************)
(* etcd                                                                    *)
(***************************************************************************)

\* The daemons whose watch stream covers the key of s.
Watchers(s) == {n \in Node : watch[n] \in {"first", "stream"} /\ held[n].subnet = s}

\* The key of s takes the value e, and its watchers are sent the event. The bound
\* holds up puts only, so that a Delete can always follow.
Publish(s, e) ==
  /\ e # NoEntry => \A n \in Watchers(s) : Len(chan[n]) < MaxEvents
  /\ kv' = [kv EXCEPT ![s] = e]
  /\ chan' = [n \in Node |-> IF n \in Watchers(s) THEN Append(chan[n], e) ELSE chan[n]]

Mentioned(n) ==
  {snap[n][s].lease : s \in {t \in Subnet : snap[n][t] # NoEntry}}
    \cup {chan[n][i].lease : i \in {j \in 1..Len(chan[n]) : chan[n][j] # NoEntry}}
    \cup {lid[n]}

Fresh == LeaseId \ (alive \cup UNION {Mentioned(n) : n \in Node})

\* Grant a lease and put the key of s with it.
GrantAndPut(s, ip, l) ==
  /\ l \in Fresh
  /\ alive' = alive \cup {l}
  /\ Publish(s, [ip |-> ip, lease |-> l])

AttachedTo(s, l) == kv[s] # NoEntry /\ kv[s].lease = l

\* A lease goes away, by expiry or revocation, with the key attached to it.
EndLease(l) ==
  /\ alive' = alive \ {l}
  /\ \/ \E s \in Subnet : AttachedTo(s, l) /\ Publish(s, NoEntry)
     \/ (\A s \in Subnet : ~AttachedTo(s, l)) /\ UNCHANGED <<kv, chan>>

\* The host counts on its registration of s: it is about to renew it, or does
\* so whenever its timer fires.
CountsOn(n, s) ==
  \/ pc[n] \in {"ttl", "update"}
  \/ pc[n] \in Running /\ held[n].subnet = s

Expire(l) ==
  /\ l \in alive
  /\ \/ "expiry" \in Faults
     \/ \A s \in Subnet : AttachedTo(s, l) => ~CountsOn(kv[s].ip, s)
  /\ EndLease(l)
  /\ UNCHANGED <<config, pc, snapshot, held, lid, watch>>

Reconfigure(C) ==
  /\ C # config
  /\ config' = C
  /\ UNCHANGED <<kv, alive, pc, snapshot, held, lid, task>>

(***************************************************************************)
(* The daemon's life                                                       *)
(***************************************************************************)

At(n, here, there) == pc[n] = here /\ pc' = [pc EXCEPT ![n] = there]

ForgetSnapshot(n) ==
  /\ cfg' = [cfg EXCEPT ![n] = {}]
  /\ snap' = [snap EXCEPT ![n] = NoSnapshot]
  /\ todo' = [todo EXCEPT ![n] = {}]
  /\ seen' = [seen EXCEPT ![n] = {}]

\* What a process loses when it ends, but for its queue of events.
Forget(n) ==
  /\ pc' = [pc EXCEPT ![n] = "down"]
  /\ ForgetSnapshot(n)
  /\ held' = [held EXCEPT ![n] = NoHold]
  /\ lid' = [lid EXCEPT ![n] = NoLease]
  /\ watch' = [watch EXCEPT ![n] = "none"]

\* The process ends: main returns, panics or is killed.
Exit(n) ==
  /\ Forget(n)
  /\ chan' = [chan EXCEPT ![n] = <<>>]
  /\ UNCHANGED etcd

Start(n) ==
  /\ At(n, "down", "config")
  /\ UNCHANGED <<etcd, snapshot, held, lid, task>>

Crash(n) == pc[n] # "down" /\ Exit(n)

(***************************************************************************)
(* acquire_lease: one attempt, whatever RACE_RETRIES says, since its loop  *)
(* returns on success and the ? operator returns on failure.               *)
(***************************************************************************)

ReadConfig(n) ==
  /\ At(n, "config", "range")
  /\ cfg' = [cfg EXCEPT ![n] = config]
  /\ UNCHANGED <<etcd, snap, todo, seen, held, lid, task>>

\* An RPC the daemon cannot go on without fails.
RpcFails(n) ==
  /\ "rpc" \in Faults
  /\ pc[n] \in {"config", "range", "update", "create"}
  /\ Exit(n)

RangeRead(n) ==
  /\ At(n, "range", "ttl")
  /\ snap' = [snap EXCEPT ![n] = kv]
  /\ todo' = [todo EXCEPT ![n] = {s \in Subnet : kv[s] # NoEntry}]
  /\ UNCHANGED <<etcd, cfg, seen, held, lid, task>>

\* s is the first of the keys of S, in the order of a range response.
IsFirst(s, S) == s \in S /\ \A t \in S : s <= t

QueryTtl(n) ==
  /\ pc[n] = "ttl"
  /\ \E s \in Subnet :
       /\ IsFirst(s, todo[n])
       /\ snap[n][s].lease \in alive
       /\ todo' = [todo EXCEPT ![n] = @ \ {s}]
       /\ seen' = [seen EXCEPT ![n] = @ \cup {s}]
  /\ UNCHANGED <<etcd, pc, cfg, snap, held, lid, task>>

\* A failed query drops the key from the result, silently.
TtlQueryFails(n) ==
  /\ "rpc" \in Faults
  /\ pc[n] = "ttl"
  /\ \E s \in Subnet : IsFirst(s, todo[n]) /\ todo' = [todo EXCEPT ![n] = @ \ {s}]
  /\ UNCHANGED <<etcd, pc, cfg, snap, seen, held, lid, task>>

\* etcd answers -1 for a lease that is gone, which kv_to_ip_lease takes for
\* 2^64 - 1 seconds: adding them to the time of day panics.
QueryTtlPanics(n) ==
  /\ pc[n] = "ttl"
  /\ \E s \in Subnet : IsFirst(s, todo[n]) /\ snap[n][s].lease \notin alive
  /\ Exit(n)

\* Mutant of IsOwn: the address is not compared.
MutIsOwnAnyone(n, s) == IsFirst(s, seen[n])

\* The host's own registration: only the first that names it is looked at.
IsOwn(n, s) == IsFirst(s, {t \in seen[n] : snap[n][t].ip = n})

Free(n) == {s \in cfg[n] : \A t \in seen[n] : <<s, t>> \notin Overlapping}

\* Mutant of Reusable: the own registration is in its own way.
MutReusableIfFree(n) == \E s \in Free(n) : IsOwn(n, s)

Reusable(n) == \E s \in cfg[n] : IsOwn(n, s)

AimAt(n, s) ==
  /\ held' = [held EXCEPT ![n] = [subnet |-> s, ip |-> n]]
  /\ ForgetSnapshot(n)
  /\ UNCHANGED <<etcd, lid, task>>

Reuse(n) ==
  /\ At(n, "ttl", "update") /\ todo[n] = {}
  /\ \E s \in cfg[n] : IsOwn(n, s) /\ AimAt(n, s)

Allocate(n) ==
  /\ At(n, "ttl", "create") /\ todo[n] = {}
  /\ ~Reusable(n)
  /\ \E s \in Free(n) : AimAt(n, s)

\* Mutant of NoSubnetAvailable: that there is none goes unnoticed.
MutAllocateNone(n) ==
  /\ At(n, "ttl", "create") /\ todo[n] = {}
  /\ ~Reusable(n) /\ Free(n) = {}
  /\ AimAt(n, NoEntry)

NoSubnetAvailable(n) ==
  /\ pc[n] = "ttl" /\ todo[n] = {}
  /\ ~Reusable(n) /\ Free(n) = {}
  /\ Exit(n)

\* The network is registered: main starts to renew the lease, and to watch it.
BeginRunning(n) == watch' = [watch EXCEPT ![n] = "get"]

\* update_subnet puts the key whoever holds it by now.
UpdateSubnet(n) ==
  /\ At(n, "update", "run")
  /\ \E l \in LeaseId : GrantAndPut(held[n].subnet, n, l)
  /\ BeginRunning(n)
  /\ UNCHANGED <<config, snapshot, held, lid>>

\* Mutant of CreateSubnet: the put without the transaction's condition.
MutCreateAnyway(n) ==
  /\ At(n, "create", "run")
  /\ \E l \in LeaseId : GrantAndPut(held[n].subnet, n, l)
  /\ BeginRunning(n)
  /\ UNCHANGED <<config, snapshot, held, lid>>

\* create_subnet puts the key only if it does not exist.
CreateSubnet(n) ==
  /\ At(n, "create", "run")
  /\ kv[held[n].subnet] = NoEntry
  /\ \E l \in LeaseId : GrantAndPut(held[n].subnet, n, l)
  /\ BeginRunning(n)
  /\ UNCHANGED <<config, snapshot, held, lid>>

\* Mutant of CreateLost: a retry that does not read the registry again.
MutCreateAgain(n) ==
  /\ At(n, "create", "create")
  /\ kv[held[n].subnet] # NoEntry
  /\ UNCHANGED <<etcd, snapshot, held, lid, task>>

\* Another host was faster. The lease granted for the attempt is revoked.
CreateLost(n) ==
  /\ pc[n] = "create"
  /\ kv[held[n].subnet] # NoEntry
  /\ Exit(n)

(***************************************************************************)
(* renew_lease_if_needed                                                   *)
(***************************************************************************)

\* The timer fires. The attributes put are those of the lease as the daemon
\* last saw it. A renewal that fails without effect is tried again.
Renew(n) ==
  /\ pc[n] = "run"
  /\ \E l \in LeaseId : GrantAndPut(held[n].subnet, held[n].ip, l)
  /\ UNCHANGED <<config, pc, snapshot, held, lid, watch>>

\* The reply to a put that took effect is lost: update_subnet, create_subnet
\* and, while running, renew_lease go on to revoke the lease they granted.
PutReplyLost(n) ==
  /\ "reply" \in Faults
  /\ \/ At(n, "update", "revoke")
     \/ At(n, "create", "revoke") /\ kv[held[n].subnet] = NoEntry
     \/ At(n, "run", "renewrevoke")
  /\ \E l \in LeaseId :
       /\ GrantAndPut(held[n].subnet, held[n].ip, l)
       /\ lid' = [lid EXCEPT ![n] = l]
  /\ UNCHANGED <<config, snapshot, held, watch>>

\* The revocation may fail in its turn, and nobody looks.
Revoked(l) == EndLease(l) \/ ("rpc" \in Faults /\ UNCHANGED <<kv, alive, chan>>)

RevokeAndExit(n) ==
  /\ pc[n] = "revoke"
  /\ Revoked(lid[n])
  /\ Forget(n)
  /\ UNCHANGED config

RevokeAndRetry(n) ==
  /\ At(n, "renewrevoke", "run")
  /\ Revoked(lid[n])
  /\ lid' = [lid EXCEPT ![n] = NoLease]
  /\ UNCHANGED <<config, snapshot, held, watch>>

\* Mutant of WatchGet: what the read returned is not sent as the first event.
MutWatchUnread(n) ==
  /\ watch[n] = "get"
  /\ watch' = [watch EXCEPT ![n] = IF kv[held[n].subnet] = NoEntry THEN "off" ELSE "stream"]
  /\ UNCHANGED <<etcd, pc, snapshot, held, lid, chan>>

\* watch_lease reads the key and watches it from the revision of that read.
\* The first event is the lease as read. (If that was etcd's latest revision it
\* comes a second time, from the stream, and changes nothing: it is left out.)
WatchGet(n) ==
  /\ watch[n] = "get"
  /\ IF kv[held[n].subnet] = NoEntry
       THEN watch' = [watch EXCEPT ![n] = "off"] /\ UNCHANGED chan
       ELSE /\ watch' = [watch EXCEPT ![n] = "first"]
            /\ chan' = [chan EXCEPT ![n] = <<kv[held[n].subnet]>>]
  /\ UNCHANGED <<etcd, pc, snapshot, held, lid>>

\* The task ends. What it sent before is still received; the daemon runs on.
WatchFails(n) ==
  /\ "rpc" \in Faults
  /\ watch[n] \in {"get", "first", "stream"}
  /\ watch' = [watch EXCEPT ![n] = "off"]
  /\ \E k \in 0..Len(chan[n]) : chan' = [chan EXCEPT ![n] = SubSeq(@, 1, k)]
  /\ UNCHANGED <<etcd, pc, snapshot, held, lid>>

\* The lease read first was gone when its time to live was asked: the panic of
\* QueryTtlPanics, which here ends only the task.
WatchPanics(n) ==
  /\ watch[n] = "first"
  /\ Head(chan[n]).lease \notin alive
  /\ watch' = [watch EXCEPT ![n] = "off"]
  /\ chan' = [chan EXCEPT ![n] = <<>>]
  /\ UNCHANGED <<etcd, pc, snapshot, held, lid>>

EventFor(n) == pc[n] = "run" /\ chan[n] # <<>>

NextEvent(n) == chan' = [chan EXCEPT ![n] = Tail(@)]

\* A Put replaces the lease, attributes included, whoever wrote it. (Its own
\* lease may have ended since the task asked for its time to live.)
Adopt(n) ==
  /\ EventFor(n) /\ Head(chan[n]) # NoEntry
  /\ held' = [held EXCEPT ![n].ip = Head(chan[n]).ip]
  /\ watch' = [watch EXCEPT ![n] = IF @ = "first" THEN "stream" ELSE @]
  /\ NextEvent(n)
  /\ UNCHANGED <<etcd, pc, snapshot, lid>>

\* A Put whose lease was gone when its time to live was asked is dropped.
DropExpiredPut(n) ==
  /\ EventFor(n) /\ Head(chan[n]) # NoEntry
  /\ watch[n] = "stream"
  /\ Head(chan[n]).lease \notin alive
  /\ NextEvent(n)
  /\ UNCHANGED <<etcd, pc, snapshot, held, lid, watch>>

\* Mutant of OwnLeaseDeleted: the daemon runs on.
MutDeleteIgnored(n) ==
  /\ EventFor(n) /\ Head(chan[n]) = NoEntry
  /\ NextEvent(n)
  /\ UNCHANGED <<etcd, pc, snapshot, held, lid, watch>>

\* A Delete ends the daemon.
OwnLeaseDeleted(n) ==
  /\ EventFor(n) /\ Head(chan[n]) = NoEntry
  /\ Exit(n)

(***************************************************************************)
(* Specification                                                           *)
(***************************************************************************)

Init ==
  /\ config \in Configs
  /\ kv = [s \in Subnet |-> NoEntry]
  /\ alive = {}
  /\ pc = [n \in Node |-> "down"]
  /\ cfg = [n \in Node |-> {}]
  /\ snap = [n \in Node |-> NoSnapshot]
  /\ todo = [n \in Node |-> {}]
  /\ seen = [n \in Node |-> {}]
  /\ held = [n \in Node |-> NoHold]
  /\ lid = [n \in Node |-> NoLease]
  /\ watch = [n \in Node |-> "none"]
  /\ chan = [n \in Node |-> <<>>]

Acquire(n) ==
  \/ ReadConfig(n) \/ RangeRead(n) \/ QueryTtl(n) \/ QueryTtlPanics(n)
  \/ Reuse(n) \/ Allocate(n) \/ NoSubnetAvailable(n)
  \/ UpdateSubnet(n) \/ CreateSubnet(n) \/ CreateLost(n) \/ RevokeAndExit(n)

WatchTask(n) == WatchGet(n) \/ WatchPanics(n)

HandleEvent(n) == Adopt(n) \/ DropExpiredPut(n) \/ OwnLeaseDeleted(n)

Fault(n) == RpcFails(n) \/ TtlQueryFails(n) \/ PutReplyLost(n) \/ WatchFails(n)

NodeStep(n) ==
  \/ Start(n) \/ Crash(n) \/ Acquire(n)
  \/ Renew(n) \/ RevokeAndRetry(n)
  \/ WatchTask(n) \/ HandleEvent(n) \/ Fault(n)

Next ==
  \/ \E n \in Node : NodeStep(n)
  \/ \E l \in LeaseId : Expire(l)
  \/ \E C \in Configs : Reconfigure(C)

Spec == Init /\ [][Next]_vars

(***************************************************************************)
(* Properties                                                              *)
(***************************************************************************)

Watching(n) == watch[n] \in {"first", "stream"}

\* The types of the variables, and which of them a daemon uses at which step.
TypeOK ==
  /\ config \in Configs
  /\ kv \in [Subnet -> Event]
  /\ alive \subseteq LeaseId
  /\ pc \in [Node -> {"down"} \cup Starting \cup Running]
  /\ cfg \in [Node -> SUBSET Subnet]
  /\ snap \in [Node -> [Subnet -> Event]]
  /\ todo \in [Node -> SUBSET Subnet]
  /\ seen \in [Node -> SUBSET Subnet]
  /\ held \in [Node -> [subnet : Subnet, ip : Node] \cup {NoHold}]
  /\ lid \in [Node -> LeaseId \cup {NoLease}]
  /\ watch \in [Node -> {"none", "get", "first", "stream", "off"}]
  /\ chan \in [Node -> Seq(Event)]

\* Two running daemons never hold the same subnet. It rests on the condition of
\* create_subnet's transaction, and on update_subnet being used only on a key
\* that names this host; it needs leases that outlive the daemon counting on
\* them and puts whose reply arrives.
Exclusive ==
  \A m, n \in Node :
    m # n /\ pc[m] \in Running /\ pc[n] \in Running => held[m].subnet # held[n].subnet

\* With one configuration and no fault a host never leaves two registrations
\* behind, however it is killed and restarted: it finds its own in the snapshot.
OneSubnetPerNode ==
  \A s, t \in Subnet :
    kv[s] # NoEntry /\ kv[t] # NoEntry /\ kv[s].ip = kv[t].ip => s = t

\* A daemon whose watch is up and that has handled every event knows what etcd
\* says of its subnet: the key exists, with the attributes of its lease. Renewals,
\* expiry, takeovers and dropped events in between do not lose the last word.
WatchInSync ==
  \A n \in Node :
    Watching(n) /\ chan[n] = <<>> =>
      /\ kv[held[n].subnet] # NoEntry
      /\ kv[held[n].subnet].ip = held[n].ip

\* The protocol implements SubnetOwnership: a subnet changes hands only through
\* a moment in which it is neither registered nor used.
Ownership == INSTANCE SubnetOwnership WITH
  Nobody <- NoEntry,
  Idle <- NoEntry,
  owner <- [s \in Subnet |-> IF kv[s] = NoEntry THEN NoEntry ELSE kv[s].ip],
  using <- [n \in Node |-> IF pc[n] \in Running THEN held[n].subnet ELSE NoEntry]

OwnershipSpec == Ownership!Spec

(***************************************************************************)
(* Liveness                                                                *)
(***************************************************************************)

\* The runtime polls every task of a daemon that is ready, etcd answers, leases
\* nobody renews run out, and the supervisor (an init system: outside this code)
\* restarts a daemon that ended. No fairness is assumed of kills, renewals,
\* failing RPCs and changes of the configuration. Acquire is always possible for a
\* daemon that is starting; its fairness is strong only because the bounds of the
\* model, a finite pool of lease ids and MaxEvents, may suspend a put. A queued event
\* waits while a renewal is under way; select! picks it in the end, at the latest when
\* it is ready and the timer is not.
Fairness ==
  /\ \A n \in Node :
       /\ WF_vars(Start(n)) /\ SF_vars(Acquire(n))
       /\ WF_vars(WatchTask(n)) /\ SF_vars(HandleEvent(n))
       /\ WF_vars(RevokeAndRetry(n))
  /\ \A l \in LeaseId : WF_vars(Expire(l))

FairSpec == Spec /\ Fairness

NoMoreCrashes == <>[][\A n \in Node : ~Crash(n)]_vars

\* Once daemons are no longer killed every host ends up running for good: a lost
\* race, or a panic on an expired lease, is overcome by restarts.
EventuallyServed == NoMoreCrashes => \A n \in Node : <>[](pc[n] = "run")

\* A daemon whose registration disappears under it stops, as long as its watch
\* lives: no renewal racing with the Delete keeps it running on a lost subnet.
LostLeaseStops ==
  \A n \in Node :
    (pc[n] = "run" /\ watch[n] = "stream" /\ kv[held[n].subnet] = NoEntry)
      ~> (pc[n] = "down" \/ watch[n] = "off")

\* subnet.rs says of acquire_lease that it makes RACE_RETRIES attempts and then
\* reports "Max retries reached": a lost race is not the end of the daemon.
LostRaceRetries == [][\A n \in Node : CreateLost(n) => pc'[n] # "down"]_vars
==============================================================================
