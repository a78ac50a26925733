-------------------------------- MODULE Daemon --------------------------------
(***************************************************************************)
(* The life of one daemon (src/main.rs) with its clock: it reads the       *)
(* configuration twice, finds or chooses its subnet, writes the subnet     *)
(* file, and then renews its registration, Margin before it ends, while    *)
(* its own watch tells it of every change of it.                           *)
(*                                                                         *)
(* SubnetLease has the other hosts and all ways an RPC can fail; here an   *)
(* RPC that fails had no effect, and what matters is when it is made. Time *)
(* is counted down: every timer and every etcd lease is the number of      *)
(* ticks it has left, and Tick lowers them all. SystemTime and the timer   *)
(* of sleep go at one pace.                                                *)
(***************************************************************************)
EXTENDS Integers, Sequences

CONSTANTS
  Net,       \* the configurations etcd may hold
  Subnet,
  Leasable,  \* the subnets a configuration leases; none if main refuses it
  TTL,       \* SUBNET_TTL
  Margin,    \* subnet_lease_renew_margin
  Retry,     \* the 3 seconds after a failed renewal
  Latency,   \* what a request may take, and each half of it
  Faults,    \* what may go wrong, of "rpc", "watch", "stall"
  MaxTold,   \* bound: events the own watch has not delivered
  NoFile,
  Partial    \* a file somebody has begun to write

ASSUME SubnetAssumption == Subnet \subseteq Nat
ASSUME LeasableAssumption == Leasable \in [Net -> SUBSET Subnet]
ASSUME FaultsAssumption == Faults \subseteq {"rpc", "watch", "stall"}
ASSUME FileAssumption == Partial # NoFile /\ Partial \notin [net : Net, subnet : Subnet]
ASSUME TimingAssumption ==
  /\ TTL \in Nat /\ Margin \in Nat /\ Latency \in Nat /\ Retry \in Nat \ {0} /\ MaxTold \in Nat
  /\ Retry <= Margin /\ 3 * Latency < Margin
  /\ Margin + 5 * Latency + 1 <= TTL

VARIABLES
  net,     \* etcd: the configuration
  ttl,     \* etcd: what is left of this host's registration of each subnet, 0 if none
  pc,      \* the step the daemon is at
  age,     \* ticks since the request under way was sent or answered
  main,    \* the configuration main has read
  subnet,  \* lease.subnet
  exp,     \* lease.expiration, until the timer is set by it
  timer,   \* sleep(dur)
  watch,   \* the task of watch_lease: "none", "get", "on" or "off"
  told,    \* the events of the own watch that are under way
  fails,   \* renewals that failed since one succeeded
  file     \* the subnet file

etcd == <<net, ttl>>
task == <<watch, told>>
vars == <<net, ttl, pc, age, main, subnet, exp, timer, watch, told, fails, file>>

Running == {"run", "renew", "renewed"}
Asking == {"acquire", "found", "update", "updated", "create", "created", "renew", "renewed"}

At(here, there) == pc = here /\ pc' = there

\* An event of the own watch. What is left of the lease of a Put is asked for, and
\* added to the time of the answer; held is how long that answer has been under way.
Put(left) == [type |-> "put", left |-> left, held |-> 0]
Delete == [type |-> "delete", left |-> 0, held |-> 0]

\* A number of ticks after one more.
Less(t) == IF t = 0 THEN 0 ELSE t - 1

(***************************************************************************)
(* Time                                                                    *)
(***************************************************************************)

\* Something the daemon or etcd does before a tick is over: the timer has fired, a
\* request is answered, a file is written. A daemon that ended by itself is started
\* again (by an init system, outside this code); one that was killed may stay away.
Urgent ==
  \/ pc = "run" /\ timer = 0
  \/ pc \in Asking /\ age = Latency
  \/ pc \in {"read", "rename", "begin"}
  \/ pc = "failed" /\ age = 1
  \/ watch = "get"

\* What a tick makes of the i-th event, if the j-th is the one whose answer is under
\* way: what that says of the lease stays, what the others say is known and runs out.
Aged(i, j) ==
  IF i = j THEN [told[i] EXCEPT !.held = @ + 1] ELSE [told[i] EXCEPT !.left = Less(@)]

\* The watch waits for the answer about its j-th event; for none if j is 0.
Waits(j) == j = 0 \/ (j \in DOMAIN told /\ told[j].type = "put" /\ told[j].held < Latency)

Pass(j) ==
  /\ Waits(j)
  /\ ttl' = [s \in Subnet |-> Less(ttl[s])]
  /\ age' = IF pc \in Asking \cup {"failed"} THEN age + 1 ELSE 0
  /\ exp' = IF pc = "found" THEN exp ELSE Less(exp)
  /\ timer' = IF pc = "run" THEN Less(timer) ELSE timer
  /\ told' = LET late == [i \in DOMAIN told |-> Aged(i, j)] IN
             IF watch = "on" /\ ttl[subnet] = 1 THEN Append(late, Delete) ELSE late
  /\ UNCHANGED <<net, pc, main, subnet, watch, fails, file>>

\* A daemon at its select! takes an event the moment it is told.
Tick ==
  /\ ~Urgent
  /\ \E j \in 0..Len(told) : (pc = "run" /\ told # <<>> => j = 1) /\ Pass(j)

\* The own watch, or the daemon, is late with an event: a request for what is left of
\* its lease that is slow to reach etcd, a task that is not polled.
Stall ==
  /\ "stall" \in Faults
  /\ ~Urgent /\ pc = "run" /\ told # <<>> /\ Len(told) < MaxTold
  /\ \E j \in 0..Len(told) : Pass(j)

Reconfigure(c) == net' = c /\ c # net /\ UNCHANGED <<ttl, pc, age, main, subnet, exp, timer, task, fails, file>>

(***************************************************************************)
(* The process                                                             *)
(***************************************************************************)

\* main ends; there is left what is in etcd and in the file.
End(there) ==
  /\ pc' = there
  /\ age' = 0 /\ exp' = 0 /\ timer' = 0 /\ fails' = 0
  /\ watch' = "none" /\ told' = <<>>
  /\ UNCHANGED <<etcd, main, subnet, file>>

Crash == pc # "down" /\ End("down")

\* The file there is parses: it is only ever replaced as a whole.
Start ==
  /\ At("down", "read") \/ (At("failed", "read") /\ age = 1)
  /\ file # Partial
  /\ age' = 0
  /\ UNCHANGED <<etcd, main, subnet, exp, timer, task, fails, file>>

\* get_network_config and get_backend. A configuration that does not pass the
\* check, or names no known backend, ends the daemon.
ReadConfig ==
  /\ At("read", "acquire") /\ Leasable[net] # {}
  /\ main' = net /\ age' = 0
  /\ UNCHANGED <<etcd, subnet, exp, timer, task, fails, file>>

RefuseConfig == pc = "read" /\ Leasable[net] = {} /\ End("failed")

RpcFails == "rpc" \in Faults /\ pc \in {"read", "acquire", "update", "create"} /\ End("failed")

Registered == {s \in Subnet : ttl[s] > 0}

\* The first key that names this host; there may be another.
IsOwn(s) == s \in Registered /\ \A t \in Registered : s <= t

Reusable == \E s \in Leasable[net] : IsOwn(s)

AimAt(s) ==
  /\ subnet' = s /\ age' = 0
  /\ UNCHANGED <<etcd, main, timer, task, fails, file>>

\* Mutant of Reuse: the expiration is left at its default.
MutReuseUndated ==
  /\ At("acquire", "found")
  /\ \E s \in Leasable[net] : IsOwn(s) /\ AimAt(s) /\ exp' = 0

\* acquire_lease reads the configuration again, and what is registered. A lease that
\* is found has what was left of it added to the time at which that is known.
Reuse ==
  /\ At("acquire", "found")
  /\ \E s \in Leasable[net] : IsOwn(s) /\ AimAt(s) /\ exp' = ttl[s]

Allocate ==
  /\ At("acquire", "create") /\ ~Reusable
  /\ \E s \in Leasable[net] \ Registered : AimAt(s)
  /\ UNCHANGED exp

NoneAvailable ==
  /\ pc = "acquire" /\ ~Reusable /\ Leasable[net] \subseteq Registered
  /\ End("failed")

SendUpdate ==
  /\ At("found", "update") /\ age' = 0
  /\ UNCHANGED <<etcd, main, subnet, exp, timer, task, fails, file>>

\* The put reaches etcd, with a lease that was granted by an earlier request of the
\* same call; the own watch, if there is one, hears of it.
PutReaches ==
  /\ \E left \in (TTL - age)..TTL :
       /\ ttl' = [ttl EXCEPT ![subnet] = left]
       /\ told' = IF watch = "on" THEN Append(told, Put(left)) ELSE told
  /\ age' = 0
  /\ UNCHANGED <<net, main, subnet, exp, timer, watch, fails, file>>

UpdateSubnet == At("update", "updated") /\ PutReaches

CreateSubnet == At("create", "created") /\ PutReaches

\* Mutant of Answered: the file is written where it is to be.
MutInPlace ==
  /\ pc \in {"updated", "created"} /\ pc' = "rename"
  /\ exp' = IF pc = "created" THEN TTL ELSE exp
  /\ file' = Partial /\ age' = 0
  /\ UNCHANGED <<etcd, main, subnet, timer, task, fails>>

\* The answer. What update_subnet returns is thrown away. write_subnet_file begins,
\* under another name.
Answered ==
  /\ pc \in {"updated", "created"} /\ pc' = "rename"
  /\ exp' = IF pc = "created" THEN TTL ELSE exp
  /\ age' = 0
  /\ UNCHANGED <<etcd, main, subnet, timer, task, fails, file>>

RenameFile ==
  /\ At("rename", "begin")
  /\ file' = [net |-> main, subnet |-> subnet]
  /\ UNCHANGED <<etcd, age, main, subnet, exp, timer, task, fails>>

(***************************************************************************)
(* renew_lease_if_needed                                                   *)
(***************************************************************************)

\* Mutant of Begin: the subtraction is not checked.
MutBeginUnchecked ==
  /\ At("begin", "run")
  /\ timer' = exp - Margin /\ exp' = 0
  /\ watch' = "get"
  /\ UNCHANGED <<etcd, age, main, subnet, told, fails, file>>

\* The subtraction of durations panics if less is left than Margin.
Begin ==
  /\ At("begin", "run") /\ exp >= Margin
  /\ timer' = exp - Margin /\ exp' = 0
  /\ watch' = "get"
  /\ UNCHANGED <<etcd, age, main, subnet, told, fails, file>>

BeginPanics == pc = "begin" /\ exp < Margin /\ End("failed")

TimerFires ==
  /\ At("run", "renew") /\ timer = 0
  /\ age' = 0
  /\ UNCHANGED <<etcd, main, subnet, exp, timer, task, fails, file>>

RenewPut == At("renew", "renewed") /\ PutReaches

\* Mutant of RenewDone: the timer is set without the margin.
MutNoMargin ==
  /\ At("renewed", "run")
  /\ timer' = TTL /\ age' = 0 /\ fails' = 0
  /\ UNCHANGED <<etcd, main, subnet, exp, task, file>>

RenewDone ==
  /\ At("renewed", "run")
  /\ timer' = TTL - Margin /\ age' = 0 /\ fails' = 0
  /\ UNCHANGED <<etcd, main, subnet, exp, task, file>>

RenewFails ==
  /\ "rpc" \in Faults
  /\ At("renew", "run")
  /\ timer' = Retry /\ age' = 0
  /\ fails' = IF fails < TTL THEN fails + 1 ELSE fails
  /\ UNCHANGED <<etcd, main, subnet, exp, task, file>>

\* watch_lease reads the key, tells what it read, and watches.
WatchGet ==
  /\ watch = "get"
  /\ IF ttl[subnet] = 0
       THEN watch' = "off" /\ UNCHANGED told
       ELSE watch' = "on" /\ told' = <<Put(ttl[subnet])>>
  /\ UNCHANGED <<etcd, pc, age, main, subnet, exp, timer, fails, file>>

\* The task ends, with what it has not told.
WatchFails ==
  /\ "watch" \in Faults
  /\ watch \in {"get", "on"}
  /\ watch' = "off" /\ told' = <<>>
  /\ UNCHANGED <<etcd, pc, age, main, subnet, exp, timer, fails, file>>

EventIs(type) == pc = "run" /\ told # <<>> /\ Head(told).type = type

\* Mutant of Adopt: the lease is replaced and the timer runs on.
MutAdoptOnly ==
  /\ EventIs("put") /\ Head(told).left >= Margin
  /\ told' = Tail(told)
  /\ UNCHANGED <<etcd, pc, age, main, subnet, exp, timer, watch, fails, file>>

\* A Put sets the timer by what is left of the lease it speaks of.
Adopt ==
  /\ EventIs("put") /\ Head(told).left >= Margin
  /\ timer' = Head(told).left - Margin
  /\ told' = Tail(told)
  /\ UNCHANGED <<etcd, pc, age, main, subnet, exp, watch, fails, file>>

\* An event that is late makes the subtraction panic, or is found to be in the past.
AdoptPanics == EventIs("put") /\ Head(told).left < Margin /\ End("failed")

\* A Put whose lease is gone is dropped.
DropExpiredPut ==
  /\ EventIs("put") /\ Head(told).left = 0
  /\ told' = Tail(told)
  /\ UNCHANGED <<etcd, pc, age, main, subnet, exp, timer, watch, fails, file>>

OwnLeaseDeleted == EventIs("delete") /\ End("failed")

(***************************************************************************)
(* Specification                                                           *)
(***************************************************************************)

Init ==
  /\ net \in Net
  /\ ttl = [s \in Subnet |-> 0]
  /\ pc = "down" /\ age = 0 /\ main = net
  /\ subnet \in Subnet
  /\ exp = 0 /\ timer = 0 /\ watch = "none" /\ told = <<>> /\ fails = 0
  /\ file = NoFile

Acquire ==
  \/ ReadConfig \/ RefuseConfig \/ Reuse \/ Allocate \/ NoneAvailable
  \/ SendUpdate \/ UpdateSubnet \/ CreateSubnet

Settle == Answered \/ RenameFile \/ Begin \/ BeginPanics

Renew == TimerFires \/ RenewPut \/ RenewDone

HandleEvent == Adopt \/ AdoptPanics \/ DropExpiredPut \/ OwnLeaseDeleted

Disturbance ==
  \/ Crash \/ RpcFails \/ RenewFails \/ WatchFails \/ Stall
  \/ \E c \in Net : Reconfigure(c)

Step == Start \/ Acquire \/ Settle \/ Renew \/ WatchGet \/ HandleEvent \/ Tick

Next == Step \/ Disturbance

Spec == Init /\ [][Next]_vars

(***************************************************************************)
(* Properties                                                              *)
(***************************************************************************)

\* The types of the variables.
TypeOK ==
  /\ net \in Net /\ main \in Net /\ subnet \in Subnet
  /\ ttl \in [Subnet -> 0..TTL]
  /\ pc \in {"down", "failed", "read", "rename", "begin", "run"} \cup Asking
  /\ age \in 0..(Latency + 1) /\ exp \in 0..TTL /\ timer \in 0..TTL /\ fails \in 0..TTL
  /\ watch \in {"none", "get", "on", "off"}
  /\ told \in Seq([type : {"put", "delete"}, left : 0..TTL, held : 0..Latency])
  /\ file \in {NoFile, Partial} \cup [net : Net, subnet : Subnet]

\* A daemon that has handled its events and missed no renewal sleeps until its
\* registration has Margin left in etcd, and longer by no more than the answer about
\* the last Put took: whether the lease it began with was an old one, the answer to
\* its renewal was slow, or that Put came late.
TimerTrue ==
  pc = "run" /\ watch = "on" /\ told = <<>> /\ fails = 0
    => timer + Margin \in ttl[subnet]..(ttl[subnet] + Latency)

\* The margin is there for renewals that fail: the registration does not end under
\* a running daemon, with or without its own watch, before as many have failed in
\* a row as fit into it.
KeptRegistered ==
  pc \in Running /\ fails * (Retry + Latency) + 3 * Latency < Margin => ttl[subnet] > 0

\* Whatever a daemon was killed at, the subnet file is whole, and it names the
\* subnet of the daemon that runs, not of a life before.
FileTrue ==
  /\ file # Partial
  /\ pc \in Running => file = [net |-> main, subnet |-> subnet]

(***************************************************************************)
(* Liveness                                                                *)
(***************************************************************************)

\* The runtime polls what is ready, etcd answers, time passes, and a daemon is
\* started again.
FairSpec == Spec /\ WF_vars(Step) /\ WF_vars(Start)

Undisturbed == <>[][~Disturbance]_vars /\ <>[](Leasable[net] # {})

\* A daemon that is disturbed no more ends up running for good. It may panic first,
\* on the old expiration of the lease it found or on a late Put of its own, and find
\* no subnet while its first registration is one of another configuration; each
\* start leaves etcd in a state the next can do more with.
RunsForGood == Undisturbed => <>[](pc \in Running)
==============================================================================
