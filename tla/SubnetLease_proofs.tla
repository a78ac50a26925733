-------------------------- MODULE SubnetLease_proofs --------------------------
(***************************************************************************)
(* What holds of SubnetLease and SubnetHistory for any number of hosts,    *)
(* subnets and leases.                                                     *)
(***************************************************************************)
EXTENDS SubnetHistory, TLAPS, SequenceTheorems

(***************************************************************************)
(* The steps of a host, with those that end its process taken together.    *)
(***************************************************************************)
LEMMA StepCases ==
  ASSUME NEW n \in Node, NodeStep(n)
  PROVE  \/ Exit(n) /\ pc[n] # "down"
         \/ Start(n) \/ ReadConfig(n) \/ RangeRead(n) \/ QueryTtl(n) \/ TtlQueryFails(n)
         \/ Reuse(n) \/ Allocate(n) \/ UpdateSubnet(n) \/ CreateSubnet(n)
         \/ Renew(n) \/ PutReplyLost(n) \/ RevokeAndExit(n) \/ RevokeAndRetry(n)
         \/ WatchGet(n) \/ WatchFails(n) \/ WatchPanics(n)
         \/ Adopt(n) \/ DropExpiredPut(n)
  BY DEF NodeStep, Acquire, WatchTask, HandleEvent, Fault, Crash, RpcFails,
         QueryTtlPanics, NoSubnetAvailable, CreateLost, OwnLeaseDeleted, EventFor

(***************************************************************************)
(* What a change of a key does to the registrations and to the events that *)
(* wait for the daemons.                                                   *)
(***************************************************************************)

Touched(s, e) ==
  /\ kv' = [kv EXCEPT ![s] = e]
  /\ \A n \in Node :
       /\ n \notin Watchers(s) => chan'[n] = chan[n]
       /\ n \in Watchers(s) =>
            /\ chan'[n] # <<>>
            /\ Len(chan'[n]) = Len(chan[n]) + 1
            /\ chan'[n][Len(chan[n]) + 1] = e
            /\ \A i \in 1..Len(chan[n]) : chan'[n][i] = chan[n][i]

ChanOK(c) == c \in [Node -> Seq(Event)]

\* A change of a key appends to the queue of each of its watchers, and to no other.
LEMMA PublishTouches ==
  ASSUME TypeOK, NEW s \in Subnet, NEW e \in Event, Publish(s, e)
  PROVE  /\ kv' \in [Subnet -> Event]
         /\ ChanOK(chan')
         /\ Touched(s, e)
<1>1. kv' \in [Subnet -> Event] /\ kv' = [kv EXCEPT ![s] = e]
  BY DEF TypeOK, Publish
<1>2. ChanOK(chan')
  BY DEF TypeOK, Publish, ChanOK
<1>3. ASSUME NEW n \in Node
      PROVE  /\ n \notin Watchers(s) => chan'[n] = chan[n]
             /\ n \in Watchers(s) => chan'[n] = Append(chan[n], e)
  BY DEF TypeOK, Publish
<1>4. ASSUME NEW q \in Seq(Event)
      PROVE  /\ Append(q, e) # <<>>
             /\ Len(Append(q, e)) = Len(q) + 1
             /\ Append(q, e)[Len(q) + 1] = e
             /\ \A i \in 1..Len(q) : Append(q, e)[i] = q[i]
  OBVIOUS
<1>5. chan \in [Node -> Seq(Event)]
  BY DEF TypeOK
<1> QED
  BY <1>1, <1>2, <1>3, <1>4, <1>5 DEF Touched

\* A put with a lease of its own: the lease was not alive before.
LEMMA GrantTouches ==
  ASSUME TypeOK, NEW s \in Subnet, NEW i \in Node, NEW l \in LeaseId, GrantAndPut(s, i, l)
  PROVE  /\ kv' \in [Subnet -> Event]
         /\ ChanOK(chan')
         /\ Touched(s, [ip |-> i, lease |-> l])
         /\ alive' = alive \cup {l}
         /\ alive' \subseteq LeaseId
         /\ l \notin alive
<1>1. [ip |-> i, lease |-> l] \in Event
  BY DEF Event, Entry
<1> QED
  BY <1>1, PublishTouches DEF GrantAndPut, TypeOK, Fresh

\* The end of a lease deletes the key attached to it, if there is one.
LEMMA EndTouches ==
  ASSUME TypeOK, NEW l, EndLease(l)
  PROVE  /\ kv' \in [Subnet -> Event]
         /\ ChanOK(chan')
         /\ alive' = alive \ {l}
         /\ alive' \subseteq LeaseId
         /\ \/ \E s \in Subnet : AttachedTo(s, l) /\ Touched(s, NoEntry)
            \/ (\A s \in Subnet : ~AttachedTo(s, l)) /\ UNCHANGED <<kv, chan>>
<1>1. NoEntry \in Event
  BY DEF Event
<1>2. CASE \E s \in Subnet : AttachedTo(s, l) /\ Publish(s, NoEntry)
  BY <1>1, <1>2, PublishTouches DEF EndLease, TypeOK
<1>3. CASE (\A s \in Subnet : ~AttachedTo(s, l)) /\ UNCHANGED <<kv, chan>>
  BY <1>3 DEF EndLease, TypeOK, ChanOK
<1> QED
  BY <1>2, <1>3 DEF EndLease

(***************************************************************************)
(* Type correctness. It needs to know which variables a daemon may use at  *)
(* the step it is at.                                                      *)
(***************************************************************************)

Holding == {"update", "create", "revoke"} \cup Running

InPhase(n) ==
  /\ watch[n] # "none" <=> pc[n] \in Running
  /\ pc[n] \in Holding => held[n] \in [subnet : Subnet, ip : Node]
  /\ pc[n] \in {"revoke", "renewrevoke"} => lid[n] \in LeaseId
  /\ watch[n] \in {"none", "get"} => chan[n] = <<>>
  /\ watch[n] = "first" => chan[n] # <<>> /\ chan[n][1] # NoEntry
  /\ pc[n] # "ttl" => seen[n] = {}
  /\ \A s \in todo[n] \cup seen[n] : snap[n][s] # NoEntry

PhaseOK == \A n \in Node : InPhase(n)

\* What waits for a daemon still fits its phase when an event is added.
Undisturbed(n) ==
  /\ watch[n] \in {"none", "get"} => chan'[n] = chan[n]
  /\ watch[n] = "first" /\ chan[n] # <<>> => chan'[n] # <<>> /\ chan'[n][1] = chan[n][1]

\* An event that arrives does not disturb what a daemon is about to do.
LEMMA TouchedPhase ==
  ASSUME TypeOK, NEW s \in Subnet, NEW e, Touched(s, e), NEW n \in Node
  PROVE  Undisturbed(n)
<1>1. chan[n] \in Seq(Event)
  BY DEF TypeOK
<1>2. chan[n] # <<>> => 1 \in 1..Len(chan[n])
  BY <1>1
<1> QED
  BY <1>1, <1>2 DEF Touched, Watchers, Undisturbed

\* So with a daemon's put of the key it holds: no daemon is disturbed.
LEMMA PutPhase ==
  ASSUME TypeOK, PhaseOK, NEW n \in Node, pc[n] \in Holding, NEW i \in Node,
         \E l \in LeaseId : GrantAndPut(held[n].subnet, i, l), NEW m \in Node
  PROVE  Undisturbed(m)
<1>1. held[n].subnet \in Subnet
  BY DEF PhaseOK, InPhase
<1> QED
  BY <1>1, GrantTouches, TouchedPhase

\* A step keeps the types.
LEMMA TypeStep ==
  ASSUME TypeOK, PhaseOK, [Next]_vars
  PROVE  TypeOK'
<1> USE DEF TypeOK
<1>1. ASSUME NEW n \in Node, NodeStep(n)
      PROVE  TypeOK'
  <2>0. InPhase(n)
    BY DEF PhaseOK
  <2>1. CASE Exit(n)
    BY <2>1 DEF Exit, Forget, ForgetSnapshot, etcd, NoSnapshot, Event
  <2>2. CASE Start(n)
    BY <2>2 DEF Start, At, etcd, snapshot, task, Starting
  <2>3. CASE ReadConfig(n)
    BY <2>3, ConfigsAssumption DEF ReadConfig, At, etcd, task, Starting
  <2>4. CASE RangeRead(n)
    BY <2>4 DEF RangeRead, At, etcd, task, Starting
  <2>5. CASE QueryTtl(n)
    BY <2>5 DEF QueryTtl, etcd, task
  <2>6. CASE TtlQueryFails(n)
    BY <2>6 DEF TtlQueryFails, etcd, task
  <2>7. CASE Reuse(n)
    BY <2>7 DEF Reuse, At, AimAt, ForgetSnapshot, NoSnapshot, Event, IsOwn, IsFirst, etcd, task, Starting
  <2>8. CASE Allocate(n)
    BY <2>8 DEF Allocate, At, AimAt, ForgetSnapshot, NoSnapshot, Event, Free, etcd, task, Starting
  <2>9. CASE UpdateSubnet(n)
    BY GrantTouches, <2>0, <2>9 DEF UpdateSubnet, At, BeginRunning, snapshot, Running, ChanOK, InPhase, Holding, Starting, Running
  <2>10. CASE CreateSubnet(n)
    BY GrantTouches, <2>0, <2>10 DEF CreateSubnet, At, BeginRunning, snapshot, Running, ChanOK, InPhase, Holding, Starting, Running
  <2>11. CASE Renew(n)
    BY GrantTouches, <2>0, <2>11 DEF Renew, snapshot, ChanOK, InPhase, Holding, Starting, Running
  <2>12. CASE PutReplyLost(n)
    <3>1. held[n].subnet \in Subnet /\ held[n].ip \in Node
      BY <2>0, <2>12 DEF PutReplyLost, At, InPhase, Holding, Running
    <3>2. PICK l \in LeaseId : /\ GrantAndPut(held[n].subnet, held[n].ip, l)
                               /\ lid' = [lid EXCEPT ![n] = l]
      BY <2>12 DEF PutReplyLost
    <3>3. pc' \in [Node -> {"down"} \cup Starting \cup Running]
      BY <2>12 DEF PutReplyLost, At, Starting, Running
    <3> QED
      BY <2>12, <3>1, <3>2, <3>3, GrantTouches DEF PutReplyLost, snapshot, ChanOK
  <2>13. CASE RevokeAndExit(n)
    BY EndTouches, <2>0, <2>13 DEF RevokeAndExit, Revoked, Forget, ForgetSnapshot, NoSnapshot, Event, ChanOK, InPhase
  <2>14. CASE RevokeAndRetry(n)
    BY EndTouches, <2>0, <2>14 DEF RevokeAndRetry, Revoked, At, snapshot, Running, ChanOK, InPhase
  <2>15. CASE WatchGet(n)
    <3>1. held[n].subnet \in Subnet
      BY <2>0, <2>15 DEF WatchGet, InPhase, Holding, Running
    <3>2. <<kv[held[n].subnet]>> \in Seq(Event)
      BY <3>1
    <3>3. chan' \in [Node -> Seq(Event)]
      BY <2>15, <3>2 DEF WatchGet
    <3> QED
      BY <2>15, <3>3 DEF WatchGet, etcd, snapshot
  <2>16. CASE WatchFails(n)
    BY <2>16 DEF WatchFails, etcd, snapshot
  <2>17. CASE WatchPanics(n)
    BY <2>17 DEF WatchPanics, etcd, snapshot
  <2>18. CASE Adopt(n)
    <3>1. chan[n] \in Seq(Event) /\ chan[n] # <<>>
      BY <2>18 DEF Adopt, EventFor
    <3>2. Head(chan[n]) \in Entry /\ Tail(chan[n]) \in Seq(Event)
      BY <2>18, <3>1 DEF Adopt, Event
    <3>3. held[n] \in [subnet : Subnet, ip : Node]
      BY <2>0, <2>18 DEF Adopt, EventFor, InPhase, Holding, Running
    <3>4. [held[n] EXCEPT !.ip = Head(chan[n]).ip] \in [subnet : Subnet, ip : Node]
      BY <3>2, <3>3 DEF Entry
    <3>5. held' = [held EXCEPT ![n] = [held[n] EXCEPT !.ip = Head(chan[n]).ip]]
      BY <2>18 DEF Adopt
    <3>6. held' \in [Node -> [subnet : Subnet, ip : Node] \cup {NoHold}]
      BY <3>4, <3>5
    <3>7. chan' \in [Node -> Seq(Event)]
      BY <2>18, <3>2 DEF Adopt, NextEvent
    <3> QED
      BY <2>18, <3>6, <3>7 DEF Adopt, etcd, snapshot
  <2>19. CASE DropExpiredPut(n)
    BY <2>19 DEF DropExpiredPut, EventFor, NextEvent, etcd, snapshot
  <2> QED
    BY <1>1, StepCases, <2>1, <2>2, <2>3, <2>4, <2>5, <2>6, <2>7, <2>8, <2>9, <2>10, <2>11, <2>12, <2>13, <2>14, <2>15, <2>16, <2>17, <2>18, <2>19
<1>2. ASSUME NEW l \in LeaseId, Expire(l)
      PROVE  TypeOK'
  BY <1>2, EndTouches DEF Expire, ChanOK, snapshot
<1>3. ASSUME NEW C \in Configs, Reconfigure(C)
      PROVE  TypeOK'
  BY <1>3 DEF Reconfigure, snapshot, task
<1>4. CASE UNCHANGED vars
  BY <1>4 DEF vars
<1> QED
  BY <1>1, <1>2, <1>3, <1>4 DEF Next

\* A step leaves every daemon with the variables its next steps use.
LEMMA PhaseStep ==
  ASSUME TypeOK, PhaseOK, [Next]_vars
  PROVE  PhaseOK'
<1>1. ASSUME NEW n \in Node, NodeStep(n), NEW m \in Node
      PROVE  InPhase(m)'
  <2> USE DEF TypeOK, InPhase, Holding, Running
  <2>a. InPhase(n) /\ InPhase(m)
    BY DEF PhaseOK
  <2>1. CASE Exit(n)
    BY <2>a, <2>1 DEF Exit, Forget, ForgetSnapshot, etcd
  <2>2. CASE Start(n)
    BY <2>a, <2>2 DEF Start, At, etcd, snapshot, task
  <2>3. CASE ReadConfig(n)
    BY <2>a, <2>3 DEF ReadConfig, At, etcd, task
  <2>4. CASE RangeRead(n)
    BY <2>a, <2>4 DEF RangeRead, At, etcd, task
  <2>5. CASE QueryTtl(n)
    BY <2>a, <2>5 DEF QueryTtl, IsFirst, etcd, task
  <2>6. CASE TtlQueryFails(n)
    BY <2>a, <2>6 DEF TtlQueryFails, IsFirst, etcd, task
  <2>7. CASE Reuse(n)
    BY <2>a, <2>7 DEF Reuse, At, AimAt, ForgetSnapshot, IsOwn, IsFirst, etcd, task
  <2>8. CASE Allocate(n)
    BY <2>a, <2>8 DEF Allocate, At, AimAt, ForgetSnapshot, Free, etcd, task
  <2>9. CASE UpdateSubnet(n)
    <3>1. pc[n] \in Holding /\ n \in Node
      BY <2>a, <2>9 DEF UpdateSubnet, At
    <3>2. \E l \in LeaseId : GrantAndPut(held[n].subnet, n, l)
      BY <2>9 DEF UpdateSubnet
    <3>3. Undisturbed(m)
      BY <3>1, <3>2, PutPhase
    <3> QED
      BY <2>a, <2>9, <3>1, <3>3 DEF UpdateSubnet, At, BeginRunning, snapshot, Undisturbed
  <2>10. CASE CreateSubnet(n)
    <3>1. pc[n] \in Holding /\ n \in Node
      BY <2>a, <2>10 DEF CreateSubnet, At
    <3>2. \E l \in LeaseId : GrantAndPut(held[n].subnet, n, l)
      BY <2>10 DEF CreateSubnet
    <3>3. Undisturbed(m)
      BY <3>1, <3>2, PutPhase
    <3> QED
      BY <2>a, <2>10, <3>1, <3>3 DEF CreateSubnet, At, BeginRunning, snapshot, Undisturbed
  <2>11. CASE Renew(n)
    <3>1. pc[n] \in Holding /\ held[n].ip \in Node
      BY <2>a, <2>11 DEF Renew, At
    <3>2. \E l \in LeaseId : GrantAndPut(held[n].subnet, held[n].ip, l)
      BY <2>11 DEF Renew
    <3>3. Undisturbed(m)
      BY <3>1, <3>2, PutPhase
    <3> QED
      BY <2>a, <2>11, <3>1, <3>3 DEF Renew, snapshot, Undisturbed
  <2>12. CASE PutReplyLost(n)
    <3>1. pc[n] \in Holding /\ held[n].ip \in Node
      BY <2>a, <2>12 DEF PutReplyLost, At
    <3>2. \E l \in LeaseId : GrantAndPut(held[n].subnet, held[n].ip, l)
      BY <2>12 DEF PutReplyLost
    <3>3. Undisturbed(m)
      BY <3>1, <3>2, PutPhase
    <3> QED
      BY <2>a, <2>12, <3>1, <3>3 DEF PutReplyLost, At, snapshot, Undisturbed
  <2>13. CASE RevokeAndExit(n)
    BY EndTouches, TouchedPhase, <2>a, <2>13 DEF RevokeAndExit, Revoked, Forget, ForgetSnapshot, Undisturbed
  <2>14. CASE RevokeAndRetry(n)
    BY EndTouches, TouchedPhase, <2>a, <2>14 DEF RevokeAndRetry, Revoked, At, snapshot, Undisturbed
  <2>15. CASE WatchGet(n)
    BY <2>a, <2>15 DEF WatchGet, etcd, snapshot
  <2>16. CASE WatchFails(n)
    BY <2>a, <2>16 DEF WatchFails, etcd, snapshot
  <2>17. CASE WatchPanics(n)
    BY <2>a, <2>17 DEF WatchPanics, etcd, snapshot
  <2>18. CASE Adopt(n)
    <3>1. held[n] \in [subnet : Subnet, ip : Node] /\ Head(chan[n]) \in Entry
      BY <2>a, <2>18 DEF Adopt, EventFor, Event
    <3>2. [held[n] EXCEPT !.ip = Head(chan[n]).ip] \in [subnet : Subnet, ip : Node]
      BY <3>1 DEF Entry
    <3>3. held' = [held EXCEPT ![n] = [held[n] EXCEPT !.ip = Head(chan[n]).ip]]
      BY <2>18 DEF Adopt
    <3> QED
      BY <2>a, <2>18, <3>2, <3>3 DEF Adopt, EventFor, NextEvent, etcd, snapshot
  <2>19. CASE DropExpiredPut(n)
    BY <2>a, <2>19 DEF DropExpiredPut, EventFor, NextEvent, etcd, snapshot
  <2> QED
    BY <1>1, StepCases, <2>1, <2>2, <2>3, <2>4, <2>5, <2>6, <2>7, <2>8, <2>9, <2>10, <2>11, <2>12, <2>13, <2>14, <2>15, <2>16, <2>17, <2>18, <2>19
<1>2. ASSUME NEW l \in LeaseId, Expire(l), NEW m \in Node
      PROVE  InPhase(m)'
  BY <1>2, EndTouches, TouchedPhase DEF PhaseOK, InPhase, Expire, snapshot, Undisturbed
<1>3. ASSUME NEW C \in Configs, Reconfigure(C)
      PROVE  PhaseOK'
  BY <1>3 DEF PhaseOK, InPhase, Reconfigure, snapshot, task
<1>4. CASE UNCHANGED vars
  BY <1>4 DEF PhaseOK, InPhase, vars
<1> QED
  BY <1>1, <1>2, <1>3, <1>4 DEF Next, PhaseOK

\* Nothing is registered and no daemon runs at first.
LEMMA Initially ==
  ASSUME Init
  PROVE  TypeOK /\ PhaseOK
<1>1. TypeOK
  BY DEF Init, TypeOK, NoSnapshot, Event
<1>2. PhaseOK
  BY DEF Init, PhaseOK, InPhase, Holding, Running
<1> QED
  BY <1>1, <1>2

\* Every variable keeps its type, whatever fails: in particular a daemon renews,
\* watches and revokes only a subnet, a lease and attributes it really has.
THEOREM TypeCorrect == Spec => [](TypeOK /\ PhaseOK)
<1>1. Init => TypeOK /\ PhaseOK
  BY Initially
<1>2. TypeOK /\ PhaseOK /\ [Next]_vars => (TypeOK /\ PhaseOK)'
  BY TypeStep, PhaseStep
<1> QED
  BY <1>1, <1>2, PTL DEF Spec

(***************************************************************************)
(* WatchInSync. A registration's lease is alive and its own, and the last  *)
(* event that waits for a daemon is what etcd says of its key.             *)
(***************************************************************************)

LeasesOK ==
  \A s \in Subnet : kv[s] # NoEntry =>
    /\ kv[s].lease \in alive
    /\ \A t \in Subnet : kv[t] # NoEntry /\ kv[t].lease = kv[s].lease => t = s

LastWord(n) ==
  Watching(n) =>
    IF chan[n] = <<>>
      THEN kv[held[n].subnet] # NoEntry /\ kv[held[n].subnet].ip = held[n].ip
      ELSE chan[n][Len(chan[n])] = kv[held[n].subnet]

StreamOK == \A n \in Node : LastWord(n)

\* What a step does to the keys: nothing, a put with a new lease, or the end of one.
LEMMA EtcdCases ==
  ASSUME TypeOK, PhaseOK, [Next]_vars
  PROVE  \/ UNCHANGED <<kv, alive>>
         \/ \E s \in Subnet, i \in Node, l \in LeaseId : GrantAndPut(s, i, l)
         \/ \E l \in LeaseId : EndLease(l)
<1>1. ASSUME NEW n \in Node, NodeStep(n)
      PROVE  \/ UNCHANGED <<kv, alive>>
             \/ \E s \in Subnet, i \in Node, l \in LeaseId : GrantAndPut(s, i, l)
             \/ \E l \in LeaseId : EndLease(l)
  <2>1. pc[n] \in Holding => held[n].subnet \in Subnet /\ held[n].ip \in Node
    BY DEF PhaseOK, InPhase
  <2>2. CASE UpdateSubnet(n) \/ CreateSubnet(n) \/ Renew(n) \/ PutReplyLost(n)
    BY <2>1, <2>2 DEF UpdateSubnet, CreateSubnet, Renew, PutReplyLost, At, Holding, Running
  <2>3. CASE RevokeAndExit(n) \/ RevokeAndRetry(n)
    BY <2>3 DEF RevokeAndExit, RevokeAndRetry, Revoked, At, PhaseOK, InPhase
  <2> QED
    BY <1>1, <2>2, <2>3, StepCases
       DEF Exit, Start, ReadConfig, RangeRead, QueryTtl, TtlQueryFails, Reuse, Allocate, AimAt,
           WatchGet, WatchFails, WatchPanics, Adopt, DropExpiredPut, etcd
<1> QED
  BY <1>1 DEF Next, Expire, Reconfigure, vars

\* A key is put with a lease nothing else has, and goes with it.
LEMMA LeasesStep ==
  ASSUME TypeOK, PhaseOK, LeasesOK, [Next]_vars
  PROVE  LeasesOK'
<1>1. CASE UNCHANGED <<kv, alive>>
  BY <1>1 DEF LeasesOK
<1>2. ASSUME NEW s \in Subnet, NEW i \in Node, NEW l \in LeaseId, GrantAndPut(s, i, l)
      PROVE  LeasesOK'
  <2>1. /\ kv' = [kv EXCEPT ![s] = [ip |-> i, lease |-> l]]
        /\ alive' = alive \cup {l} /\ l \notin alive
    <3>1. Touched(s, [ip |-> i, lease |-> l]) /\ alive' = alive \cup {l} /\ l \notin alive
      BY <1>2, GrantTouches
    <3> QED
      BY <3>1 DEF Touched
  <2>2. kv'[s].lease = l
    BY <2>1 DEF TypeOK
  <2>3. ASSUME NEW t \in Subnet, t # s
        PROVE  kv'[t] = kv[t] /\ (kv[t] # NoEntry => kv[t].lease \in alive)
    <3>1. kv \in [Subnet -> Event]
      BY DEF TypeOK
    <3>2. kv'[t] = kv[t]
      BY <2>1, <2>3, <3>1
    <3> QED
      BY <3>2 DEF LeasesOK
  <2> QED
    BY <2>1, <2>2, <2>3 DEF LeasesOK
<1>3. ASSUME NEW l \in LeaseId, EndLease(l)
      PROVE  LeasesOK'
  <2>1. alive' = alive \ {l}
    BY <1>3, EndTouches
  <2>2. CASE \E s \in Subnet : AttachedTo(s, l) /\ kv' = [kv EXCEPT ![s] = NoEntry]
    BY <2>1, <2>2 DEF LeasesOK, AttachedTo, TypeOK
  <2>3. CASE (\A s \in Subnet : ~AttachedTo(s, l)) /\ kv' = kv
    BY <2>1, <2>3 DEF LeasesOK, AttachedTo, TypeOK
  <2> QED
    BY <1>3, <2>2, <2>3, EndTouches DEF Touched
<1> QED
  BY <1>1, <1>2, <1>3, EtcdCases

\* Handling an event leaves the last one last.
LEMMA TailLast ==
  ASSUME NEW q \in Seq(Event), q # <<>>
  PROVE  /\ Tail(q) \in Seq(Event)
         /\ Tail(q) = <<>> => Head(q) = q[Len(q)]
         /\ Tail(q) # <<>> => Tail(q)[Len(Tail(q))] = q[Len(q)]
<1>1. /\ Len(q) \in Nat \ {0} /\ Tail(q) \in Seq(Event) /\ Len(Tail(q)) = Len(q) - 1
      /\ \A i \in 1..(Len(q) - 1) : Tail(q)[i] = q[i + 1]
      /\ Head(q) = q[1]
  OBVIOUS
<1>2. Tail(q) = <<>> => Len(q) = 1
  <2>1. Tail(q) = <<>> => Len(Tail(q)) = 0
    BY EmptySeq
  <2> QED
    BY <1>1, <2>1
<1>3. Tail(q) # <<>> => Len(Tail(q)) \in 1..(Len(q) - 1)
  BY <1>1
<1> QED
  BY <1>1, <1>2, <1>3

\* A change of the keys that a daemon's task sees, or that is none of its business.
LEMMA TouchedWord ==
  ASSUME TypeOK, PhaseOK, StreamOK, NEW m \in Node,
         \/ \E s \in Subnet, e \in Event : Touched(s, e)
         \/ UNCHANGED <<kv, chan>>,
         Watching(m)' => Watching(m) /\ held'[m] = held[m]
  PROVE  LastWord(m)'
<1> SUFFICES ASSUME Watching(m)'
             PROVE  LastWord(m)'
  BY DEF LastWord
<1>1. Watching(m) /\ held'[m] = held[m] /\ LastWord(m)
  BY DEF StreamOK
<1>2. held[m].subnet \in Subnet /\ kv \in [Subnet -> Event] /\ chan[m] \in Seq(Event)
  BY <1>1 DEF TypeOK, PhaseOK, InPhase, Holding, Watching
<1>3. ASSUME NEW s \in Subnet, NEW e \in Event, Touched(s, e)
      PROVE  LastWord(m)'
  <2>1. CASE held[m].subnet = s
    <3>1. m \in Watchers(s)
      BY <1>1, <2>1 DEF Watchers, Watching
    <3>2. chan'[m] # <<>> /\ chan'[m][Len(chan'[m])] = e /\ kv'[s] = e
      BY <1>2, <1>3, <3>1 DEF Touched
    <3> QED
      BY <1>1, <2>1, <3>2 DEF LastWord
  <2>2. CASE held[m].subnet # s
    <3>1. chan'[m] = chan[m] /\ kv'[held[m].subnet] = kv[held[m].subnet]
      BY <1>2, <1>3, <2>2 DEF Touched, Watchers
    <3> QED
      BY <1>1, <3>1 DEF LastWord
  <2> QED
    BY <2>1, <2>2
<1>4. CASE UNCHANGED <<kv, chan>>
  BY <1>1, <1>4 DEF LastWord
<1> QED
  BY <1>3, <1>4

\* Whatever changes the key of a running daemon is the last word of its queue.
LEMMA StreamStep ==
  ASSUME TypeOK, PhaseOK, LeasesOK, StreamOK, [Next]_vars
  PROVE  StreamOK'
<1>0. NoEntry \in Event /\ \A i \in Node, l \in LeaseId : [ip |-> i, lease |-> l] \in Event
  BY DEF Event, Entry
<1>1. ASSUME NEW n \in Node, NodeStep(n), NEW m \in Node
      PROVE  LastWord(m)'
  <2>1. InPhase(n) /\ InPhase(m) /\ LastWord(n) /\ LastWord(m)
    BY DEF PhaseOK, StreamOK
  <2>2. CASE /\ m # n \/ ~Watching(n)'
             /\ UNCHANGED kv
             /\ \A k \in Node : k # n => chan'[k] = chan[k] /\ watch'[k] = watch[k] /\ held'[k] = held[k]
    BY <2>1, <2>2 DEF LastWord, Watching
  <2>3. CASE Exit(n) \/ WatchFails(n) \/ WatchPanics(n)
    <3>1. ~Watching(n)'
      BY <2>3 DEF Exit, Forget, WatchFails, WatchPanics, Watching, TypeOK
    <3> QED
      BY <2>2, <2>3, <3>1 DEF Exit, Forget, WatchFails, WatchPanics, etcd, TypeOK
  <2>4. CASE \/ Start(n) \/ ReadConfig(n) \/ RangeRead(n) \/ QueryTtl(n) \/ TtlQueryFails(n)
             \/ Reuse(n) \/ Allocate(n)
    <3>1. /\ UNCHANGED <<kv, chan, watch>>
          /\ held' # held => pc[n] = "ttl" /\ \A k \in Node : k # n => held'[k] = held[k]
      BY <2>4 DEF Start, ReadConfig, RangeRead, QueryTtl, TtlQueryFails, Reuse, Allocate, AimAt,
                  At, etcd, task, TypeOK
    <3>2. pc[n] = "ttl" => ~Watching(n)
      BY <2>1 DEF InPhase, Watching, Running
    <3> QED
      BY <2>1, <3>1, <3>2 DEF LastWord, Watching
  <2>5. CASE UpdateSubnet(n) \/ CreateSubnet(n) \/ Renew(n) \/ PutReplyLost(n)
    <3>1. pc[n] \in Holding /\ held[n].subnet \in Subnet /\ held[n].ip \in Node
      BY <2>1, <2>5 DEF UpdateSubnet, CreateSubnet, Renew, PutReplyLost, At, InPhase, Holding, Running
    <3>2. \E i \in Node, l \in LeaseId : GrantAndPut(held[n].subnet, i, l)
      BY <2>5, <3>1 DEF UpdateSubnet, CreateSubnet, Renew, PutReplyLost
    <3>3. \E s \in Subnet, e \in Event : Touched(s, e)
      BY <1>0, <3>1, <3>2, GrantTouches
    <3>4. Watching(m)' => Watching(m) /\ held'[m] = held[m]
      BY <2>5 DEF UpdateSubnet, CreateSubnet, BeginRunning, Renew, PutReplyLost, Watching, TypeOK
    <3> QED
      BY <3>3, <3>4, TouchedWord
  <2>6. CASE RevokeAndExit(n) \/ RevokeAndRetry(n)
    <3>1. (\E s \in Subnet, e \in Event : Touched(s, e)) \/ UNCHANGED <<kv, chan>>
      BY <1>0, <2>6, EndTouches DEF RevokeAndExit, RevokeAndRetry, Revoked
    <3>2. Watching(m)' => Watching(m) /\ held'[m] = held[m]
      BY <2>6 DEF RevokeAndExit, RevokeAndRetry, Forget, Watching, TypeOK
    <3> QED
      BY <3>1, <3>2, TouchedWord
  <2>7. CASE WatchGet(n)
    <3>1. /\ UNCHANGED <<kv, held>>
          /\ \A k \in Node : k # n => chan'[k] = chan[k] /\ watch'[k] = watch[k]
      BY <2>7 DEF WatchGet, etcd, TypeOK
    <3>2. CASE kv[held[n].subnet] = NoEntry
      BY <2>2, <2>7, <3>1, <3>2 DEF WatchGet, Watching, TypeOK
    <3>3. CASE kv[held[n].subnet] # NoEntry
      <4>1. chan'[n] = <<kv[held[n].subnet]>>
        BY <2>7, <3>3 DEF WatchGet, TypeOK
      <4>2. LastWord(n)'
        BY <3>1, <4>1 DEF LastWord
      <4> QED
        BY <2>1, <3>1, <4>2 DEF LastWord, Watching
    <3> QED
      BY <3>2, <3>3
  <2>8. CASE Adopt(n) \/ DropExpiredPut(n)
    <3>1. /\ chan[n] \in Seq(Event) /\ chan[n] # <<>> /\ Head(chan[n]) # NoEntry
          /\ UNCHANGED <<kv, pc>> /\ chan'[n] = Tail(chan[n])
          /\ \A k \in Node : k # n => chan'[k] = chan[k] /\ watch'[k] = watch[k] /\ held'[k] = held[k]
          /\ Watching(n)' => Watching(n)
      BY <2>8 DEF Adopt, DropExpiredPut, EventFor, NextEvent, etcd, TypeOK, Watching
    <3>2. pc[n] = "run" /\ held[n] \in [subnet : Subnet, ip : Node]
      BY <2>1, <2>8 DEF Adopt, DropExpiredPut, EventFor, InPhase, Holding, Running
    <3>3. held'[n].subnet = held[n].subnet
      BY <2>8, <3>2 DEF Adopt, DropExpiredPut, TypeOK
    <3>4. ASSUME Watching(n), Tail(chan[n]) = <<>>
          PROVE  kv[held[n].subnet] # NoEntry /\ kv[held[n].subnet].ip = held'[n].ip
      <4>1. Head(chan[n]) = kv[held[n].subnet]
        BY <2>1, <3>1, <3>4, TailLast DEF LastWord
      <4>2. CASE Adopt(n)
        BY <3>1, <3>2, <4>1, <4>2 DEF Adopt, TypeOK
      <4>3. CASE DropExpiredPut(n)
        BY <3>1, <3>2, <4>1, <4>3 DEF DropExpiredPut, LeasesOK
      <4> QED
        BY <2>8, <4>2, <4>3
    <3>5. ASSUME Watching(n), Tail(chan[n]) # <<>>
          PROVE  Tail(chan[n])[Len(Tail(chan[n]))] = kv[held[n].subnet]
      BY <2>1, <3>1, <3>5, TailLast DEF LastWord
    <3>6. LastWord(n)'
      BY <3>1, <3>3, <3>4, <3>5 DEF LastWord
    <3> QED
      BY <2>1, <3>1, <3>6 DEF LastWord, Watching
  <2> QED
    BY <1>1, StepCases, <2>3, <2>4, <2>5, <2>6, <2>7, <2>8
<1>2. ASSUME NEW l \in LeaseId, Expire(l), NEW m \in Node
      PROVE  LastWord(m)'
  <2>1. (\E s \in Subnet, e \in Event : Touched(s, e)) \/ UNCHANGED <<kv, chan>>
    BY <1>0, <1>2, EndTouches DEF Expire
  <2>2. UNCHANGED <<held, watch>>
    BY <1>2 DEF Expire
  <2> QED
    BY <2>1, <2>2, TouchedWord DEF Watching
<1>3. ASSUME NEW C \in Configs, Reconfigure(C)
      PROVE  StreamOK'
  BY <1>3 DEF Reconfigure, task, StreamOK, LastWord, Watching
<1>4. CASE UNCHANGED vars
  BY <1>4 DEF vars, StreamOK, LastWord, Watching
<1> QED
  BY <1>1, <1>2, <1>3, <1>4 DEF Next, StreamOK

\* A daemon whose watch is up and drained agrees with etcd on its registration,
\* with any number of hosts and leases and under every fault: the last event that
\* waits for it is the key's value, and only that event can be the last one handled.
THEOREM WatchSync == Spec => []WatchInSync
<1> DEFINE IInv == TypeOK /\ PhaseOK /\ LeasesOK /\ StreamOK
<1>1. Init => IInv
  <2> SUFFICES ASSUME Init PROVE LeasesOK /\ StreamOK
    BY Initially
  <2> QED
    BY DEF Init, LeasesOK, StreamOK, LastWord, Watching
<1>2. IInv /\ [Next]_vars => IInv'
  BY TypeStep, PhaseStep, LeasesStep, StreamStep
<1>3. IInv => WatchInSync
  BY DEF StreamOK, LastWord, WatchInSync
<1> QED
  BY <1>1, <1>2, <1>3, PTL DEF Spec

(***************************************************************************)
(* Ownership, when no lease ends under a host that counts on it and no     *)
(* reply to a put is lost. A daemon that is about to reuse a registration, *)
(* or runs with one, is the host that registration names; so is a daemon   *)
(* whose snapshot of the keys holds its own name.                          *)
(***************************************************************************)

Reliable == Faults \subseteq {"rpc"}

RegisteredTo(n, s) == kv[s] # NoEntry /\ kv[s].ip = n

Owns(n) ==
  /\ pc[n] \notin {"revoke", "renewrevoke"}
  /\ pc[n] \in {"update", "create", "run"} => held[n].ip = n
  /\ pc[n] \in {"update", "run"} => RegisteredTo(n, held[n].subnet)
  /\ pc[n] = "ttl" =>
       \A s \in Subnet : snap[n][s] # NoEntry /\ snap[n][s].ip = n => RegisteredTo(n, s)
  /\ \A i \in 1..Len(chan[n]) : chan[n][i] # NoEntry /\ chan[n][i].ip = n

OwnerOK == \A n \in Node : Owns(n)

\* No host loses a registration it counts on.
Kept ==
  \A s \in Subnet, n \in Node : RegisteredTo(n, s) /\ CountsOn(n, s) => RegisteredTo(n, s)'

\* A put of a host's own name on a key nobody else has takes nothing from anyone.
LEMMA PutKeeps ==
  ASSUME TypeOK, NEW s \in Subnet, NEW n \in Node, NEW l \in LeaseId, GrantAndPut(s, n, l),
         kv[s] = NoEntry \/ kv[s].ip = n
  PROVE  /\ Kept
         /\ \E t \in Subnet, e \in Event : Touched(t, e)
         /\ RegisteredTo(n, s)'
<1>1. Touched(s, [ip |-> n, lease |-> l]) /\ [ip |-> n, lease |-> l] \in Event
  BY GrantTouches DEF Event, Entry
<1>2. kv' = [kv EXCEPT ![s] = [ip |-> n, lease |-> l]] /\ kv \in [Subnet -> Event]
  BY <1>1 DEF Touched, TypeOK
<1>3. [ip |-> n, lease |-> l] # NoEntry
  BY NoEntryAssumption DEF Entry
<1>4. RegisteredTo(n, s)'
  BY <1>2, <1>3 DEF RegisteredTo
<1>5. ASSUME NEW t \in Subnet, NEW m \in Node, RegisteredTo(m, t)
      PROVE  RegisteredTo(m, t)'
  BY <1>2, <1>4, <1>5 DEF RegisteredTo
<1> QED
  BY <1>1, <1>4, <1>5 DEF Kept

\* A host that only looks on while the keys change.
LEMMA BystanderOwns ==
  ASSUME TypeOK, PhaseOK, OwnerOK, Kept, NEW m \in Node,
         \/ \E s \in Subnet, e \in Event : Touched(s, e)
         \/ UNCHANGED <<kv, chan[m]>>,
         UNCHANGED <<pc[m], held[m], snap[m]>>
  PROVE  Owns(m)'
<1>1. Owns(m) /\ InPhase(m) /\ chan[m] \in Seq(Event)
  BY DEF OwnerOK, PhaseOK, TypeOK
<1>2. \A s \in Subnet : pc[m] = "ttl" => CountsOn(m, s)
  BY DEF CountsOn
<1>3. pc[m] \in {"update", "run"} => held[m].subnet \in Subnet /\ CountsOn(m, held[m].subnet)
  BY <1>1 DEF CountsOn, InPhase, Holding, Running
<1>4. /\ pc[m] \in {"update", "run"} => RegisteredTo(m, held[m].subnet)'
      /\ pc[m] = "ttl" =>
           \A s \in Subnet : snap[m][s] # NoEntry /\ snap[m][s].ip = m => RegisteredTo(m, s)'
  BY <1>1, <1>2, <1>3 DEF Owns, Kept, RegisteredTo
<1>5. \A i \in 1..Len(chan'[m]) : chan'[m][i] # NoEntry /\ chan'[m][i].ip = m
  <2>1. CASE chan'[m] = chan[m]
    BY <1>1, <2>1 DEF Owns
  <2>2. ASSUME NEW s \in Subnet, NEW e \in Event, Touched(s, e), m \in Watchers(s)
        PROVE  \A i \in 1..Len(chan'[m]) : chan'[m][i] # NoEntry /\ chan'[m][i].ip = m
    <3>1. pc[m] = "run" /\ held[m].subnet = s
      BY <1>1, <2>2 DEF Watchers, InPhase, Owns, Running
    <3>2. kv'[s] = e
      BY <2>2 DEF Touched, TypeOK
    <3>3. e # NoEntry /\ e.ip = m
      BY <1>4, <3>1, <3>2 DEF RegisteredTo
    <3>4. /\ Len(chan'[m]) = Len(chan[m]) + 1 /\ chan'[m][Len(chan[m]) + 1] = e
          /\ \A i \in 1..Len(chan[m]) : chan'[m][i] = chan[m][i]
      BY <2>2 DEF Touched
    <3>5. \A i \in 1..(Len(chan[m]) + 1) : i \in 1..Len(chan[m]) \/ i = Len(chan[m]) + 1
      BY <1>1
    <3> QED
      BY <1>1, <3>3, <3>4, <3>5 DEF Owns
  <2> QED
    BY <2>1, <2>2 DEF Touched
<1> QED
  BY <1>1, <1>4, <1>5 DEF Owns, RegisteredTo

\* A step that leaves the keys alone.
LEMMA SameKeysKept ==
  ASSUME UNCHANGED kv
  PROVE  Kept
  BY DEF Kept, RegisteredTo

\* A step of host n leaves the others' registrations alone, and its own sound.
LEMMA NodeStepOwns ==
  ASSUME Reliable, TypeOK, PhaseOK, OwnerOK, NEW n \in Node, NodeStep(n)
  PROVE  OwnerOK' /\ Kept
<1>1. Owns(n) /\ InPhase(n)
  BY DEF OwnerOK, PhaseOK
<1>2. ~PutReplyLost(n) /\ ~RevokeAndExit(n) /\ ~RevokeAndRetry(n)
  BY <1>1 DEF Reliable, PutReplyLost, RevokeAndExit, RevokeAndRetry, At, Owns
<1>3. ASSUME UNCHANGED kv, Owns(n)',
             \A m \in Node : m # n => UNCHANGED <<chan[m], pc[m], held[m], snap[m]>>
      PROVE  OwnerOK' /\ Kept
  BY <1>3, SameKeysKept, BystanderOwns DEF OwnerOK
<1>4. CASE Exit(n)
  <2>1. Owns(n)'
    BY <1>4 DEF Exit, Forget, Owns, TypeOK
  <2> QED
    BY <1>3, <1>4, <2>1 DEF Exit, Forget, ForgetSnapshot, etcd, TypeOK
<1>5. CASE Start(n) \/ ReadConfig(n) \/ QueryTtl(n) \/ TtlQueryFails(n)
  <2>1. /\ UNCHANGED <<kv, chan, held, snap>>
        /\ pc'[n] \in {"config", "range", pc[n]} /\ \A m \in Node : m # n => pc'[m] = pc[m]
    BY <1>5 DEF Start, ReadConfig, QueryTtl, TtlQueryFails, At, etcd, snapshot, task, TypeOK
  <2>2. Owns(n)'
    BY <1>1, <2>1 DEF Owns, RegisteredTo
  <2> QED
    BY <1>3, <2>1, <2>2
<1>6. CASE RangeRead(n)
  <2>1. Owns(n)'
    BY <1>1, <1>6 DEF RangeRead, At, Owns, RegisteredTo, etcd, task, TypeOK
  <2> QED
    BY <1>3, <1>6, <2>1 DEF RangeRead, At, etcd, task, TypeOK
<1>7. CASE Reuse(n)
  <2>1. PICK s \in cfg[n] : IsOwn(n, s) /\ AimAt(n, s)
    BY <1>7 DEF Reuse
  <2>2. s \in seen[n] /\ snap[n][s].ip = n /\ snap[n][s] # NoEntry /\ s \in Subnet
    BY <1>1, <2>1 DEF IsOwn, IsFirst, InPhase, TypeOK
  <2>3. RegisteredTo(n, s)
    BY <1>1, <1>7, <2>2 DEF Reuse, At, Owns
  <2>4. held'[n] = [subnet |-> s, ip |-> n] /\ pc'[n] = "update" /\ UNCHANGED <<kv, chan>>
    BY <1>7, <2>1 DEF Reuse, At, AimAt, etcd, task, TypeOK
  <2>5. Owns(n)'
    BY <1>1, <2>3, <2>4 DEF Owns, RegisteredTo
  <2> QED
    BY <1>3, <1>7, <2>1, <2>5 DEF Reuse, At, AimAt, ForgetSnapshot, etcd, task, TypeOK
<1>8. CASE Allocate(n)
  <2>1. PICK s \in Free(n) : AimAt(n, s)
    BY <1>8 DEF Allocate
  <2>2. held'[n] = [subnet |-> s, ip |-> n] /\ pc'[n] = "create" /\ UNCHANGED <<kv, chan>>
    BY <1>8, <2>1 DEF Allocate, At, AimAt, etcd, task, TypeOK
  <2>3. Owns(n)'
    BY <1>1, <2>2 DEF Owns
  <2> QED
    BY <1>3, <1>8, <2>1, <2>3 DEF Allocate, At, AimAt, ForgetSnapshot, etcd, task, TypeOK
<1>9. CASE UpdateSubnet(n) \/ CreateSubnet(n) \/ Renew(n)
  <2>1. /\ held[n].subnet \in Subnet /\ held[n].ip = n
        /\ kv[held[n].subnet] = NoEntry \/ kv[held[n].subnet].ip = n
    BY <1>1, <1>9 DEF UpdateSubnet, CreateSubnet, Renew, At, InPhase, Holding, Running, Owns,
                      RegisteredTo
  <2>2. \E l \in LeaseId : GrantAndPut(held[n].subnet, n, l)
    BY <1>9, <2>1 DEF UpdateSubnet, CreateSubnet, Renew
  <2>3. /\ Kept /\ RegisteredTo(n, held[n].subnet)'
        /\ \E t \in Subnet, e \in Event : Touched(t, e)
    <3>1. PICK s \in Subnet : /\ s = held[n].subnet
                              /\ kv[s] = NoEntry \/ kv[s].ip = n
                              /\ \E l \in LeaseId : GrantAndPut(s, n, l)
      BY <2>1, <2>2
    <3>2. PICK l \in LeaseId : GrantAndPut(s, n, l)
      BY <3>1
    <3>3. /\ Kept /\ RegisteredTo(n, s)'
          /\ \E t \in Subnet, e \in Event : Touched(t, e)
      BY <3>1, <3>2, PutKeeps
    <3>4. held' = held
      BY <1>9 DEF UpdateSubnet, CreateSubnet, Renew
    <3> QED
      BY <3>1, <3>3, <3>4 DEF RegisteredTo
  <2>4. /\ UNCHANGED <<held, snap>> /\ pc'[n] = "run"
        /\ \A m \in Node : m # n => pc'[m] = pc[m]
    BY <1>9 DEF UpdateSubnet, CreateSubnet, Renew, At, snapshot, TypeOK
  <2>5. \A m \in Node : m # n => Owns(m)'
    BY <2>3, <2>4, BystanderOwns
  <2>6. Owns(n)'
    <3>1. CASE Renew(n)
      BY <2>3, <2>4, <3>1, BystanderOwns DEF Renew
    <3>2. CASE UpdateSubnet(n) \/ CreateSubnet(n)
      <4>1. chan[n] = <<>> /\ watch[n] = "none"
        BY <1>1, <3>2 DEF UpdateSubnet, CreateSubnet, At, InPhase, Running
      <4>2. chan'[n] = <<>>
        BY <2>3, <4>1 DEF Touched, Watchers
      <4> QED
        BY <2>1, <2>3, <2>4, <4>2 DEF Owns, RegisteredTo
    <3> QED
      BY <1>9, <3>1, <3>2
  <2> QED
    BY <2>3, <2>5, <2>6 DEF OwnerOK
<1>10. CASE WatchGet(n)
  <2>1. /\ UNCHANGED <<kv, pc, held, snap>>
        /\ chan'[n] \in {chan[n], <<kv[held[n].subnet]>>}
        /\ \A m \in Node : m # n => chan'[m] = chan[m]
    BY <1>10 DEF WatchGet, etcd, snapshot, TypeOK
  <2>2. pc[n] = "run"
    BY <1>1, <1>10 DEF WatchGet, InPhase, Running, Owns
  <2>3. Owns(n)'
    BY <1>1, <2>1, <2>2 DEF Owns, RegisteredTo
  <2> QED
    BY <1>3, <2>1, <2>3
<1>11. CASE WatchFails(n) \/ WatchPanics(n) \/ DropExpiredPut(n) \/ Adopt(n)
  <2>1. /\ UNCHANGED <<kv, pc, snap>>
        /\ \A m \in Node : m # n => chan'[m] = chan[m] /\ held'[m] = held[m]
    BY <1>11 DEF WatchFails, WatchPanics, DropExpiredPut, Adopt, NextEvent, etcd, snapshot, TypeOK
  <2>2. chan[n] \in Seq(Event)
    BY DEF TypeOK
  <2>3. \A i \in 1..Len(chan'[n]) : chan'[n][i] # NoEntry /\ chan'[n][i].ip = n
    <3>1. CASE WatchFails(n)
      <4>1. PICK k \in 0..Len(chan[n]) : chan'[n] = SubSeq(chan[n], 1, k)
        BY <3>1 DEF WatchFails, TypeOK
      <4>2. Len(chan'[n]) = k /\ \A i \in 1..k : chan'[n][i] = chan[n][i] /\ i \in 1..Len(chan[n])
        BY <2>2, <4>1
      <4> QED
        BY <1>1, <4>2 DEF Owns
    <3>2. CASE WatchPanics(n)
      BY <3>2 DEF WatchPanics, TypeOK
    <3>3. CASE DropExpiredPut(n) \/ Adopt(n)
      <4>1. chan'[n] = Tail(chan[n]) /\ chan[n] # <<>>
        BY <3>3 DEF DropExpiredPut, Adopt, EventFor, NextEvent, TypeOK
      <4>2. /\ Len(chan'[n]) = Len(chan[n]) - 1
            /\ \A i \in 1..Len(chan'[n]) : chan'[n][i] = chan[n][i + 1] /\ i + 1 \in 1..Len(chan[n])
        BY <2>2, <4>1
      <4> QED
        BY <1>1, <4>2 DEF Owns
    <3> QED
      BY <1>11, <3>1, <3>2, <3>3
  <2>4. held'[n] = held[n]
    <3>1. CASE Adopt(n)
      <4>1. held[n] \in [subnet : Subnet, ip : Node] /\ held[n].ip = n
        BY <1>1, <3>1 DEF Adopt, EventFor, InPhase, Holding, Running, Owns
      <4>2. Head(chan[n]).ip = n
        <5>1. 1 \in 1..Len(chan[n]) /\ Head(chan[n]) = chan[n][1]
          BY <2>2, <3>1 DEF Adopt, EventFor
        <5> QED
          BY <1>1, <5>1 DEF Owns
      <4>3. held'[n] = [held[n] EXCEPT !.ip = Head(chan[n]).ip]
        BY <3>1 DEF Adopt, TypeOK
      <4> QED
        BY <4>1, <4>2, <4>3
    <3> QED
      BY <1>11, <3>1 DEF WatchFails, WatchPanics, DropExpiredPut
  <2>5. Owns(n)'
    BY <1>1, <2>1, <2>3, <2>4 DEF Owns, RegisteredTo
  <2> QED
    BY <1>3, <2>1, <2>5
<1> QED
  BY StepCases, <1>2, <1>4, <1>5, <1>6, <1>7, <1>8, <1>9, <1>10, <1>11

\* A step keeps every host in possession of what it counts on.
LEMMA OwnerStep ==
  ASSUME Reliable, TypeOK, PhaseOK, OwnerOK, [Next]_vars
  PROVE  OwnerOK'
<1>1. ASSUME NEW l \in LeaseId, Expire(l)
      PROVE  OwnerOK'
  <2>1. /\ (\E s \in Subnet, e \in Event : Touched(s, e)) \/ UNCHANGED <<kv, chan>>
        /\ \A s \in Subnet : kv'[s] = kv[s] \/ AttachedTo(s, l)
    BY <1>1, EndTouches DEF Expire, Touched, Event, TypeOK
  <2>2. \A s \in Subnet : AttachedTo(s, l) => ~CountsOn(kv[s].ip, s)
    BY <1>1 DEF Expire, Reliable
  <2>3. Kept
    BY <2>1, <2>2 DEF Kept, RegisteredTo
  <2> QED
    BY <1>1, <2>1, <2>3, BystanderOwns DEF Expire, snapshot, OwnerOK
<1>2. ASSUME NEW C \in Configs, Reconfigure(C)
      PROVE  OwnerOK'
  BY <1>2, SameKeysKept, BystanderOwns DEF Reconfigure, snapshot, task, OwnerOK
<1>3. CASE UNCHANGED vars
  BY <1>3, SameKeysKept, BystanderOwns DEF vars, OwnerOK
<1> QED
  BY <1>1, <1>2, <1>3, NodeStepOwns DEF Next

\* At first no host counts on anything.
LEMMA OwnerInit ==
  ASSUME Init
  PROVE  OwnerOK
<1>1. \A n \in Node : chan[n] = <<>>
  BY DEF Init
<1>2. 1..Len(<<>>) = {}
  BY EmptySeq
<1> QED
  BY <1>1, <1>2 DEF Init, OwnerOK, Owns

\* Two running daemons never hold the same subnet, for any number of hosts and
\* however they are killed, restarted, reconfigured and cut off, as long as leases
\* outlive the hosts that count on them and no reply to a put is lost.
THEOREM MutualExclusion == ASSUME Reliable PROVE Spec => []Exclusive
<1> DEFINE IInv == TypeOK /\ PhaseOK /\ OwnerOK
<1>1. Init => IInv
  BY Initially, OwnerInit
<1>2. IInv /\ [Next]_vars => IInv'
  BY TypeStep, PhaseStep, OwnerStep
<1>3. IInv => Exclusive
  BY DEF OwnerOK, Owns, RegisteredTo, Exclusive, Running
<1> QED
  BY <1>1, <1>2, <1>3, PTL DEF Spec

(***************************************************************************)
(* One registration per host, when nothing fails and the configuration     *)
(* stays. What a starting daemon knows of the keys stays true while it     *)
(* looks at them one by one: no other host registers its name, and leases  *)
(* it counts on do not end.                                                *)
(***************************************************************************)

Settled == Faults = {} /\ \E C : Configs = {C}

Knows(n) ==
  /\ pc[n] \in {"range", "ttl"} => cfg[n] = config
  /\ pc[n] = "ttl" =>
       \A s \in Subnet : RegisteredTo(n, s) => s \in todo[n] \cup seen[n] /\ snap[n][s].ip = n
  /\ pc[n] = "create" => /\ held[n].subnet \in config
                         /\ \A s \in Subnet : ~RegisteredTo(n, s)

KeysOK ==
  /\ \A n \in Node : Knows(n)
  /\ \A s \in Subnet : kv[s] # NoEntry => s \in config
  /\ OneSubnetPerNode

\* No key comes to name the host m.
NoNewKey(m) == \A s \in Subnet : RegisteredTo(m, s)' => RegisteredTo(m, s)

\* A host that only looks on, and whose name is put nowhere.
LEMMA BystanderKnows ==
  ASSUME NEW m \in Node, Knows(m), NoNewKey(m),
         UNCHANGED <<config, pc[m], cfg[m], held[m], snap[m], todo[m], seen[m]>>
  PROVE  Knows(m)'
  BY DEF Knows, NoNewKey, RegisteredTo

\* A step that registers nothing.
LEMMA FewerKeys ==
  ASSUME TypeOK, KeysOK, kv' \in [Subnet -> Event], UNCHANGED config,
         \A s \in Subnet : kv'[s] \in {kv[s], NoEntry}
  PROVE  /\ \A m \in Node : NoNewKey(m)
         /\ (\A s \in Subnet : kv[s] # NoEntry => s \in config)'
         /\ OneSubnetPerNode'
<1>1. \A m \in Node : NoNewKey(m)
  BY DEF NoNewKey, RegisteredTo
<1>2. (\A s \in Subnet : kv[s] # NoEntry => s \in config)'
  BY DEF KeysOK
<1>3. OneSubnetPerNode'
  BY DEF KeysOK, OneSubnetPerNode
<1> QED
  BY <1>1, <1>2, <1>3

\* A put of a host's name on the only key that names it, or when none does.
LEMMA PutOneKey ==
  ASSUME TypeOK, KeysOK, NEW n \in Node, NEW s \in Subnet, NEW l \in LeaseId,
         GrantAndPut(s, n, l), s \in config, UNCHANGED config,
         \A t \in Subnet : RegisteredTo(n, t) => t = s
  PROVE  /\ \A m \in Node : m # n => NoNewKey(m)
         /\ (\A t \in Subnet : kv[t] # NoEntry => t \in config)'
         /\ OneSubnetPerNode'
<1>1. kv' = [kv EXCEPT ![s] = [ip |-> n, lease |-> l]] /\ kv \in [Subnet -> Event]
  <2>1. Touched(s, [ip |-> n, lease |-> l])
    BY GrantTouches
  <2> QED
    BY <2>1 DEF Touched, TypeOK
<1>2. kv'[s].ip = n /\ \A t \in Subnet : t # s => kv'[t] = kv[t]
  BY <1>1
<1>3. \A m \in Node : m # n => NoNewKey(m)
  BY <1>2 DEF NoNewKey, RegisteredTo
<1>4. (\A t \in Subnet : kv[t] # NoEntry => t \in config)'
  BY <1>2 DEF KeysOK
<1>5. ASSUME NEW t \in Subnet, kv'[t] # NoEntry, kv'[t].ip = n
      PROVE  t = s
  BY <1>2, <1>5 DEF RegisteredTo
<1>6. ASSUME NEW t \in Subnet, NEW u \in Subnet,
             kv'[t] # NoEntry, kv'[u] # NoEntry, kv'[t].ip = kv'[u].ip
      PROVE  t = u
  <2>1. CASE kv'[t].ip = n
    BY <1>5, <1>6, <2>1
  <2>2. CASE kv'[t].ip # n
    BY <1>2, <1>6, <2>2 DEF KeysOK, OneSubnetPerNode
  <2> QED
    BY <2>1, <2>2
<1>7. OneSubnetPerNode'
  BY <1>6 DEF OneSubnetPerNode
<1> QED
  BY <1>3, <1>4, <1>7

\* With every key looked at, a daemon that finds none it can use is named by none.
LEMMA NoneFound ==
  ASSUME TypeOK, PhaseOK, OwnerOK, KeysOK,
         NEW n \in Node, pc[n] = "ttl", todo[n] = {}, ~Reusable(n)
  PROVE  \A s \in Subnet : ~RegisteredTo(n, s)
<1> SUFFICES ASSUME NEW s \in Subnet, RegisteredTo(n, s)
             PROVE  FALSE
  OBVIOUS
<1>1. Knows(n) /\ InPhase(n) /\ Owns(n)
  BY DEF KeysOK, PhaseOK, OwnerOK
<1>2. s \in seen[n] /\ snap[n][s].ip = n /\ s \in cfg[n]
  BY <1>1 DEF Knows, KeysOK, RegisteredTo
<1>3. ASSUME NEW t \in seen[n], snap[n][t].ip = n
      PROVE  t = s
  <2>1. t \in Subnet /\ snap[n][t] # NoEntry
    BY <1>1 DEF InPhase, TypeOK
  <2>2. RegisteredTo(n, t)
    BY <1>1, <1>3, <2>1 DEF Owns
  <2> QED
    BY <2>1, <2>2 DEF RegisteredTo, KeysOK, OneSubnetPerNode
<1>4. s <= s
  BY SubnetAssumption
<1>5. IsOwn(n, s)
  BY <1>2, <1>3, <1>4 DEF IsOwn, IsFirst
<1> QED
  BY <1>2, <1>5 DEF Reusable

\* A step of host n leaves every host with one registration at most, and keeps
\* what the starting daemons know of the keys true.
LEMMA NodeStepKeys ==
  ASSUME Settled, TypeOK, PhaseOK, OwnerOK, KeysOK, NEW n \in Node, NodeStep(n)
  PROVE  KeysOK'
<1>1. /\ Knows(n) /\ Owns(n) /\ InPhase(n)
      /\ \A m \in Node : Knows(m)
  BY DEF KeysOK, OwnerOK, PhaseOK
<1>2. /\ ~PutReplyLost(n) /\ ~RevokeAndExit(n) /\ ~RevokeAndRetry(n)
      /\ ~TtlQueryFails(n) /\ ~WatchFails(n)
  BY <1>1 DEF Settled, PutReplyLost, RevokeAndExit, RevokeAndRetry, TtlQueryFails, WatchFails, At, Owns
<1>3. ASSUME UNCHANGED <<config, kv>>, Knows(n)',
             \A m \in Node : m # n =>
               UNCHANGED <<pc[m], cfg[m], held[m], snap[m], todo[m], seen[m]>>
      PROVE  KeysOK'
  <2>1. /\ \A m \in Node : NoNewKey(m)
        /\ (\A s \in Subnet : kv[s] # NoEntry => s \in config)'
        /\ OneSubnetPerNode'
    BY <1>3, FewerKeys DEF TypeOK
  <2>2. ASSUME NEW m \in Node, m # n
        PROVE  Knows(m)'
    BY <1>1, <1>3, <2>1, <2>2, BystanderKnows
  <2> QED
    BY <1>3, <2>1, <2>2 DEF KeysOK
<1>4. CASE Exit(n)
  <2>1. Knows(n)'
    BY <1>4 DEF Exit, Forget, Knows, TypeOK
  <2> QED
    BY <1>3, <1>4, <2>1 DEF Exit, Forget, ForgetSnapshot, etcd, TypeOK
<1>5. CASE Start(n) \/ ReadConfig(n)
  <2>1. Knows(n)'
    BY <1>5 DEF Start, ReadConfig, At, Knows, etcd, snapshot, TypeOK
  <2> QED
    BY <1>3, <1>5, <2>1 DEF Start, ReadConfig, At, etcd, snapshot, TypeOK
<1>6. CASE RangeRead(n)
  <2>1. cfg[n] = config
    BY <1>1, <1>6 DEF RangeRead, At, Knows
  <2>2. Knows(n)'
    BY <1>6, <2>1 DEF RangeRead, At, Knows, RegisteredTo, etcd, TypeOK
  <2> QED
    BY <1>3, <1>6, <2>2 DEF RangeRead, At, etcd, TypeOK
<1>7. CASE QueryTtl(n)
  <2>1. PICK s \in Subnet : /\ todo' = [todo EXCEPT ![n] = @ \ {s}]
                            /\ seen' = [seen EXCEPT ![n] = @ \cup {s}]
    BY <1>7 DEF QueryTtl
  <2>2. todo[n] \cup seen[n] \subseteq todo'[n] \cup seen'[n]
    BY <2>1 DEF TypeOK
  <2>3. Knows(n)'
    BY <1>1, <1>7, <2>2 DEF QueryTtl, Knows, RegisteredTo, etcd
  <2> QED
    BY <1>3, <1>7, <2>1, <2>3 DEF QueryTtl, etcd, TypeOK
<1>8. CASE Reuse(n)
  <2>1. pc'[n] = "update" /\ UNCHANGED <<config, kv>>
    BY <1>8 DEF Reuse, At, AimAt, etcd, TypeOK
  <2>2. Knows(n)'
    BY <2>1 DEF Knows
  <2> QED
    BY <1>3, <1>8, <2>1, <2>2 DEF Reuse, At, AimAt, ForgetSnapshot, TypeOK
<1>9. CASE Allocate(n)
  <2>1. \A s \in Subnet : ~RegisteredTo(n, s)
    BY <1>9, NoneFound DEF Allocate, At
  <2>2. PICK s \in Free(n) : AimAt(n, s)
    BY <1>9 DEF Allocate
  <2>3. s \in config
    BY <1>1, <1>9, <2>2 DEF Free, Allocate, At, Knows
  <2>4. held'[n] = [subnet |-> s, ip |-> n] /\ pc'[n] = "create" /\ UNCHANGED <<config, kv>>
    BY <1>9, <2>2 DEF Allocate, At, AimAt, etcd, TypeOK
  <2>5. Knows(n)'
    BY <2>1, <2>3, <2>4 DEF Knows, RegisteredTo
  <2> QED
    BY <1>3, <1>9, <2>2, <2>4, <2>5 DEF Allocate, At, AimAt, ForgetSnapshot, TypeOK
<1>10. CASE UpdateSubnet(n) \/ CreateSubnet(n) \/ Renew(n)
  <2>1. held[n].subnet \in Subnet
    BY <1>1, <1>10 DEF UpdateSubnet, CreateSubnet, Renew, At, InPhase, Holding, Running
  <2>2. \E l \in LeaseId : GrantAndPut(held[n].subnet, n, l)
    BY <1>1, <1>10 DEF UpdateSubnet, CreateSubnet, Renew, Owns
  <2>3. /\ held[n].subnet \in config
        /\ \A t \in Subnet : RegisteredTo(n, t) => t = held[n].subnet
    <3>1. CASE CreateSubnet(n)
      BY <1>1, <3>1 DEF CreateSubnet, At, Knows
    <3>2. CASE UpdateSubnet(n) \/ Renew(n)
      <4>1. RegisteredTo(n, held[n].subnet)
        BY <1>1, <3>2 DEF UpdateSubnet, Renew, At, Owns
      <4> QED
        BY <2>1, <4>1 DEF RegisteredTo, KeysOK, OneSubnetPerNode
    <3> QED
      BY <1>10, <3>1, <3>2
  <2>4. /\ pc'[n] = "run" /\ UNCHANGED <<config, cfg, held, snap, todo, seen>>
        /\ \A m \in Node : m # n => pc'[m] = pc[m]
    BY <1>10 DEF UpdateSubnet, CreateSubnet, Renew, At, snapshot, TypeOK
  <2>5. /\ \A m \in Node : m # n => NoNewKey(m)
        /\ (\A t \in Subnet : kv[t] # NoEntry => t \in config)'
        /\ OneSubnetPerNode'
    BY <2>1, <2>2, <2>3, <2>4, PutOneKey
  <2>6. ASSUME NEW m \in Node, m # n
        PROVE  Knows(m)'
    BY <1>1, <2>4, <2>5, <2>6, BystanderKnows
  <2>7. Knows(n)'
    BY <2>4 DEF Knows
  <2> QED
    BY <2>5, <2>6, <2>7 DEF KeysOK
<1>11. CASE WatchGet(n) \/ WatchPanics(n) \/ DropExpiredPut(n)
  <2>1. UNCHANGED <<config, kv, pc, cfg, held, snap, todo, seen>>
    BY <1>11 DEF WatchGet, WatchPanics, DropExpiredPut, etcd, snapshot
  <2>2. Knows(n)'
    BY <1>1, <2>1 DEF Knows, RegisteredTo
  <2> QED
    BY <1>3, <2>1, <2>2
<1>12. CASE Adopt(n)
  <2>1. /\ UNCHANGED <<config, kv, pc, cfg, snap, todo, seen>> /\ pc[n] = "run"
        /\ \A m \in Node : m # n => held'[m] = held[m]
    BY <1>12 DEF Adopt, EventFor, etcd, snapshot, TypeOK
  <2>2. Knows(n)'
    BY <2>1 DEF Knows
  <2> QED
    BY <1>3, <2>1, <2>2
<1> QED
  BY StepCases, <1>2, <1>4, <1>5, <1>6, <1>7, <1>8, <1>9, <1>10, <1>11, <1>12

\* So does every step: an expiry only takes away, and nothing is reconfigured.
LEMMA KeysStep ==
  ASSUME Settled, TypeOK, PhaseOK, OwnerOK, KeysOK, [Next]_vars
  PROVE  KeysOK'
<1>1. ASSUME NEW l \in LeaseId, Expire(l)
      PROVE  KeysOK'
  <2>1. kv' \in [Subnet -> Event] /\ \A s \in Subnet : kv'[s] \in {kv[s], NoEntry}
    BY <1>1, EndTouches DEF Expire, Touched, TypeOK
  <2>2. UNCHANGED <<config, pc, cfg, held, snap, todo, seen>>
    BY <1>1 DEF Expire, snapshot
  <2>3. /\ \A m \in Node : NoNewKey(m)
        /\ (\A s \in Subnet : kv[s] # NoEntry => s \in config)'
        /\ OneSubnetPerNode'
    BY <2>1, <2>2, FewerKeys
  <2>4. ASSUME NEW m \in Node
        PROVE  Knows(m)'
    BY <2>2, <2>3, BystanderKnows DEF KeysOK
  <2> QED
    BY <2>3, <2>4 DEF KeysOK
<1>2. ASSUME NEW C \in Configs, Reconfigure(C)
      PROVE  FALSE
  BY <1>2 DEF Settled, Reconfigure, TypeOK
<1>3. CASE UNCHANGED vars
  BY <1>3 DEF vars, KeysOK, Knows, RegisteredTo, OneSubnetPerNode
<1> QED
  BY <1>1, <1>2, <1>3, NodeStepKeys DEF Next

\* No host ever has two registrations, for any number of hosts and however they
\* are killed and restarted: acquire_lease finds the one it has. Nothing fails and
\* the configuration stays, as in the run that checks it.
THEOREM OneRegistration == ASSUME Settled PROVE Spec => []OneSubnetPerNode
<1> DEFINE IInv == TypeOK /\ PhaseOK /\ OwnerOK /\ KeysOK
<1>1. Init => IInv
  <2>1. Init => KeysOK
    BY DEF Init, KeysOK, Knows, OneSubnetPerNode
  <2> QED
    BY <2>1, Initially, OwnerInit
<1>2. IInv /\ [Next]_vars => IInv'
  <2>1. Reliable
    BY DEF Settled, Reliable
  <2> QED
    BY <2>1, TypeStep, PhaseStep, OwnerStep, KeysStep
<1>3. IInv => OneSubnetPerNode
  BY DEF KeysOK
<1> QED
  BY <1>1, <1>2, <1>3, PTL DEF Spec

(***************************************************************************)
(* Refinement of SubnetOwnership                                           *)
(***************************************************************************)

OwnerOf(s) == IF kv[s] = NoEntry THEN NoEntry ELSE kv[s].ip
Used(n) == IF pc[n] \in Running THEN held[n].subnet ELSE NoEntry

owners == [s \in Subnet |-> OwnerOf(s)]
users == [n \in Node |-> Used(n)]

\* A step that neither changes a registration's host nor starts or stops one.
LEMMA Stutters ==
  ASSUME \A s \in Subnet : OwnerOf(s)' = OwnerOf(s),
         \A n \in Node : Used(n)' = Used(n)
  PROVE  UNCHANGED <<owners, users>>
  BY DEF owners, users

\* A step of a host is one of SubnetOwnership, or invisible to it.
LEMMA NodeStepRefines ==
  ASSUME Reliable, TypeOK, PhaseOK, OwnerOK, NEW n \in Node, NodeStep(n)
  PROVE  [Ownership!Next]_<<owners, users>>
<1>1. Owns(n) /\ InPhase(n)
  BY DEF OwnerOK, PhaseOK
<1>2. ~PutReplyLost(n) /\ ~RevokeAndExit(n) /\ ~RevokeAndRetry(n)
  BY <1>1 DEF Reliable, PutReplyLost, RevokeAndExit, RevokeAndRetry, At, Owns
<1>3. CASE Exit(n)
  <2>1. /\ UNCHANGED kv /\ pc'[n] = "down"
        /\ \A m \in Node : m # n => pc'[m] = pc[m] /\ held'[m] = held[m]
    BY <1>3 DEF Exit, Forget, etcd, TypeOK
  <2>2. UNCHANGED owners
    BY <2>1 DEF owners, OwnerOf
  <2>3. Used(n)' = NoEntry /\ \A m \in Node : m # n => Used(m)' = Used(m)
    BY <2>1 DEF Used, Running
  <2>4. users' = [users EXCEPT ![n] = NoEntry]
    BY <2>3 DEF users
  <2>5. CASE users[n] = NoEntry
    BY <2>2, <2>4, <2>5 DEF users
  <2>6. CASE users[n] # NoEntry
    <3>1. Ownership!Stop(n)
      BY <2>2, <2>4, <2>6 DEF Ownership!Stop, owners, users, OwnerOf, Used
    <3> QED
      BY <3>1 DEF Ownership!Next
  <2> QED
    BY <2>5, <2>6
<1>4. CASE UpdateSubnet(n) \/ CreateSubnet(n)
  <2>1. PICK s \in Subnet : /\ s = held[n].subnet
                            /\ kv[s] = NoEntry \/ kv[s].ip = n
                            /\ \E l \in LeaseId : GrantAndPut(s, n, l)
    BY <1>1, <1>4 DEF UpdateSubnet, CreateSubnet, At, InPhase, Holding, Running, Owns, RegisteredTo
  <2>2. PICK l \in LeaseId : Touched(s, [ip |-> n, lease |-> l])
    BY <2>1, GrantTouches
  <2>3. [ip |-> n, lease |-> l] # NoEntry
    BY NoEntryAssumption DEF Entry
  <2>4. /\ OwnerOf(s)' = n /\ OwnerOf(s) \in {NoEntry, n}
        /\ \A t \in Subnet : t # s => OwnerOf(t)' = OwnerOf(t)
    BY <2>1, <2>2, <2>3 DEF Touched, OwnerOf, TypeOK
  <2>5. /\ Used(n) = NoEntry /\ Used(n)' = s
        /\ \A m \in Node : m # n => Used(m)' = Used(m)
    BY <1>4, <2>1 DEF UpdateSubnet, CreateSubnet, At, Used, Running, TypeOK
  <2>6. /\ owners' = [owners EXCEPT ![s] = n] /\ owners[s] \in {NoEntry, n}
        /\ users' = [users EXCEPT ![n] = s] /\ users[n] = NoEntry
    BY <2>4, <2>5 DEF owners, users
  <2>7. Ownership!Acquire(n, s)
    BY <2>6 DEF Ownership!Acquire, owners, users, OwnerOf, Used
  <2> QED
    BY <2>7 DEF Ownership!Next
<1>5. CASE Renew(n)
  <2>1. PICK s \in Subnet : /\ s = held[n].subnet /\ RegisteredTo(n, s)
                            /\ \E l \in LeaseId : GrantAndPut(s, n, l)
    BY <1>1, <1>5 DEF Renew, InPhase, Holding, Running, Owns
  <2>2. PICK l \in LeaseId : Touched(s, [ip |-> n, lease |-> l])
    BY <2>1, GrantTouches
  <2>3. [ip |-> n, lease |-> l] # NoEntry
    BY NoEntryAssumption DEF Entry
  <2>4. \A t \in Subnet : OwnerOf(t)' = OwnerOf(t)
    BY <2>1, <2>2, <2>3 DEF Touched, OwnerOf, RegisteredTo, TypeOK
  <2>5. \A m \in Node : Used(m)' = Used(m)
    BY <1>5 DEF Renew, Used
  <2> QED
    BY <2>4, <2>5, Stutters
<1>6. CASE Start(n) \/ ReadConfig(n) \/ RangeRead(n) \/ Reuse(n) \/ Allocate(n)
  <2>1. /\ UNCHANGED kv
        /\ \A m \in Node : m # n => pc'[m] = pc[m] /\ held'[m] = held[m]
        /\ pc[n] \notin Running /\ pc'[n] \notin Running
    BY <1>6 DEF Start, ReadConfig, RangeRead, Reuse, Allocate, At, AimAt, etcd, Running, TypeOK
  <2> QED
    BY <2>1, Stutters DEF OwnerOf, Used
<1>7. CASE QueryTtl(n) \/ TtlQueryFails(n) \/ WatchGet(n) \/ WatchFails(n) \/ WatchPanics(n)
           \/ DropExpiredPut(n)
  <2>1. UNCHANGED <<kv, pc, held>>
    BY <1>7 DEF QueryTtl, TtlQueryFails, WatchGet, WatchFails, WatchPanics, DropExpiredPut, etcd
  <2> QED
    BY <2>1, Stutters DEF OwnerOf, Used
<1>8. CASE Adopt(n)
  <2>1. held[n] \in [subnet : Subnet, ip : Node]
    BY <1>1, <1>8 DEF Adopt, EventFor, InPhase, Holding, Running
  <2>2. /\ UNCHANGED <<kv, pc>> /\ held'[n].subnet = held[n].subnet
        /\ \A m \in Node : m # n => held'[m] = held[m]
    BY <1>8, <2>1 DEF Adopt, etcd, TypeOK
  <2> QED
    BY <2>2, Stutters DEF OwnerOf, Used
<1> QED
  BY StepCases, <1>2, <1>3, <1>4, <1>5, <1>6, <1>7, <1>8

\* An expiry reclaims a subnet nobody uses.
LEMMA ExpireRefines ==
  ASSUME Reliable, TypeOK, PhaseOK, OwnerOK, NEW l \in LeaseId, Expire(l)
  PROVE  [Ownership!Next]_<<owners, users>>
<1>1. \A m \in Node : Used(m)' = Used(m)
  BY DEF Expire, Used
<1>2. UNCHANGED users
  BY <1>1 DEF users
<1>3. CASE UNCHANGED kv
  BY <1>1, <1>3, Stutters DEF OwnerOf
<1>4. ASSUME NEW s \in Subnet, AttachedTo(s, l), Touched(s, NoEntry)
      PROVE  Ownership!Reclaim(s)
  <2>1. /\ OwnerOf(s)' = NoEntry
        /\ \A t \in Subnet : t # s => OwnerOf(t)' = OwnerOf(t)
    BY <1>4 DEF Touched, OwnerOf, TypeOK
  <2>2. owners' = [owners EXCEPT ![s] = NoEntry]
    BY <2>1 DEF owners
  <2>3. owners[s] # NoEntry
    BY <1>4, NoEntryAssumption DEF owners, OwnerOf, AttachedTo, TypeOK, Event, Entry
  <2>4. ASSUME NEW m \in Node, users[m] = s
        PROVE  FALSE
    <3>1. pc[m] \in Running /\ held[m].subnet = s
      BY <2>4, NoEntryAssumption DEF users, Used
    <3>2. RegisteredTo(m, s)
      BY <3>1 DEF OwnerOK, Owns, Running
    <3>3. ~CountsOn(kv[s].ip, s)
      BY <1>4 DEF Expire, Reliable
    <3> QED
      BY <3>1, <3>2, <3>3 DEF CountsOn, RegisteredTo
  <2> QED
    BY <1>2, <2>2, <2>3, <2>4 DEF Ownership!Reclaim, owners, users, OwnerOf, Used
<1> QED
  BY <1>3, <1>4, EndTouches DEF Expire, Ownership!Next

\* The lease protocol implements SubnetOwnership under the same assumptions as
\* MutualExclusion: registering and starting to run is one step of taking a subnet
\* nobody owns or one's own back, renewals and events are invisible, and a
\* registration only goes away when nobody uses the subnet.
THEOREM Implementation == ASSUME Reliable PROVE Spec => OwnershipSpec
<1> DEFINE IInv == TypeOK /\ PhaseOK /\ OwnerOK
<1>1. Init => IInv
  BY Initially, OwnerInit
<1>2. IInv /\ [Next]_vars => IInv'
  BY TypeStep, PhaseStep, OwnerStep
<1>3. Init => Ownership!Init
  BY DEF Init, Ownership!Init, Running
<1>4. IInv /\ [Next]_vars => [Ownership!Next]_<<owners, users>>
  <2> SUFFICES ASSUME IInv, [Next]_vars
               PROVE  [Ownership!Next]_<<owners, users>>
    OBVIOUS
  <2>1. ASSUME NEW C \in Configs, Reconfigure(C)
        PROVE  UNCHANGED <<owners, users>>
    BY <2>1, Stutters DEF Reconfigure, OwnerOf, Used
  <2>2. CASE UNCHANGED vars
    BY <2>2, Stutters DEF vars, OwnerOf, Used
  <2> QED
    BY <2>1, <2>2, NodeStepRefines, ExpireRefines DEF Next
<1> QED
  BY <1>1, <1>2, <1>3, <1>4, PTL DEF Spec, OwnershipSpec, Ownership!Spec, owners, users, OwnerOf, Used

(***************************************************************************)
(* DisplacedOnlyByFormerOwner. Every address that a daemon may put with a  *)
(* subnet, or may come to, was registered on that subnet before or is now. *)
(***************************************************************************)

Past == former \cup Registered

\* An event of the subnet of n has an address that was registered on it.
EventsVouched(n, c, P) ==
  \A i \in 1..Len(c) : c[i] # NoEntry => <<c[i].ip, held[n].subnet>> \in P

Vouched(n) ==
  /\ pc[n] \in {"update", "create"} => held[n].ip = n
  /\ pc[n] \in {"update"} \cup Running => <<held[n].ip, held[n].subnet>> \in Past
  /\ \A s \in Subnet : snap[n][s] # NoEntry => <<snap[n][s].ip, s>> \in Past
  /\ EventsVouched(n, chan[n], Past)

VouchedOK == \A n \in Node : Vouched(n)

\* What is registered is remembered.
LEMMA PastFacts ==
  ASSUME HNext
  PROVE  /\ Past \subseteq former' /\ Past \subseteq Past'
         /\ \A s \in Subnet : kv[s] # NoEntry => <<kv[s].ip, s>> \in Past
         /\ \A s \in Subnet : kv'[s] # NoEntry => <<kv'[s].ip, s>> \in Past'
  BY DEF HNext, Past, Registered

\* An event that arrives is of the watcher's subnet, and what it says is registered.
LEMMA TouchedVouched ==
  ASSUME TypeOK, HNext, NEW s \in Subnet, NEW e \in Event, Touched(s, e), NEW m \in Node, Vouched(m)
  PROVE  EventsVouched(m, chan'[m], Past')
<1>1. e # NoEntry => <<e.ip, s>> \in Past'
  <2>1. kv'[s] = e
    BY DEF Touched, TypeOK
  <2> QED BY <2>1, PastFacts
<1>2. Past \subseteq Past' /\ Len(chan[m]) \in Nat /\ EventsVouched(m, chan[m], Past)
  BY PastFacts DEF Vouched, TypeOK
<1>3. CASE m \notin Watchers(s)
  BY <1>2, <1>3 DEF Touched, EventsVouched
<1>4. CASE m \in Watchers(s)
  <2>1. /\ Len(chan'[m]) = Len(chan[m]) + 1 /\ chan'[m][Len(chan[m]) + 1] = e
        /\ \A i \in 1..Len(chan[m]) : chan'[m][i] = chan[m][i]
    BY <1>4 DEF Touched
  <2>2. held[m].subnet = s
    BY <1>4 DEF Watchers
  <2>3. \A i \in 1..Len(chan'[m]) : i = Len(chan[m]) + 1 \/ i \in 1..Len(chan[m])
    BY <1>2, <2>1
  <2> QED BY <1>1, <1>2, <2>1, <2>2, <2>3 DEF EventsVouched
<1> QED BY <1>3, <1>4

\* So whatever happens to a key.
LEMMA EtcdVouched ==
  ASSUME TypeOK, HNext, NEW m \in Node, Vouched(m),
         \/ \E s \in Subnet, i \in Node, l \in LeaseId : GrantAndPut(s, i, l)
         \/ \E l \in LeaseId : EndLease(l)
         \/ chan' = chan
  PROVE  EventsVouched(m, chan'[m], Past')
<1>1. ASSUME NEW s \in Subnet, NEW i \in Node, NEW l \in LeaseId, GrantAndPut(s, i, l)
      PROVE  EventsVouched(m, chan'[m], Past')
  <2>1. PICK e \in Event : Touched(s, e)
    <3>1. [ip |-> i, lease |-> l] \in Event
      BY DEF Event, Entry
    <3> QED BY <1>1, <3>1, GrantTouches
  <2> QED BY <2>1, TouchedVouched
<1>2. CASE chan' = chan
  BY <1>2, PastFacts DEF Vouched, EventsVouched
<1>3. ASSUME NEW l \in LeaseId, EndLease(l)
      PROVE  EventsVouched(m, chan'[m], Past')
  <2>1. NoEntry \in Event
    BY DEF Event
  <2>2. CASE \E s \in Subnet : Touched(s, NoEntry)
    BY <2>1, <2>2, TouchedVouched
  <2>3. CASE chan' = chan
    BY <1>2, <2>3
  <2> QED BY <1>3, <2>2, <2>3, EndTouches
<1> QED BY <1>1, <1>2, <1>3

\* A put registers what it puts.
LEMMA PutRegisters ==
  ASSUME TypeOK, HNext, NEW s \in Subnet, NEW i \in Node, NEW l \in LeaseId, GrantAndPut(s, i, l)
  PROVE  <<i, s>> \in Past'
<1>1. Touched(s, [ip |-> i, lease |-> l]) /\ [ip |-> i, lease |-> l] # NoEntry
  <2>1. [ip |-> i, lease |-> l] \in Entry
    BY DEF Entry
  <2> QED BY <2>1, GrantTouches, NoEntryAssumption
<1>2. kv'[s] = [ip |-> i, lease |-> l]
  BY <1>1 DEF Touched, TypeOK
<1> QED BY <1>1, <1>2, PastFacts

\* A step of a host leaves every address vouched for.
LEMMA NodeStepVouched ==
  ASSUME TypeOK, PhaseOK, PhaseOK', VouchedOK, HNext, NEW n \in Node, NodeStep(n), NEW m \in Node
  PROVE  Vouched(m)'
<1> USE DEF TypeOK, Running
<1>a. Vouched(n) /\ Vouched(m) /\ InPhase(n) /\ InPhase(m) /\ InPhase(m)'
  BY DEF VouchedOK, PhaseOK
<1>b. Past \subseteq Past' /\ \A s \in Subnet : kv[s] # NoEntry => <<kv[s].ip, s>> \in Past
  BY PastFacts
<1>c. ASSUME EventsVouched(m, chan'[m], Past'), held'[m].subnet = held[m].subnet \/ chan'[m] = <<>>
      PROVE  EventsVouched(m, chan[m], Past)'
  BY <1>c DEF EventsVouched
<1>d. ASSUME chan'[m] = chan[m], held'[m].subnet = held[m].subnet
      PROVE  EventsVouched(m, chan[m], Past)'
  BY <1>a, <1>b, <1>d DEF EventsVouched, Vouched
<1>e. chan'[m] = <<>> => EventsVouched(m, chan[m], Past)'
  BY DEF EventsVouched
<1>f. pc[m] \notin Running => chan[m] = <<>>
  BY <1>a DEF InPhase
<1>1. CASE Exit(n)
  BY <1>a, <1>b, <1>d, <1>e, <1>1 DEF Exit, Forget, ForgetSnapshot, NoSnapshot, etcd, Vouched
<1>2. CASE Start(n)
  BY <1>a, <1>b, <1>d, <1>2 DEF Start, At, etcd, snapshot, task, Vouched
<1>3. CASE ReadConfig(n)
  BY <1>a, <1>b, <1>d, <1>3 DEF ReadConfig, At, etcd, task, Vouched
<1>4. CASE RangeRead(n)
  BY <1>a, <1>b, <1>d, <1>4 DEF RangeRead, At, etcd, task, Vouched
<1>5. CASE QueryTtl(n) \/ TtlQueryFails(n)
  BY <1>a, <1>b, <1>d, <1>5 DEF QueryTtl, TtlQueryFails, etcd, task, Vouched
<1>6. CASE Reuse(n)
  <2>1. PICK s \in Subnet : /\ snap[n][s] # NoEntry /\ snap[n][s].ip = n
                            /\ held' = [held EXCEPT ![n] = [subnet |-> s, ip |-> n]]
    BY <1>a, <1>6 DEF Reuse, IsOwn, IsFirst, AimAt, InPhase
  <2>2. <<n, s>> \in Past'
    BY <1>a, <1>b, <2>1 DEF Vouched
  <2>3. /\ pc' = [pc EXCEPT ![n] = "update"] /\ pc[n] = "ttl"
        /\ snap' = [snap EXCEPT ![n] = NoSnapshot] /\ chan' = chan
    BY <1>6 DEF Reuse, At, AimAt, ForgetSnapshot, task
  <2>4. EventsVouched(m, chan[m], Past)'
    BY <1>d, <1>e, <1>f, <2>1, <2>3
  <2> QED BY <1>a, <1>b, <2>1, <2>2, <2>3, <2>4 DEF Vouched, NoSnapshot
<1>7. CASE Allocate(n)
  <2>1. /\ pc' = [pc EXCEPT ![n] = "create"] /\ pc[n] = "ttl" /\ chan' = chan
        /\ snap' = [snap EXCEPT ![n] = NoSnapshot] /\ \A k \in Node : k # n => held'[k] = held[k]
        /\ held'[n].ip = n
    BY <1>7 DEF Allocate, At, AimAt, ForgetSnapshot, task
  <2>2. EventsVouched(m, chan[m], Past)'
    BY <1>d, <1>e, <1>f, <2>1
  <2> QED BY <1>a, <1>b, <2>1, <2>2 DEF Vouched, NoSnapshot
<1>8. CASE UpdateSubnet(n) \/ CreateSubnet(n)
  <2>1. /\ pc[n] \in {"update", "create"} /\ pc' = [pc EXCEPT ![n] = "run"]
        /\ UNCHANGED <<snap, held>>
    BY <1>8 DEF UpdateSubnet, CreateSubnet, At, snapshot
  <2>2. held[n].subnet \in Subnet
    BY <1>a, <2>1 DEF InPhase, Holding
  <2>3. PICK l \in LeaseId : GrantAndPut(held[n].subnet, n, l)
    BY <1>8 DEF UpdateSubnet, CreateSubnet
  <2>4. <<n, held[n].subnet>> \in Past' /\ EventsVouched(m, chan'[m], Past')
    BY <1>a, <2>2, <2>3, PutRegisters, EtcdVouched
  <2>5. held[n].ip = n
    BY <1>a, <1>8, <2>1 DEF Vouched, InPhase
  <2> QED BY <1>a, <1>b, <1>c, <2>1, <2>4, <2>5 DEF Vouched
<1>9. CASE Renew(n) \/ PutReplyLost(n)
  <2>1. /\ pc[n] \in {"update", "create", "run"} /\ UNCHANGED <<snap, held>>
        /\ \/ pc' = pc
           \/ pc' = [pc EXCEPT ![n] = "revoke"]
           \/ pc[n] = "run" /\ pc' = [pc EXCEPT ![n] = "renewrevoke"]
    BY <1>9 DEF Renew, PutReplyLost, At, snapshot
  <2>2. held[n].subnet \in Subnet /\ held[n].ip \in Node
    BY <1>a, <2>1 DEF InPhase, Holding
  <2>3. \E l \in LeaseId : GrantAndPut(held[n].subnet, held[n].ip, l)
    BY <1>9 DEF Renew, PutReplyLost
  <2>4. EventsVouched(m, chan'[m], Past')
    BY <1>a, <2>2, <2>3, EtcdVouched
  <2> QED BY <1>a, <1>b, <1>c, <2>1, <2>4 DEF Vouched
<1>10. CASE RevokeAndExit(n) \/ RevokeAndRetry(n)
  <2>1. /\ pc[n] \in {"revoke", "renewrevoke"}
        /\ \/ pc' = [pc EXCEPT ![n] = "down"] /\ snap' = [snap EXCEPT ![n] = NoSnapshot]
                /\ held' = [held EXCEPT ![n] = NoHold] /\ watch'[n] = "none"
           \/ pc[n] = "renewrevoke" /\ pc' = [pc EXCEPT ![n] = "run"] /\ UNCHANGED <<snap, held>>
    BY <1>10 DEF RevokeAndExit, RevokeAndRetry, Forget, ForgetSnapshot, At, snapshot
  <2>2. (\E l \in LeaseId : EndLease(l)) \/ chan' = chan
    BY <1>a, <1>10, <2>1 DEF RevokeAndExit, RevokeAndRetry, Revoked, InPhase
  <2>3. EventsVouched(m, chan'[m], Past')
    BY <1>a, <2>2, EtcdVouched
  <2>4. held'[m].subnet = held[m].subnet \/ chan'[m] = <<>>
    BY <1>a, <2>1 DEF InPhase
  <2>5. EventsVouched(m, chan[m], Past)'
    BY <1>c, <2>3, <2>4
  <2>6. CASE m = n /\ pc'[n] = "down"
    BY <1>a, <1>b, <2>1, <2>5, <2>6 DEF Vouched, NoSnapshot
  <2>7. CASE m # n \/ pc'[n] # "down"
    <3>1. /\ snap'[m] = snap[m] /\ held'[m] = held[m]
          /\ pc'[m] = pc[m] \/ (pc[m] = "renewrevoke" /\ pc'[m] = "run")
      BY <2>1, <2>7
    <3> QED BY <1>a, <1>b, <2>5, <3>1 DEF Vouched
  <2> QED BY <2>6, <2>7
<1>11. CASE WatchGet(n)
  <2>1. UNCHANGED <<pc, snap, held>> /\ watch[n] = "get"
    BY <1>11 DEF WatchGet, snapshot
  <2>2. held[n].subnet \in Subnet /\ chan[n] = <<>>
    BY <1>a, <2>1 DEF InPhase, Holding
  <2>3. \/ chan'[m] = chan[m]
        \/ /\ m = n /\ kv[held[n].subnet] # NoEntry /\ chan'[n] = <<kv[held[n].subnet]>>
    BY <1>11 DEF WatchGet
  <2>4. EventsVouched(m, chan'[m], Past')
    BY <1>a, <1>b, <2>2, <2>3 DEF EventsVouched, Vouched
  <2> QED BY <1>a, <1>b, <1>c, <2>1, <2>4 DEF Vouched
<1>12. CASE WatchFails(n) \/ WatchPanics(n)
  <2>1. UNCHANGED <<pc, snap, held>>
    BY <1>12 DEF WatchFails, WatchPanics, snapshot
  <2>2. chan'[m] = chan[m] \/ chan'[m] = <<>> \/ \E k \in 0..Len(chan[m]) : chan'[m] = SubSeq(chan[m], 1, k)
    <3>1. CASE WatchPanics(n)
      BY <3>1 DEF WatchPanics
    <3>2. CASE WatchFails(n)
      <4>1. PICK k \in 0..Len(chan[n]) : chan' = [chan EXCEPT ![n] = SubSeq(chan[n], 1, k)]
        BY <3>2 DEF WatchFails
      <4>2. m = n => chan'[m] = SubSeq(chan[m], 1, k)
        BY <4>1
      <4>3. m # n => chan'[m] = chan[m]
        BY <4>1
      <4> QED BY <4>2, <4>3
    <3> QED BY <1>12, <3>1, <3>2
  <2>3. ASSUME NEW k \in 0..Len(chan[m]), chan'[m] = SubSeq(chan[m], 1, k)
        PROVE  EventsVouched(m, chan'[m], Past')
    <3>1. chan[m] \in Seq(Event)
      OBVIOUS
    <3>2. Len(chan'[m]) = k /\ \A i \in 1..k : i \in 1..Len(chan[m]) /\ chan'[m][i] = chan[m][i]
      BY <2>3, <3>1
    <3> QED BY <1>a, <1>b, <3>2 DEF EventsVouched, Vouched
  <2>4. EventsVouched(m, chan[m], Past)'
    BY <1>c, <1>d, <1>e, <2>1, <2>2, <2>3
  <2> QED BY <1>a, <1>b, <2>1, <2>4 DEF Vouched
<1>13. CASE Adopt(n) \/ DropExpiredPut(n)
  <2>1. /\ pc[n] = "run" /\ chan[n] # <<>> /\ Head(chan[n]) # NoEntry
        /\ chan' = [chan EXCEPT ![n] = Tail(@)] /\ UNCHANGED <<pc, snap>>
        /\ held' = held \/ held' = [held EXCEPT ![n].ip = Head(chan[n]).ip]
    BY <1>13 DEF Adopt, DropExpiredPut, EventFor, NextEvent, snapshot
  <2>2. held[n] \in [subnet : Subnet, ip : Node]
    BY <1>a, <2>1 DEF InPhase, Holding
  <2>3. chan[n] \in Seq(Event)
    OBVIOUS
  <2>4. /\ Len(chan[n]) \in Nat /\ 1 \in 1..Len(chan[n]) /\ Head(chan[n]) = chan[n][1]
        /\ \A i \in 1..Len(Tail(chan[n])) : i + 1 \in 1..Len(chan[n]) /\ Tail(chan[n])[i] = chan[n][i + 1]
    BY <2>1, <2>3
  <2>5. <<Head(chan[n]).ip, held[n].subnet>> \in Past
    BY <1>a, <2>1, <2>4 DEF Vouched, EventsVouched
  <2>6. /\ held'[m].subnet = held[m].subnet /\ (m # n => held'[m] = held[m])
        /\ held'[n].ip = held[n].ip \/ held'[n].ip = Head(chan[n]).ip
    BY <2>1, <2>2
  <2>7. EventsVouched(m, chan'[m], Past')
    <3>1. CASE m = n
      <4>1. chan'[m] = Tail(chan[n])
        BY <2>1, <3>1
      <4> QED BY <1>a, <1>b, <2>4, <3>1, <4>1 DEF EventsVouched, Vouched
    <3>2. CASE m # n
      BY <1>a, <1>b, <2>1, <3>2 DEF EventsVouched, Vouched
    <3> QED BY <3>1, <3>2
  <2>8. pc[m] \in {"update"} \cup Running => <<held'[m].ip, held'[m].subnet>> \in Past'
    <3>1. CASE m = n
      BY <1>a, <1>b, <2>5, <2>6, <3>1, <2>1 DEF Vouched
    <3>2. CASE m # n
      BY <1>a, <1>b, <2>6, <3>2 DEF Vouched
    <3> QED BY <3>1, <3>2
  <2>9. pc[m] \in {"update", "create"} => held'[m].ip = m
    BY <1>a, <2>1, <2>6 DEF Vouched
  <2> QED BY <1>a, <1>b, <1>c, <2>1, <2>6, <2>7, <2>8, <2>9 DEF Vouched
<1> QED BY StepCases, <1>1, <1>2, <1>3, <1>4, <1>5, <1>6, <1>7, <1>8, <1>9, <1>10, <1>11, <1>12, <1>13

\* So does every step.
LEMMA VouchedStep ==
  ASSUME TypeOK, PhaseOK, VouchedOK, [HNext]_<<vars, former>>
  PROVE  TypeOK' /\ PhaseOK' /\ VouchedOK'
<1>1. TypeOK' /\ PhaseOK'
  BY TypeStep, PhaseStep DEF HNext, vars
<1>2. ASSUME HNext, NEW m \in Node, ~\E n \in Node : NodeStep(n)
      PROVE  Vouched(m)'
  <2>1. /\ UNCHANGED <<pc, snap, held>> /\ Past \subseteq Past' /\ Vouched(m)
        /\ (\E l \in LeaseId : EndLease(l)) \/ chan' = chan
    BY <1>2, PastFacts DEF HNext, Next, Expire, Reconfigure, snapshot, task, VouchedOK
  <2>2. EventsVouched(m, chan'[m], Past')
    BY <1>2, <2>1, EtcdVouched
  <2> QED BY <2>1, <2>2 DEF Vouched, EventsVouched
<1>3. ASSUME UNCHANGED <<vars, former>>, NEW m \in Node
      PROVE  Vouched(m)'
  <2>1. UNCHANGED <<pc, snap, held, chan, kv, former>>
    BY <1>3 DEF vars
  <2>2. Past' = Past
    BY <2>1 DEF Past, Registered
  <2>3. Vouched(m)
    BY DEF VouchedOK
  <2> QED BY <2>1, <2>2, <2>3 DEF Vouched, EventsVouched
<1>4. ASSUME HNext, NEW n \in Node, NodeStep(n), NEW m \in Node
      PROVE  Vouched(m)'
  BY <1>1, <1>4, NodeStepVouched
<1> QED BY <1>1, <1>2, <1>3, <1>4 DEF VouchedOK

\* A put over another host's registration is of an address vouched for.
LEMMA PutIsVouched ==
  ASSUME TypeOK, PhaseOK, VouchedOK, Next, NEW s \in Subnet, kv[s] # NoEntry, kv'[s] # NoEntry, kv'[s].ip # kv[s].ip
  PROVE  <<kv'[s].ip, s>> \in Past
<1>1. ASSUME NEW t \in Subnet, NEW i \in Node, NEW l \in LeaseId, GrantAndPut(t, i, l)
      PROVE  t = s /\ kv'[s].ip = i
  <2>1. kv' = [kv EXCEPT ![t] = [ip |-> i, lease |-> l]]
    <3>1. Touched(t, [ip |-> i, lease |-> l])
      BY <1>1, GrantTouches
    <3> QED BY <3>1 DEF Touched
  <2> QED BY <2>1 DEF TypeOK
<1>2. ASSUME NEW l \in LeaseId, EndLease(l) PROVE FALSE
  <2>1. kv' = kv \/ \E t \in Subnet : kv' = [kv EXCEPT ![t] = NoEntry]
    BY <1>2, EndTouches DEF Touched
  <2> QED BY <2>1 DEF TypeOK
<1>3. PICK n \in Node : UpdateSubnet(n) \/ CreateSubnet(n) \/ Renew(n) \/ PutReplyLost(n)
  <2>1. ASSUME NEW n \in Node, NodeStep(n)
        PROVE  UpdateSubnet(n) \/ CreateSubnet(n) \/ Renew(n) \/ PutReplyLost(n)
    <3>1. ~RevokeAndExit(n) /\ ~RevokeAndRetry(n)
      BY <1>2 DEF RevokeAndExit, RevokeAndRetry, Revoked, At, PhaseOK, InPhase
    <3>2. kv' # kv
      OBVIOUS
    <3> QED BY <2>1, <3>1, <3>2, StepCases
         DEF Exit, Start, ReadConfig, RangeRead, QueryTtl, TtlQueryFails, Reuse, Allocate, AimAt,
             WatchGet, WatchFails, WatchPanics, Adopt, DropExpiredPut, etcd
  <2>2. ~(\E l \in LeaseId : Expire(l)) /\ ~(\E C \in Configs : Reconfigure(C))
    BY <1>2 DEF Expire, Reconfigure
  <2> QED BY <2>1, <2>2 DEF Next
<1>4. InPhase(n) /\ Vouched(n)
  BY DEF PhaseOK, VouchedOK
<1>5. CASE UpdateSubnet(n)
  <2>1. pc[n] = "update" /\ \E l \in LeaseId : GrantAndPut(held[n].subnet, n, l)
    BY <1>5 DEF UpdateSubnet, At
  <2>2. held[n].subnet \in Subnet /\ held[n].ip = n /\ <<held[n].ip, held[n].subnet>> \in Past
    BY <1>4, <2>1 DEF InPhase, Holding, Vouched
  <2> QED BY <1>1, <2>1, <2>2
<1>6. CASE CreateSubnet(n)
  <2>1. pc[n] = "create" /\ kv[held[n].subnet] = NoEntry /\ \E l \in LeaseId : GrantAndPut(held[n].subnet, n, l)
    BY <1>6 DEF CreateSubnet, At
  <2>2. held[n].subnet \in Subnet
    BY <1>4, <2>1 DEF InPhase, Holding
  <2> QED BY <1>1, <2>1, <2>2
<1>7. CASE Renew(n) \/ PutReplyLost(n)
  <2>1. /\ \/ pc[n] \in {"update", "run"}
           \/ pc[n] = "create" /\ kv[held[n].subnet] = NoEntry
        /\ \E l \in LeaseId : GrantAndPut(held[n].subnet, held[n].ip, l)
    BY <1>7 DEF Renew, PutReplyLost, At
  <2>2. held[n].subnet \in Subnet /\ held[n].ip \in Node
    BY <1>4, <2>1 DEF InPhase, Holding, Running
  <2>3. pc[n] \in {"update", "run"} => <<held[n].ip, held[n].subnet>> \in Past
    BY <1>4 DEF Vouched, Running
  <2> QED BY <1>1, <2>1, <2>2, <2>3
<1> QED BY <1>3, <1>5, <1>6, <1>7

\* Whatever fails, whatever expires and whatever reply is lost: a registration is only ever
\* overwritten by a host that was itself registered on that subnet before.
THEOREM NoStrangerDisplaces == HSpec => DisplacedOnlyByFormerOwner
<1>1. HInit => TypeOK /\ PhaseOK /\ VouchedOK
  <2> SUFFICES ASSUME HInit PROVE VouchedOK
    BY Initially DEF HInit
  <2>1. ASSUME NEW n \in Node PROVE Vouched(n)
    <3>1. chan[n] = <<>> /\ pc[n] = "down" /\ snap[n] = NoSnapshot
      BY DEF HInit, Init
    <3>2. EventsVouched(n, chan[n], Past)
      BY <3>1 DEF EventsVouched
    <3> QED BY <3>1, <3>2 DEF Vouched, NoSnapshot, Running
  <2> QED BY <2>1 DEF VouchedOK
<1>2. TypeOK /\ PhaseOK /\ VouchedOK /\ [HNext]_<<vars, former>> => (TypeOK /\ PhaseOK /\ VouchedOK)'
  BY VouchedStep
<1> DEFINE Former == \A s \in Subnet :
             kv[s] # NoEntry /\ kv'[s] # NoEntry /\ kv'[s].ip # kv[s].ip => <<kv'[s].ip, s>> \in former
<1>3. TypeOK /\ PhaseOK /\ VouchedOK /\ [HNext]_<<vars, former>> => [Former]_<<vars, former>>
  <2> SUFFICES ASSUME TypeOK, PhaseOK, VouchedOK, HNext, NEW s \in Subnet,
                      kv[s] # NoEntry, kv'[s] # NoEntry, kv'[s].ip # kv[s].ip
               PROVE  <<kv'[s].ip, s>> \in former
    OBVIOUS
  <2>1. <<kv'[s].ip, s>> \in Past
    BY PutIsVouched DEF HNext
  <2>2. <<kv'[s].ip, s>> \notin Registered
    BY DEF Registered
  <2> QED BY <2>1, <2>2 DEF Past
<1> QED BY <1>1, <1>2, <1>3, PTL DEF HSpec, DisplacedOnlyByFormerOwner

==============================================================================
