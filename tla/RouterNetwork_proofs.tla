------------------------- MODULE RouterNetwork_proofs -------------------------
(***************************************************************************)
(* Proofs about the host-gw backend, for any subnets, leases and gateways. *)
(***************************************************************************)
EXTENDS RouterNetwork, LeaseEvents_proofs

(***************************************************************************)
(* The invariant                                                           *)
(***************************************************************************)

\* A replacement under way is that of the event at the head of the queue, and the
\* kernel has no route to its subnet.
StepOK ==
  /\ step = "add" =>
       /\ up /\ queue # <<>> /\ Head(queue).type = "put" /\ Ours(Head(queue).lease)
       /\ kernel[Head(queue).lease.subnet] = NoRoute
  /\ ~up => routes = {}

\* A listed route is installed, or is the one about to be.
Listed ==
  \A r \in routes :
    kernel[r.dst] = r.gw \/ (step = "add" /\ r = RouteTo(Head(queue).lease))

RouterInv == EventsInv /\ TypeOK /\ StepOK /\ RoutesFollowLeases /\ Listed

\* A lease of this backend's type is one of Lease.
LEMMA OursFacts ==
  ASSUME NEW e \in Events, Ours(e.lease)
  PROVE  e.lease \in Lease /\ RouteTo(e.lease) \in [dst : Subnet, gw : Gateways]
         /\ e.lease.ip \in Gateways /\ e.lease.ip # NoRoute
<1>1. e.lease \in Lease
  <2>1. ASSUME e.lease = [subnet |-> e.lease.subnet] PROVE FALSE
    <3>1. DOMAIN e.lease = {"subnet"}
      BY <2>1
    <3> QED BY <3>1 DEF Ours
  <2> QED BY <2>1, EventFacts
<1> QED BY <1>1, LeaseAssumption, RouteAssumption DEF RouteTo, Gateways

\* The invariant at the start.
LEMMA RouterStart == Init => RouterInv
<1> SUFFICES ASSUME Init PROVE RouterInv
  OBVIOUS
<1>1. EventsInv /\ ~up /\ step = "idle" /\ routes = {} /\ queue = <<>>
  BY EventsStart DEF Init, EventsInit
<1>2. TypeOK
  BY <1>1 DEF Init, TypeOK, EventsInv, Gateways
<1> QED BY <1>1, <1>2 DEF RouterInv, StepOK, RoutesFollowLeases, Listed

\* Each action keeps the invariant; the other hosts' steps:
LEMMA RouterRegistry ==
  ASSUME RouterInv, Registry, UNCHANGED <<kernel, routes, step, left>>
  PROVE  RouterInv'
<1>1. RegistryStep
  BY RegistryKeeps DEF RouterInv
<1>2. TypeOK'
  BY <1>1 DEF RegistryStep, RouterInv, TypeOK, EventsInv
<1>3. StepOK'
  BY <1>1 DEF RegistryStep, RouterInv, StepOK
<1>4. RoutesFollowLeases'
  BY <1>1 DEF RegistryStep, RouterInv, RoutesFollowLeases, Ours
<1>5. Listed'
  <2>1. step = "add" => Head(queue') = Head(queue)
    BY <1>1 DEF RegistryStep, RouterInv, StepOK
  <2> QED BY <2>1 DEF RouterInv, Listed, RouteTo
<1> QED BY <1>1, <1>2, <1>3, <1>4, <1>5 DEF RouterInv, RegistryStep

\* After an event that leaves the kernel's routes to other subnets alone, and ends with
\* the route of a lease of ours if it is a Put, the routes follow the leases.
LEMMA Followed ==
  ASSUME RouterInv, NEW e \in Events, Handling(e), Handled,
         \A s \in Subnet : s # e.lease.subnet => kernel'[s] = kernel[s],
         e.type = "put" /\ Ours(e.lease) => kernel'[e.lease.subnet] = e.lease.ip
  PROVE  RoutesFollowLeases'
<1>1. /\ UNCHANGED <<reg, up>> /\ e.lease.subnet \in Subnet
      /\ \A s \in Subnet : s # e.lease.subnet => (Pending(s)' <=> Pending(s))
      /\ ~Pending(e.lease.subnet)' => Says(e, e.lease.subnet)
  BY HandledKeeps DEF RouterInv
<1> SUFFICES ASSUME up, NEW s \in Subnet, reg[s] # NoLease, Ours(reg[s]), ~Pending(s)'
             PROVE  kernel'[s] = reg[s].ip
  BY <1>1 DEF RoutesFollowLeases, Ours
<1>2. CASE s # e.lease.subnet
  BY <1>1, <1>2 DEF RouterInv, RoutesFollowLeases
<1>3. CASE s = e.lease.subnet
  <2>1. e = Put(reg[s])
    BY <1>1, <1>3 DEF Says
  <2> QED BY <2>1, <1>3 DEF Put
<1> QED BY <1>2, <1>3

\* a lease of another backend;
LEMMA RouterIgnore ==
  ASSUME RouterInv, NEW e \in Events, Ignore(e)
  PROVE  RouterInv'
<1>1. Handling(e) /\ Handled /\ EventsInv' /\ UNCHANGED <<reg, up, kernel, routes, step>> /\ step = "idle"
  BY HandledKeeps DEF Ignore, RouterInv
<1>2. RoutesFollowLeases'
  BY <1>1, Followed DEF Ignore
<1>3. left' \subseteq Subnet
  BY DEF Ignore, RouterInv, TypeOK, Routed
<1>4. TypeOK' /\ StepOK' /\ Listed'
  BY <1>1, <1>3 DEF RouterInv, TypeOK, StepOK, Listed, EventsInv
<1> QED BY <1>1, <1>2, <1>4 DEF RouterInv

\* a Put with no other route in its way;
LEMMA RouterAdd ==
  ASSUME RouterInv, NEW e \in Events, AddRoute(e)
  PROVE  RouterInv'
<1>1. /\ Handling(e) /\ Handled /\ EventsInv' /\ UNCHANGED <<reg, up, step>> /\ step = "idle"
      /\ up /\ e.lease.subnet \in Subnet
  BY HandledKeeps DEF AddRoute, HandlingPut, RouterInv
<1>2. /\ e.lease.ip \in Gateways /\ RouteTo(e.lease) \in [dst : Subnet, gw : Gateways]
      /\ e.lease.ip # NoRoute
  BY OursFacts DEF AddRoute, HandlingPut
<1>3. /\ kernel' \in [Subnet -> Gateways \cup {NoRoute}]
      /\ kernel'[e.lease.subnet] = e.lease.ip
      /\ \A s \in Subnet : s # e.lease.subnet => kernel'[s] = kernel[s]
      /\ routes' = routes \cup {RouteTo(e.lease)}
  BY <1>1, <1>2 DEF AddRoute, RouterInv, TypeOK
<1>4. RoutesFollowLeases'
  BY <1>1, <1>3, Followed
<1>5. TypeOK' /\ StepOK'
  BY <1>1, <1>2, <1>3 DEF RouterInv, TypeOK, StepOK, EventsInv, AddRoute
<1>6. Listed'
  <2> SUFFICES ASSUME NEW r \in routes' PROVE kernel'[r.dst] = r.gw
    BY DEF Listed
  <2>1. CASE r = RouteTo(e.lease)
    BY <2>1, <1>3 DEF RouteTo
  <2>2. CASE r \in routes
    <3>1. r.dst \in Subnet /\ r.gw # NoRoute /\ kernel[r.dst] = r.gw
      BY <2>2, <1>1, RouteAssumption DEF RouterInv, TypeOK, Listed, Gateways
    <3>2. kernel[e.lease.subnet] \in {NoRoute, e.lease.ip}
      BY DEF AddRoute
    <3> QED BY <3>1, <3>2, <1>3
  <2> QED BY <2>1, <2>2, <1>3
<1> QED BY <1>1, <1>4, <1>5, <1>6 DEF RouterInv

\* a Put with one, first request;
LEMMA RouterDeleteOld ==
  ASSUME RouterInv, NEW e \in Events, DeleteOldRoute(e)
  PROVE  RouterInv'
<1>1. /\ Handling(e) /\ UNCHANGED <<reg, queue, up, left>> /\ step = "idle" /\ step' = "add"
      /\ up /\ queue # <<>> /\ e = Head(queue) /\ e.type = "put" /\ Ours(e.lease)
      /\ e.lease.subnet \in Subnet
  BY EventFacts DEF DeleteOldRoute, HandlingPut, Handling
<1>2. EventsInv' /\ \A s \in Subnet : Pending(s)' <=> Pending(s)
  BY <1>1, EventsStutter DEF RouterInv
<1>3. /\ e.lease.ip \in Gateways /\ RouteTo(e.lease) \in [dst : Subnet, gw : Gateways]
      /\ e.lease.ip # NoRoute
  BY <1>1, OursFacts
<1>4. /\ kernel' \in [Subnet -> Gateways \cup {NoRoute}]
      /\ kernel'[e.lease.subnet] = NoRoute
      /\ \A s \in Subnet : s # e.lease.subnet => kernel'[s] = kernel[s]
  BY <1>1 DEF DeleteOldRoute, RouterInv, TypeOK
<1>5. TypeOK' /\ StepOK'
  BY <1>1, <1>2, <1>3, <1>4 DEF RouterInv, TypeOK, StepOK, EventsInv, DeleteOldRoute, Ours
<1>6. RoutesFollowLeases'
  <2>1. queue \in Seq(Events)
    BY DEF RouterInv, EventsInv, EventsOK
  <2>2. 1 \in DOMAIN queue /\ queue[1] = e
    BY <2>1, <1>1
  <2>3. Pending(e.lease.subnet)
    BY <2>2 DEF Pending
  <2> QED BY <2>3, <1>1, <1>2, <1>4 DEF RouterInv, RoutesFollowLeases, Ours
<1>7. Listed'
  <2> SUFFICES ASSUME NEW r \in routes', r # RouteTo(e.lease) PROVE kernel'[r.dst] = r.gw
    BY <1>1 DEF Listed, RouteTo
  <2>1. /\ r \in routes /\ r # [dst |-> e.lease.subnet, gw |-> kernel[e.lease.subnet]]
        /\ r \in [dst : Subnet, gw : Gateways]
    BY DEF DeleteOldRoute, RouterInv, TypeOK
  <2>2. kernel[r.dst] = r.gw /\ r = [dst |-> r.dst, gw |-> r.gw] /\ r.dst \in Subnet
    BY <2>1, <1>1 DEF RouterInv, Listed
  <2>3. r.dst # e.lease.subnet
    BY <2>1, <2>2
  <2> QED BY <2>2, <2>3, <1>4
<1> QED BY <1>2, <1>5, <1>6, <1>7 DEF RouterInv

\* and second request;
LEMMA RouterAddNew ==
  ASSUME RouterInv, NEW e \in Events, AddNewRoute(e)
  PROVE  RouterInv'
<1>1. /\ Handling(e) /\ Handled /\ EventsInv' /\ UNCHANGED <<reg, up, routes>> /\ step = "add" /\ step' = "idle"
      /\ up /\ e.lease.subnet \in Subnet /\ e = Head(queue) /\ Ours(e.lease)
      /\ kernel[e.lease.subnet] = NoRoute
  BY HandledKeeps DEF AddNewRoute, RouterInv, StepOK, Handling
<1>2. e.lease.ip \in Gateways /\ e.lease.ip # NoRoute
  BY <1>1, OursFacts
<1>3. /\ kernel' \in [Subnet -> Gateways \cup {NoRoute}]
      /\ kernel'[e.lease.subnet] = e.lease.ip
      /\ \A s \in Subnet : s # e.lease.subnet => kernel'[s] = kernel[s]
  BY <1>1, <1>2 DEF AddNewRoute, RouterInv, TypeOK
<1>4. RoutesFollowLeases'
  BY <1>1, <1>3, Followed
<1>5. TypeOK' /\ StepOK'
  BY <1>1, <1>2, <1>3 DEF RouterInv, TypeOK, StepOK, EventsInv, AddNewRoute
<1>6. Listed'
  <2> SUFFICES ASSUME NEW r \in routes PROVE kernel'[r.dst] = r.gw
    BY <1>1 DEF Listed
  <2>1. CASE r = RouteTo(e.lease)
    BY <2>1, <1>3 DEF RouteTo
  <2>2. CASE kernel[r.dst] = r.gw
    <3>1. r.dst \in Subnet /\ r.gw # NoRoute
      BY RouteAssumption DEF RouterInv, TypeOK, Gateways
    <3> QED BY <3>1, <2>2, <1>1, <1>3
  <2> QED BY <2>1, <2>2, <1>1 DEF RouterInv, Listed
<1> QED BY <1>1, <1>4, <1>5, <1>6 DEF RouterInv

\* a Delete;
LEMMA RouterDelete ==
  ASSUME RouterInv, NEW e \in Events, HandleDelete(e)
  PROVE  RouterInv'
<1>1. /\ Handling(e) /\ Handled /\ EventsInv' /\ UNCHANGED <<reg, up, step, left>> /\ step = "idle"
      /\ up /\ e.lease.subnet \in Subnet /\ e.type = "delete"
  BY HandledKeeps DEF HandleDelete, HandlingDelete, RouterInv
<1>2. /\ kernel' \in [Subnet -> Gateways \cup {NoRoute}]
      /\ kernel'[e.lease.subnet] =
           IF kernel[e.lease.subnet] = e.lease.ip THEN NoRoute ELSE kernel[e.lease.subnet]
      /\ \A s \in Subnet : s # e.lease.subnet => kernel'[s] = kernel[s]
  BY <1>1 DEF HandleDelete, RouterInv, TypeOK
<1>3. RoutesFollowLeases'
  BY <1>1, <1>2, Followed
<1>4. TypeOK' /\ StepOK'
  BY <1>1, <1>2 DEF RouterInv, TypeOK, StepOK, EventsInv, HandleDelete
<1>5. Listed'
  <2> SUFFICES ASSUME NEW r \in routes' PROVE kernel'[r.dst] = r.gw
    BY DEF Listed
  <2>1. r \in routes /\ r # RouteTo(e.lease) /\ r \in [dst : Subnet, gw : Gateways]
    BY DEF HandleDelete, RouterInv, TypeOK
  <2>2. kernel[r.dst] = r.gw /\ r = [dst |-> r.dst, gw |-> r.gw] /\ r.dst \in Subnet
    BY <2>1, <1>1 DEF RouterInv, Listed
  <2> QED BY <2>1, <2>2, <1>2 DEF RouteTo
<1> QED BY <1>1, <1>3, <1>4, <1>5 DEF RouterInv

\* one that the kernel refuses;
LEMMA RouterRefused ==
  ASSUME RouterInv, NEW e \in Events, DeleteRefused(e)
  PROVE  RouterInv'
<1>1. /\ Handling(e) /\ Handled /\ EventsInv' /\ UNCHANGED <<reg, up, step, kernel>> /\ step = "idle"
      /\ up /\ e.lease.subnet \in Subnet /\ e.type = "delete"
  BY HandledKeeps DEF DeleteRefused, HandlingDelete, RouterInv
<1>2. RoutesFollowLeases'
  BY <1>1, Followed
<1>3. TypeOK' /\ StepOK' /\ Listed'
  BY <1>1 DEF RouterInv, TypeOK, StepOK, Listed, EventsInv, DeleteRefused
<1> QED BY <1>1, <1>2, <1>3 DEF RouterInv

\* the start of a daemon;
LEMMA RouterRestart ==
  ASSUME RouterInv, RestartDaemon
  PROVE  RouterInv'
<1>1. /\ EventsInv' /\ UNCHANGED <<reg, kernel, routes, step>> /\ up' /\ ~up
      /\ \A s \in Subnet : reg[s] # NoLease => Pending(s)'
  BY RestartKeeps DEF RestartDaemon, RouterInv
<1>2. step = "idle" /\ routes = {}
  BY <1>1 DEF RouterInv, TypeOK, StepOK
<1>3. TypeOK' /\ StepOK' /\ Listed'
  BY <1>1, <1>2 DEF RouterInv, TypeOK, StepOK, Listed, EventsInv, RestartDaemon, Routed
<1>4. RoutesFollowLeases'
  BY <1>1 DEF RoutesFollowLeases
<1> QED BY <1>1, <1>3, <1>4 DEF RouterInv

\* and its end.
LEMMA RouterStop ==
  ASSUME RouterInv, Stop
  PROVE  RouterInv'
<1>1. EventsInv' /\ UNCHANGED <<reg, kernel, left>> /\ ~up' /\ routes' = {} /\ step' = "idle"
  BY DieKeeps DEF Stop, RouterInv
<1>2. TypeOK' /\ StepOK' /\ Listed' /\ RoutesFollowLeases'
  BY <1>1 DEF RouterInv, TypeOK, StepOK, Listed, EventsInv, RoutesFollowLeases
<1> QED BY <1>1, <1>2 DEF RouterInv

\* So every step does,
LEMMA RouterKept == RouterInv /\ [Next]_vars => RouterInv'
<1> SUFFICES ASSUME RouterInv, [Next]_vars PROVE RouterInv'
  OBVIOUS
<1>1. CASE Registry /\ UNCHANGED <<kernel, routes, step, left>>
  BY <1>1, RouterRegistry
<1>2. ASSUME NEW e \in Events, Handle(e) PROVE RouterInv'
  BY <1>2, RouterIgnore, RouterAdd, RouterDeleteOld, RouterAddNew, RouterDelete, RouterRefused DEF Handle
<1>3. CASE RestartDaemon
  BY <1>3, RouterRestart
<1>4. CASE Stop
  BY <1>4, RouterStop
<1>5. CASE UNCHANGED vars
  <2>1. EventsInv' /\ \A s \in Subnet : Pending(s)' <=> Pending(s)
    BY <1>5, EventsStutter DEF vars, RouterInv
  <2>2. TypeOK' /\ StepOK' /\ Listed' /\ RoutesFollowLeases'
    BY <1>5, <2>1 DEF vars, RouterInv, TypeOK, StepOK, Listed, RoutesFollowLeases, EventsInv, Ours, RouteTo
  <2> QED BY <2>1, <2>2 DEF RouterInv
<1> QED BY <1>1, <1>2, <1>3, <1>4, <1>5 DEF Next

\* and it always holds.
LEMMA RouterAlways == Spec => []RouterInv
<1> QED BY RouterStart, RouterKept, PTL DEF Spec

(***************************************************************************)
(* Subnets nobody has registered                                           *)
(***************************************************************************)

\* A queued Delete of ours takes back the Put before it, or, if there is none, finds
\* that route in the kernel or no route at all.
Undone(i) ==
  LET l == queue[i].lease
      Before(j) == j < i /\ queue[j].lease.subnet = l.subnet
  IN  queue[i].type = "delete" /\ Ours(l) =>
        \/ \E j \in DOMAIN queue :
             Before(j) /\ queue[j] = Put(l) /\ \A k \in DOMAIN queue : k > j => ~Before(k)
        \/ /\ \A j \in DOMAIN queue : ~Before(j)
           /\ l.subnet \in left \/ kernel[l.subnet] \in {NoRoute, l.ip}

Vacated ==
  up => \A s \in Subnet \ left :
    ~(reg[s] # NoLease /\ Ours(reg[s])) /\ ~Pending(s) => kernel[s] = NoRoute

UndoneInv == Vacated /\ \A i \in DOMAIN queue : Undone(i)

\* When an event is handled whose subnet's route is then that of its lease, if it is a
\* Put of ours, the Deletes behind it have moved up by one.
LEMMA UndoneHandled ==
  ASSUME RouterInv, UndoneInv, NEW e \in Events, Handling(e), Handled,
         \A s \in Subnet : s # e.lease.subnet => kernel'[s] = kernel[s],
         \A s \in Subnet : s # e.lease.subnet => (s \in left => s \in left'),
         e.type = "put" /\ Ours(e.lease) => kernel'[e.lease.subnet] = e.lease.ip
  PROVE  \A i \in DOMAIN queue' : Undone(i)'
<1>1. queue \in Seq(Events) /\ queue # <<>> /\ e = queue[1] /\ queue' = Tail(queue)
  BY DEF Handling, Handled, RouterInv, EventsInv, EventsOK
<1>2. /\ Len(queue) \in Nat /\ Len(queue) >= 1 /\ DOMAIN queue = 1..Len(queue)
      /\ queue' \in Seq(Events) /\ DOMAIN queue' = 1..(Len(queue) - 1)
      /\ \A i \in 1..(Len(queue) - 1) : queue'[i] = queue[i + 1]
  BY <1>1
<1> SUFFICES ASSUME NEW i \in DOMAIN queue', queue'[i].type = "delete", Ours(queue'[i].lease)
             PROVE  Undone(i)'
  BY DEF Undone, Ours
<1>3. PICK l \in Lease : l = queue'[i].lease /\ l.subnet \in Subnet
  BY <1>2, OursFacts, LeaseAssumption
<1>4. i + 1 \in DOMAIN queue /\ queue[i + 1] = queue'[i] /\ i \in Nat /\ i >= 1
  BY <1>2
<1>5. CASE \E j \in DOMAIN queue : /\ j < i + 1 /\ queue[j].lease.subnet = l.subnet /\ queue[j] = Put(l)
                                   /\ \A k \in DOMAIN queue : k > j /\ k < i + 1 => queue[k].lease.subnet # l.subnet
  <2>1. PICK j \in DOMAIN queue : /\ j < i + 1 /\ queue[j].lease.subnet = l.subnet /\ queue[j] = Put(l)
                                  /\ \A k \in DOMAIN queue : k > j /\ k < i + 1 => queue[k].lease.subnet # l.subnet
    BY <1>5
  <2>2. ASSUME NEW k \in DOMAIN queue', k > j - 1, k < i PROVE queue'[k].lease.subnet # l.subnet
    <3>1. k + 1 \in DOMAIN queue /\ queue'[k] = queue[k + 1] /\ k + 1 > j /\ k + 1 < i + 1
      BY <2>2, <1>2, <1>4
    <3> QED BY <3>1, <2>1
  <2>3. CASE j = 1
    <3>1. e = Put(l) /\ l.subnet = e.lease.subnet
      BY <2>1, <2>3, <1>1
    <3>2. kernel'[l.subnet] = l.ip
      BY <3>1, <1>3 DEF Put, Ours
    <3>3. \A k \in DOMAIN queue' : k < i => queue'[k].lease.subnet # l.subnet
      BY <2>2, <2>3, <1>2
    <3> QED BY <3>2, <3>3, <1>3 DEF Undone
  <2>4. CASE j # 1
    <3>1. PICK m \in DOMAIN queue' : m = j - 1 /\ queue'[m] = queue[j]
      <4>1. j - 1 \in DOMAIN queue' /\ queue'[j - 1] = queue[(j - 1) + 1] /\ (j - 1) + 1 = j
        BY <2>1, <2>4, <1>2
      <4> QED BY <4>1
    <3>2. m < i
      BY <3>1, <2>1, <1>2
    <3> QED BY <3>1, <3>2, <2>1, <2>2, <1>3 DEF Undone
  <2> QED BY <2>3, <2>4
<1>6. CASE /\ \A j \in DOMAIN queue : j < i + 1 => queue[j].lease.subnet # l.subnet
           /\ l.subnet \in left \/ kernel[l.subnet] \in {NoRoute, l.ip}
  <2>1. 1 \in DOMAIN queue /\ 1 < i + 1
    BY <1>2, <1>4
  <2>2. l.subnet # e.lease.subnet
    BY <2>1, <1>1, <1>6
  <2>3. ASSUME NEW j \in DOMAIN queue', j < i PROVE queue'[j].lease.subnet # l.subnet
    <3>1. j + 1 \in DOMAIN queue /\ queue'[j] = queue[j + 1] /\ j + 1 < i + 1
      BY <2>3, <1>2, <1>4
    <3> QED BY <3>1, <1>6
  <2>4. l.subnet \in left' \/ kernel'[l.subnet] \in {NoRoute, l.ip}
    BY <2>2, <1>3, <1>6
  <2> QED BY <2>3, <2>4, <1>3 DEF Undone
<1>7. Undone(i + 1) /\ queue[i + 1].type = "delete" /\ Ours(l) /\ queue[i + 1].lease = l
  BY <1>3, <1>4 DEF UndoneInv
<1> QED BY <1>5, <1>6, <1>7 DEF Undone

\* A subnet of which the last event has been handled and that is not to be routed is
\* not, if it was that event that left it so.
LEMMA VacatedHandled ==
  ASSUME RouterInv, UndoneInv, NEW e \in Events, Handling(e), Handled,
         \A s \in Subnet : s # e.lease.subnet => kernel'[s] = kernel[s],
         \A s \in Subnet : s # e.lease.subnet => (s \in left => s \in left'),
         \/ e.type = "put" /\ Ours(e.lease)
         \/ e.lease.subnet \in left'
         \/ kernel'[e.lease.subnet] = NoRoute
  PROVE  Vacated'
<1>1. /\ UNCHANGED <<reg, up>> /\ e.lease.subnet \in Subnet
      /\ \A s \in Subnet : s # e.lease.subnet => (Pending(s)' <=> Pending(s))
      /\ ~Pending(e.lease.subnet)' => Says(e, e.lease.subnet)
  BY HandledKeeps DEF RouterInv
<1> SUFFICES ASSUME up, NEW s \in Subnet \ left', ~(reg[s] # NoLease /\ Ours(reg[s])), ~Pending(s)'
             PROVE  kernel'[s] = NoRoute
  BY <1>1 DEF Vacated, Ours
<1>2. CASE s # e.lease.subnet
  BY <1>1, <1>2 DEF UndoneInv, Vacated
<1>3. CASE s = e.lease.subnet
  <2>1. Says(e, s)
    BY <1>1, <1>3
  <2>2. ~(e.type = "put" /\ Ours(e.lease))
    BY <2>1 DEF Says, Put
  <2> QED BY <2>2, <1>3
<1> QED BY <1>2, <1>3

\* A Delete that is queued takes back the last Put for its subnet, or finds the route
\* of a registration all of whose events have been handled.
LEMMA UndoneRegistry ==
  ASSUME RouterInv, UndoneInv, Registry, UNCHANGED <<kernel, routes, step, left>>
  PROVE  UndoneInv'
<1>1. RegistryStep
  BY RegistryKeeps DEF RouterInv
<1>2. Vacated'
  <2> SUFFICES ASSUME up, NEW s \in Subnet \ left, ~(reg'[s] # NoLease /\ Ours(reg'[s])), ~Pending(s)'
               PROVE  kernel[s] = NoRoute
    BY <1>1 DEF RegistryStep, Vacated, Ours
  <2>1. reg'[s] = reg[s] /\ ~Pending(s)
    BY <1>1 DEF RegistryStep
  <2> QED BY <2>1 DEF UndoneInv, Vacated
<1>3. PICK e \in Events :
        Tell(e) /\ (e.type = "delete" => e.lease \in {reg[e.lease.subnet], [subnet |-> e.lease.subnet]})
  BY <1>1 DEF RegistryStep
<1>4. CASE ~up
  <2>1. queue = <<>> /\ queue' = <<>>
    BY <1>3, <1>4 DEF Tell, RouterInv, EventsInv
  <2> QED BY <2>1, <1>2 DEF UndoneInv
<1>5. CASE up
  <2>1. queue' = Append(queue, e) /\ queue \in Seq(Events)
    BY <1>3, <1>5 DEF Tell, RouterInv, EventsInv, EventsOK
  <2>2. PICK n \in Nat : DOMAIN queue = 1..(n - 1) /\ DOMAIN queue' = 1..n /\ queue'[n] = e /\ n >= 1
                         /\ \A i \in 1..(n - 1) : queue'[i] = queue[i]
    <3>1. Len(queue) + 1 \in Nat /\ (Len(queue) + 1) - 1 = Len(queue) /\ Len(queue) + 1 >= 1
      BY <2>1
    <3>2. DOMAIN queue = 1..Len(queue) /\ DOMAIN queue' = 1..(Len(queue) + 1)
          /\ queue'[Len(queue) + 1] = e /\ \A i \in 1..Len(queue) : queue'[i] = queue[i]
      BY <2>1
    <3> QED BY <3>1, <3>2
  <2>3. ASSUME NEW i \in DOMAIN queue PROVE Undone(i)'
    <3>1. i \in DOMAIN queue' /\ queue'[i] = queue[i] /\ \A j \in DOMAIN queue' : j < i => j \in DOMAIN queue
      BY <2>2
    <3>2. \A j \in DOMAIN queue : j \in DOMAIN queue' /\ queue'[j] = queue[j]
      BY <2>2
    <3>3. Undone(i)
      BY DEF UndoneInv
    <3> QED BY <3>1, <3>2, <3>3 DEF Undone, Ours
  <2>4. Undone(n)'
    <3> SUFFICES ASSUME e.type = "delete", Ours(e.lease) PROVE Undone(n)'
      BY <2>2 DEF Undone, Ours
    <3>1. PICK l \in Lease : l = e.lease /\ l.subnet \in Subnet
      BY OursFacts, LeaseAssumption
    <3>2. DOMAIN [subnet |-> e.lease.subnet] = {"subnet"}
      OBVIOUS
    <3>3. l = reg[l.subnet] /\ l # NoLease
      BY <1>3, <3>1, <3>2, LeaseAssumption DEF Ours
    <3>4. CASE Pending(l.subnet)
      <4>1. PICK j \in DOMAIN queue : LastFor(j, l.subnet)
        BY <3>1, <3>4 DEF RouterInv, EventsInv, Agrees
      <4>2. queue[j] = Put(l)
        BY <4>1, <3>1, <3>3 DEF RouterInv, EventsInv, Agrees, Says
      <4>3. j \in DOMAIN queue' /\ j < n /\ queue'[j] = queue[j] /\ queue'[j].lease.subnet = l.subnet
        BY <4>1, <2>2 DEF LastFor
      <4>4. \A k \in DOMAIN queue' : k > j /\ k < n => queue'[k].lease.subnet # l.subnet
        BY <4>1, <2>2 DEF LastFor
      <4> QED BY <4>2, <4>3, <4>4, <3>1, <2>2 DEF Undone
    <3>5. CASE ~Pending(l.subnet)
      <4>1. kernel[l.subnet] = l.ip
        BY <3>1, <3>3, <3>5, <1>5 DEF RouterInv, RoutesFollowLeases
      <4>2. \A j \in DOMAIN queue' : j < n => queue'[j].lease.subnet # l.subnet
        BY <3>5, <2>2 DEF Pending
      <4> QED BY <4>1, <4>2, <3>1, <2>2 DEF Undone
    <3> QED BY <3>4, <3>5
  <2>5. \A i \in DOMAIN queue' : i \in DOMAIN queue \/ i = n
    BY <2>2
  <2> QED BY <1>2, <2>3, <2>4, <2>5 DEF UndoneInv
<1> QED BY <1>4, <1>5

\* Each way to handle an event.
LEMMA UndoneHandle ==
  ASSUME RouterInv, UndoneInv, NEW e \in Events, Handle(e)
  PROVE  UndoneInv'
<1> USE DEF UndoneInv
<1>1. CASE Ignore(e) \/ DeleteRefused(e)
  <2>1. /\ Handling(e) /\ Handled /\ kernel' = kernel /\ left' = left \cup ({e.lease.subnet} \cap Routed)
        /\ ~Ours(e.lease) \/ e.type = "delete"
        /\ e.lease.subnet \in Subnet
    BY <1>1, EventFacts DEF Ignore, DeleteRefused, HandlingDelete
  <2>2. e.lease.subnet \in left' \/ kernel'[e.lease.subnet] = NoRoute
    BY <2>1 DEF Routed
  <2> QED BY <2>1, <2>2, UndoneHandled, VacatedHandled
<1>2. CASE AddRoute(e) \/ AddNewRoute(e)
  <2>1. /\ Handling(e) /\ Handled /\ kernel' = [kernel EXCEPT ![e.lease.subnet] = e.lease.ip]
        /\ left' = left \ {e.lease.subnet} /\ e.lease.subnet \in Subnet
    BY <1>2, EventFacts DEF AddRoute, AddNewRoute, HandlingPut
  <2>2. e.type = "put" /\ Ours(e.lease)
    BY <1>2 DEF AddRoute, AddNewRoute, HandlingPut, RouterInv, StepOK, Handling
  <2>3. kernel'[e.lease.subnet] = e.lease.ip /\ \A s \in Subnet : s # e.lease.subnet => kernel'[s] = kernel[s]
    BY <2>1 DEF RouterInv, TypeOK
  <2> QED BY <2>1, <2>2, <2>3, UndoneHandled, VacatedHandled
<1>3. CASE HandleDelete(e)
  <2>1. /\ Handling(e) /\ Handled /\ left' = left /\ e.type = "delete" /\ Ours(e.lease)
        /\ kernel' = [kernel EXCEPT ![e.lease.subnet] = IF @ = e.lease.ip THEN NoRoute ELSE @]
        /\ e.lease.subnet \in Subnet
    BY <1>3, EventFacts DEF HandleDelete, HandlingDelete
  <2>2. queue \in Seq(Events) /\ queue # <<>> /\ queue[1] = e
    BY <2>1 DEF Handling, RouterInv, EventsInv, EventsOK
  <2>3. 1 \in DOMAIN queue /\ \A j \in DOMAIN queue : ~(j < 1)
    BY <2>2
  <2>4. Undone(1)
    BY <2>3
  <2>5. e.lease.subnet \in left \/ kernel[e.lease.subnet] \in {NoRoute, e.lease.ip}
    BY <2>1, <2>2, <2>3, <2>4 DEF Undone
  <2>6. \A s \in Subnet : s # e.lease.subnet => kernel'[s] = kernel[s]
    BY <2>1 DEF RouterInv, TypeOK
  <2>7. e.lease.subnet \in left' \/ kernel'[e.lease.subnet] = NoRoute
    BY <2>1, <2>5 DEF RouterInv, TypeOK
  <2> QED BY <2>1, <2>6, <2>7, UndoneHandled, VacatedHandled
<1>4. CASE DeleteOldRoute(e)
  <2>1. /\ Handling(e) /\ UNCHANGED <<reg, queue, up, left>> /\ e.type = "put" /\ e.lease.subnet \in Subnet
        /\ kernel' = [kernel EXCEPT ![e.lease.subnet] = NoRoute]
    BY <1>4, EventFacts DEF DeleteOldRoute, HandlingPut
  <2>2. queue \in Seq(Events) /\ queue # <<>> /\ queue[1] = e
    BY <2>1 DEF Handling, RouterInv, EventsInv, EventsOK
  <2>3. kernel'[e.lease.subnet] = NoRoute /\ \A s \in Subnet : s # e.lease.subnet => kernel'[s] = kernel[s]
    BY <2>1 DEF RouterInv, TypeOK
  <2>4. Vacated'
    BY <2>1, <2>3 DEF Vacated, Ours, Pending
  <2>5. ASSUME NEW i \in DOMAIN queue', queue'[i].type = "delete", Ours(queue'[i].lease) PROVE Undone(i)'
    <3>1. queue[i] \in Events /\ queue[i].lease.subnet \in Subnet
      <4>1. i \in DOMAIN queue
        BY <2>1
      <4>2. queue[i] \in Events
        BY <4>1, <2>2
      <4> QED BY <4>2, EventFacts
    <3>2. queue[i].lease.subnet \in left \/ kernel[queue[i].lease.subnet] \in {NoRoute, queue[i].lease.ip}
             => queue[i].lease.subnet \in left \/ kernel'[queue[i].lease.subnet] \in {NoRoute, queue[i].lease.ip}
      BY <3>1, <2>3
    <3>3. Undone(i)
      BY <2>1, <2>5
    <3> QED BY <3>2, <3>3, <2>1, <2>5 DEF Undone, Ours
  <2> QED BY <2>4, <2>5 DEF Undone, Ours
<1> QED BY <1>1, <1>2, <1>3, <1>4 DEF Handle

\* Every step keeps what the queued Deletes take back.
LEMMA UndoneKept == RouterInv /\ UndoneInv /\ [Next]_vars => UndoneInv'
<1> SUFFICES ASSUME RouterInv, UndoneInv, [Next]_vars PROVE UndoneInv'
  OBVIOUS
<1>1. CASE Registry /\ UNCHANGED <<kernel, routes, step, left>>
  BY <1>1, UndoneRegistry
<1>2. ASSUME NEW e \in Events, Handle(e) PROVE UndoneInv'
  BY <1>2, UndoneHandle
<1>3. CASE RestartDaemon
  <2>1. left' = Routed /\ kernel' = kernel /\ \A i \in DOMAIN queue' : queue'[i].type = "put"
    BY <1>3, RestartKeeps DEF RestartDaemon, RouterInv
  <2>2. Vacated'
    BY <2>1 DEF Vacated, Routed
  <2> QED BY <2>1, <2>2 DEF UndoneInv, Undone
<1>4. CASE Stop
  <2>1. queue' = <<>> /\ ~up'
    BY <1>4 DEF Stop, Die
  <2> QED BY <2>1 DEF UndoneInv, Vacated
<1>5. CASE UNCHANGED vars
  BY <1>5 DEF vars, UndoneInv, Vacated, Undone, Ours, Pending
<1> QED BY <1>1, <1>2, <1>3, <1>4, <1>5 DEF Next

(***************************************************************************)
(* Theorems                                                                *)
(***************************************************************************)

\* The variables keep their types.
THEOREM TypeCorrect == Spec => []TypeOK
<1>1. RouterInv => TypeOK
  BY DEF RouterInv
<1> QED BY <1>1, RouterAlways, PTL

\* Once its events are handled a subnet of a host-gw host is routed to that host,
\* through kills between two netlink requests and whatever routes the kernel had.
THEOREM SubnetsAreRouted == Spec => []RoutesFollowLeases
<1>1. RouterInv => RoutesFollowLeases
  BY DEF RouterInv
<1> QED BY <1>1, RouterAlways, PTL

\* Between two events every route of the daemon's list is in the kernel.
THEOREM ListIsTrue == Spec => []ListedIsInstalled
<1>1. RouterInv => ListedIsInstalled
  BY DEF RouterInv, Listed, ListedIsInstalled
<1> QED BY <1>1, RouterAlways, PTL

\* Once its events are handled a subnet that no host-gw host has registered is routed
\* nowhere, except by a route from before the daemon's start or to a subnet that a host
\* with another backend has taken over.
THEOREM NothingIsLeft == Spec => []VacatedIsUnrouted
<1>1. Init => UndoneInv
  BY DEF Init, EventsInit, UndoneInv, Vacated
<1>2. RouterInv /\ UndoneInv => VacatedIsUnrouted
  BY DEF UndoneInv, Vacated, VacatedIsUnrouted
<1> QED BY <1>1, <1>2, RouterStart, RouterKept, UndoneKept, PTL DEF Spec
==============================================================================
