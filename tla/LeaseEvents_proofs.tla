-------------------------- MODULE LeaseEvents_proofs --------------------------
(***************************************************************************)
(* What the proofs about the backends need of LeaseEvents: the last event  *)
(* queued for a subnet says what its registration is now (EventsInv), each *)
(* step keeps that, and how it changes which subnets have events pending.  *)
(***************************************************************************)
EXTENDS LeaseEvents, TLAPS, SequenceTheorems, FiniteSetTheorems

LastFor(i, s) ==
  /\ i \in DOMAIN queue /\ queue[i].lease.subnet = s
  /\ \A j \in DOMAIN queue : j > i => queue[j].lease.subnet # s

\* What e says of the registration of s.
Says(e, s) == IF reg[s] = NoLease THEN e.type = "delete" ELSE e = Put(reg[s])

Agrees(s) ==
  /\ Pending(s) => \E i \in DOMAIN queue : LastFor(i, s)
  /\ \A i \in DOMAIN queue : LastFor(i, s) => Says(queue[i], s)

EventsInv ==
  /\ EventsOK
  /\ ~up => queue = <<>>
  /\ \A s \in Subnet : Agrees(s)

\* What an event is.
LEMMA EventFacts ==
  ASSUME NEW e \in Events
  PROVE  /\ e.lease.subnet \in Subnet
         /\ e.type \in {"put", "delete"}
         /\ e.type = "put" => e.lease \in Lease /\ e = Put(e.lease)
         /\ e.type = "delete" => e = Delete(e.lease)
         /\ e.lease \in Lease \/ e.lease = [subnet |-> e.lease.subnet]
<1>1. CASE \E l \in Lease : e = Put(l)
  BY <1>1, LeaseAssumption DEF Put
<1>2. CASE \E l \in Lease : e = Delete(l)
  BY <1>2, LeaseAssumption DEF Delete
<1>3. CASE \E s \in Subnet : e = Delete([subnet |-> s])
  BY <1>3 DEF Delete
<1> QED BY <1>1, <1>2, <1>3 DEF Events

\* Nothing is queued at first.
LEMMA EventsStart == EventsInit => EventsInv
<1> SUFFICES ASSUME EventsInit PROVE EventsInv
  OBVIOUS
<1>1. EventsOK
  <2>1. queue \in Seq(Events) /\ up \in BOOLEAN
    BY EmptySeq DEF EventsInit
  <2> QED BY <2>1 DEF EventsInit, EventsOK
<1>2. \A s \in Subnet : Agrees(s)
  BY DEF EventsInit, Agrees, LastFor, Pending
<1> QED BY <1>1, <1>2 DEF EventsInv, EventsInit

\* An event at the end of the queue is the last for its subnet, and changes nothing
\* for another.
LEMMA Told ==
  ASSUME EventsInv, NEW e \in Events, Tell(e), UNCHANGED up, reg' \in [Subnet -> Lease \cup {NoLease}],
         \A s \in Subnet : reg'[s] # NoLease => reg'[s].subnet = s,
         \A s \in Subnet : s # e.lease.subnet => reg'[s] = reg[s],
         Says(e, e.lease.subnet)'
  PROVE  /\ EventsInv'
         /\ queue # <<>> => queue' # <<>> /\ Head(queue') = Head(queue)
         /\ \A s \in Subnet : Pending(s) => Pending(s)'
         /\ up => Pending(e.lease.subnet)'
<1>1. CASE up
  <2>1. queue' = Append(queue, e) /\ queue \in Seq(Events)
    BY <1>1 DEF Tell, EventsInv, EventsOK
  <2>2. /\ queue' \in Seq(Events) /\ Len(queue) \in Nat /\ Len(queue') = Len(queue) + 1
        /\ DOMAIN queue = 1..Len(queue) /\ DOMAIN queue' = 1..(Len(queue) + 1)
        /\ queue'[Len(queue) + 1] = e
        /\ \A i \in 1..Len(queue) : queue'[i] = queue[i]
    BY <2>1
  <2>3. EventsOK'
    BY <2>2 DEF EventsOK, EventsInv
  <2>4. ASSUME NEW s \in Subnet PROVE Agrees(s)'
    <3>1. CASE s = e.lease.subnet
      <4>1. PICK n \in Nat : n \in DOMAIN queue' /\ DOMAIN queue' = 1..n /\ queue'[n] = e
        BY <2>2
      <4>2. n \in DOMAIN queue' /\ LastFor(n, s)'
        BY <3>1, <4>1 DEF LastFor
      <4>3. ASSUME NEW i \in DOMAIN queue', LastFor(i, s)' PROVE Says(queue[i], s)'
        <5>1. i = n
          BY <3>1, <4>1, <4>3 DEF LastFor
        <5> QED BY <5>1, <3>1, <4>1 DEF Says
      <4> QED BY <4>2, <4>3 DEF Agrees
    <3>2. CASE s # e.lease.subnet
      <4>1. ASSUME NEW i \in DOMAIN queue', LastFor(i, s)' PROVE Says(queue[i], s)'
        <5>1. i \in DOMAIN queue /\ LastFor(i, s) /\ queue'[i] = queue[i]
          BY <4>1, <3>2, <2>2 DEF LastFor
        <5>2. Says(queue[i], s)
          BY <5>1 DEF EventsInv, Agrees
        <5> QED BY <5>1, <5>2, <3>2 DEF Says
      <4>2. ASSUME Pending(s)' PROVE \E i \in DOMAIN queue' : LastFor(i, s)'
        <5>1. Pending(s)
          BY <4>2, <3>2, <2>2 DEF Pending
        <5>2. PICK i \in DOMAIN queue : LastFor(i, s)
          BY <5>1 DEF EventsInv, Agrees
        <5>3. i \in DOMAIN queue' /\ LastFor(i, s)'
          BY <5>2, <3>2, <2>2 DEF LastFor
        <5> QED BY <5>3
      <4> QED BY <4>1, <4>2 DEF Agrees
    <3> QED BY <3>1, <3>2
  <2>5. \A s \in Subnet : Pending(s) => Pending(s)'
    BY <2>2 DEF Pending
  <2>6. Pending(e.lease.subnet)'
    <3>1. Len(queue) + 1 \in DOMAIN queue'
      BY <2>2
    <3> QED BY <3>1, <2>2 DEF Pending
  <2>7. queue # <<>> => queue' # <<>> /\ Head(queue') = Head(queue)
    BY <2>1, <2>2
  <2> QED BY <1>1, <2>3, <2>4, <2>5, <2>6, <2>7 DEF EventsInv
<1>2. CASE ~up
  <2>1. queue = <<>> /\ queue' = <<>>
    BY <1>2 DEF Tell, EventsInv
  <2>2. EventsOK' /\ \A s \in Subnet : Agrees(s)'
    BY <2>1, <1>2 DEF EventsInv, EventsOK, Agrees, Pending
  <2>3. \A s \in Subnet : Pending(s) => Pending(s)'
    BY <2>1 DEF Pending
  <2> QED BY <1>2, <2>1, <2>2, <2>3 DEF EventsInv
<1> QED BY <1>1, <1>2

\* What a step of the registry leaves a backend to rely on.
RegistryStep ==
  /\ EventsInv' /\ UNCHANGED up
  /\ queue # <<>> => queue' # <<>> /\ Head(queue') = Head(queue)
  /\ \A s \in Subnet : Pending(s) => Pending(s)'
  /\ \A s \in Subnet : up /\ ~Pending(s)' => reg'[s] = reg[s]
  /\ \E e \in Events :
       Tell(e) /\ (e.type = "delete" => e.lease \in {reg[e.lease.subnet], [subnet |-> e.lease.subnet]})

\* A registration or its end: its event is queued last.
LEMMA RegistryKeeps ==
  ASSUME EventsInv, Registry
  PROVE  RegistryStep
<1>1. ASSUME NEW l \in Lease, Register(l) PROVE RegistryStep
  <2>1. Put(l) \in Events /\ Put(l).lease = l /\ Put(l).type = "put" /\ l.subnet \in Subnet /\ l # NoLease
    BY LeaseAssumption DEF Events, Put
  <2>2. /\ reg' \in [Subnet -> Lease \cup {NoLease}] /\ reg'[l.subnet] = l
        /\ \A s \in Subnet : s # l.subnet => reg'[s] = reg[s]
    BY <1>1, <2>1 DEF Register, EventsInv, EventsOK
  <2>3. Says(Put(l), l.subnet)'
    BY <2>1, <2>2 DEF Says
  <2>4. \A s \in Subnet : reg'[s] # NoLease => reg'[s].subnet = s
    BY <2>2 DEF EventsInv, EventsOK
  <2>5. Tell(Put(l)) /\ UNCHANGED up
    BY <1>1 DEF Register
  <2>6. \E e \in Events : Tell(e) /\ (e.type = "delete" => e.lease = reg[e.lease.subnet])
    BY <2>1, <2>5
  <2> QED BY <2>1, <2>2, <2>3, <2>4, <2>5, <2>6, Told DEF RegistryStep
<1>2. ASSUME NEW s \in Subnet, Unregister(s) PROVE RegistryStep
  <2>1. reg[s] \in Lease /\ reg[s].subnet = s
    BY <1>2 DEF Unregister, EventsInv, EventsOK
  <2>2. PICK e \in Events : e = Delete(reg[s])
    BY <2>1 DEF Events
  <2>3. e.type = "delete" /\ e.lease.subnet = s
    BY <2>1, <2>2 DEF Delete
  <2>4. /\ reg' \in [Subnet -> Lease \cup {NoLease}] /\ reg'[s] = NoLease
        /\ \A t \in Subnet : t # s => reg'[t] = reg[t]
    BY <1>2, <2>1 DEF Unregister, EventsInv, EventsOK
  <2>5. Says(e, s)'
    BY <2>3, <2>4 DEF Says
  <2>6. \A t \in Subnet : reg'[t] # NoLease => reg'[t].subnet = t
    BY <2>4 DEF EventsInv, EventsOK
  <2>7. Tell(e) /\ UNCHANGED up
    BY <1>2, <2>2 DEF Unregister
  <2>8. e.lease = reg[e.lease.subnet]
    BY <2>2, <2>3 DEF Delete
  <2> QED BY <2>3, <2>4, <2>5, <2>6, <2>7, <2>8, Told DEF RegistryStep
<1>3. ASSUME NEW s \in Subnet, DeleteUnknown(s) PROVE RegistryStep
  <2> DEFINE e == Delete([subnet |-> s])
  <2>1. e \in Events /\ e.lease.subnet = s /\ e.type = "delete" /\ e.lease = [subnet |-> e.lease.subnet]
    BY DEF Events, Delete
  <2>2. Says(e, s)' /\ reg' = reg
    BY <1>3, <2>1 DEF DeleteUnknown, Says
  <2> HIDE DEF e
  <2>3. Tell(e) /\ UNCHANGED up
    BY <1>3 DEF DeleteUnknown, e
  <2> QED BY <2>1, <2>2, <2>3, Told DEF RegistryStep, EventsInv, EventsOK
<1> QED BY <1>1, <1>2, <1>3 DEF Registry, Gone

\* What handling an event leaves a backend to rely on: an event that was the last for
\* its subnet spoke of the registration as it is.
LEMMA HandledKeeps ==
  ASSUME EventsInv, NEW e, Handling(e), Handled
  PROVE  /\ EventsInv' /\ UNCHANGED <<reg, up>> /\ up
         /\ e \in Events /\ e.lease.subnet \in Subnet /\ Pending(e.lease.subnet)
         /\ \A s \in Subnet : s # e.lease.subnet => (Pending(s)' <=> Pending(s))
         /\ ~Pending(e.lease.subnet)' => Says(e, e.lease.subnet)
<1>1. queue \in Seq(Events) /\ queue # <<>> /\ e = queue[1] /\ queue' = Tail(queue) /\ UNCHANGED <<reg, up>> /\ up
  BY DEF Handling, Handled, EventsInv, EventsOK
<1>2. /\ Len(queue) \in Nat /\ Len(queue) >= 1 /\ DOMAIN queue = 1..Len(queue) /\ e \in Events
      /\ queue' \in Seq(Events) /\ Len(queue') = Len(queue) - 1 /\ DOMAIN queue' = 1..(Len(queue) - 1)
      /\ \A i \in 1..(Len(queue) - 1) : queue'[i] = queue[i + 1]
  BY <1>1
<1>3. e.lease.subnet \in Subnet
  BY <1>2, EventFacts
<1>4. Pending(e.lease.subnet)
  <2>1. 1 \in DOMAIN queue
    BY <1>2
  <2> QED BY <1>1, <2>1 DEF Pending
<1>5. ASSUME NEW s \in Subnet, s # e.lease.subnet PROVE Pending(s)' <=> Pending(s)
  <2>1. ASSUME Pending(s)' PROVE Pending(s)
    <3>1. PICK i \in DOMAIN queue' : queue'[i].lease.subnet = s
      BY <2>1 DEF Pending
    <3>2. i + 1 \in DOMAIN queue /\ queue[i + 1].lease.subnet = s
      BY <3>1, <1>2
    <3> QED BY <3>2 DEF Pending
  <2>2. ASSUME Pending(s) PROVE Pending(s)'
    <3>1. PICK i \in DOMAIN queue : queue[i].lease.subnet = s
      BY <2>2 DEF Pending
    <3>2. i # 1
      BY <3>1, <1>1, <1>5
    <3>3. i - 1 \in DOMAIN queue' /\ queue'[i - 1] = queue[(i - 1) + 1] /\ (i - 1) + 1 = i
      BY <3>1, <3>2, <1>2
    <3> QED BY <3>1, <3>3 DEF Pending
  <2> QED BY <2>1, <2>2
<1>6. ASSUME NEW s \in Subnet, NEW i \in DOMAIN queue', LastFor(i, s)' PROVE Says(queue[i], s)'
  <2>1. i + 1 \in DOMAIN queue /\ queue'[i] = queue[i + 1]
    BY <1>2
  <2>2. ASSUME NEW j \in DOMAIN queue, j > i + 1 PROVE queue[j].lease.subnet # s
    <3>1. j - 1 \in DOMAIN queue' /\ j - 1 > i /\ queue'[j - 1] = queue[(j - 1) + 1] /\ (j - 1) + 1 = j
      BY <2>2, <2>1, <1>2
    <3> QED BY <1>6, <3>1 DEF LastFor
  <2>3. LastFor(i + 1, s)
    BY <1>6, <2>1, <2>2 DEF LastFor
  <2>4. Says(queue[i + 1], s)
    BY <2>1, <2>3 DEF EventsInv, Agrees
  <2> QED BY <2>1, <2>4, <1>1 DEF Says
<1>7. ASSUME ~Pending(e.lease.subnet)' PROVE Says(e, e.lease.subnet)
  <2>1. ASSUME NEW j \in DOMAIN queue, j > 1 PROVE queue[j].lease.subnet # e.lease.subnet
    <3>1. j - 1 \in DOMAIN queue' /\ queue'[j - 1] = queue[(j - 1) + 1] /\ (j - 1) + 1 = j
      BY <2>1, <1>2
    <3>2. queue'[j - 1].lease.subnet # (e.lease.subnet)
      BY <1>7, <3>1 DEF Pending
    <3> QED BY <3>1, <3>2
  <2>2. LastFor(1, e.lease.subnet) /\ 1 \in DOMAIN queue
    BY <1>1, <1>2, <2>1 DEF LastFor
  <2> QED BY <2>2, <1>1, <1>3 DEF EventsInv, Agrees
<1>8. ASSUME NEW s \in Subnet, Pending(s)' PROVE \E i \in DOMAIN queue' : LastFor(i, s)'
  <2>1. PICK k \in DOMAIN queue' : queue'[k].lease.subnet = s
    BY <1>8 DEF Pending
  <2>2. k + 1 \in DOMAIN queue /\ queue[k + 1].lease.subnet = s
    BY <2>1, <1>2
  <2>3. PICK i \in DOMAIN queue : LastFor(i, s)
    BY <2>2 DEF EventsInv, Agrees, Pending
  <2>4. i >= k + 1
    BY <2>2, <2>3, <1>2 DEF LastFor
  <2>5. i - 1 \in DOMAIN queue' /\ queue'[i - 1] = queue[(i - 1) + 1] /\ (i - 1) + 1 = i
    BY <2>1, <2>4, <1>2
  <2>6. LastFor(i - 1, s)'
    <3>1. queue'[i - 1].lease.subnet = s
      BY <2>3, <2>5 DEF LastFor
    <3>2. ASSUME NEW j \in DOMAIN queue', j > i - 1 PROVE queue'[j].lease.subnet # s
      <4>1. j + 1 \in DOMAIN queue /\ queue'[j] = queue[j + 1] /\ j \in Int /\ i \in Int
        BY <2>5, <1>2
      <4>2. j + 1 > i
        BY <4>1, <3>2
      <4> QED BY <4>1, <4>2, <2>3 DEF LastFor
    <3> QED BY <2>5, <3>1, <3>2 DEF LastFor
  <2> QED BY <2>5, <2>6
<1>9. EventsOK'
  BY <1>1, <1>2 DEF EventsInv, EventsOK
<1>10. \A s \in Subnet : Agrees(s)'
  BY <1>6, <1>8 DEF Agrees
<1> QED BY <1>1, <1>2, <1>3, <1>4, <1>5, <1>7, <1>9, <1>10 DEF EventsInv

\* SetToSeq has every element of a finite set.
LEMMA SnapshotComplete ==
  ASSUME NEW S, IsFiniteSet(S)
  PROVE  /\ Cardinality(S) \in Nat /\ SetToSeq(S) \in [1..Cardinality(S) -> S]
         /\ IsInjective(SetToSeq(S))
         /\ \A x \in S : \E i \in 1..Cardinality(S) : SetToSeq(S)[i] = x
<1> DEFINE D == 1..Cardinality(S)
<1>1. Cardinality(S) \in Nat /\ ExistsBijection(D, S)
  BY FS_CardinalityType
<1>2. \E f \in [D -> S] : IsInjective(f)
  BY <1>1 DEF ExistsBijection, Bijection, Injection
<1>3. SetToSeq(S) \in [D -> S] /\ IsInjective(SetToSeq(S))
  BY <1>2 DEF SetToSeq
<1>4. SetToSeq(S) \in Injection(D, S)
  BY <1>3 DEF Injection
<1>5. IsFiniteSet(D) /\ Cardinality(D) = Cardinality(S)
  BY <1>1, FS_Interval
<1>6. SetToSeq(S) \in Surjection(D, S)
  BY <1>4, <1>5, FS_Injection
<1> QED BY <1>1, <1>3, <1>6 DEF Surjection

\* After a start every registered subnet is pending.
LEMMA RestartKeeps ==
  ASSUME EventsInv, Restart
  PROVE  /\ EventsInv' /\ UNCHANGED reg /\ up' /\ ~up
         /\ \A s \in Subnet : reg[s] # NoLease => Pending(s)'
         /\ \A i \in DOMAIN queue' : queue'[i].type = "put"
<1> DEFINE leases == SetToSeq(Registered)
           n == Cardinality(Registered)
<1>1. reg \in Surjection(Subnet, {reg[s] : s \in Subnet})
  BY DEF EventsInv, EventsOK, Surjection
<1>2. IsFiniteSet({reg[s] : s \in Subnet})
  BY <1>1, FS_Surjection, SubnetAssumption
<1>3. IsFiniteSet(Registered)
  BY <1>2, FS_Subset DEF Registered
<1>4. /\ n \in Nat /\ leases \in [1..n -> Registered] /\ IsInjective(leases)
      /\ \A x \in Registered : \E i \in 1..n : leases[i] = x
  BY <1>3, SnapshotComplete
<1> HIDE DEF leases, n
<1>5. queue' = [i \in 1..n |-> Put(leases[i])] /\ UNCHANGED reg /\ up' /\ ~up
  BY <1>4 DEF Restart, leases
<1>6. \A l \in Registered : l \in Lease /\ reg[l.subnet] = l /\ l.subnet \in Subnet /\ Put(l) \in Events
  BY LeaseAssumption DEF Registered, EventsInv, EventsOK, Events
<1>7. DOMAIN queue' = 1..n /\ queue' \in Seq(Events)
      /\ \A i \in 1..n : queue'[i] = Put(leases[i]) /\ leases[i] \in Registered
  <2>1. queue' \in [1..n -> Events]
    BY <1>4, <1>5, <1>6
  <2>2. queue' \in Seq(Events)
    BY <2>1, <1>4, SeqDef
  <2> QED BY <2>2, <1>4, <1>5
<1>8. EventsOK'
  BY <1>5, <1>7 DEF EventsInv, EventsOK
<1>9. ASSUME NEW s \in Subnet PROVE Agrees(s)'
  <2>1. ASSUME NEW i \in DOMAIN queue', queue'[i].lease.subnet = s
        PROVE  Says(queue[i], s)' /\ LastFor(i, s)'
    <3>1. queue'[i] = Put(leases[i]) /\ leases[i] \in Registered /\ leases[i].subnet = s
      BY <2>1, <1>7 DEF Put
    <3>2. reg'[s] = leases[i] /\ leases[i] # NoLease
      BY <3>1, <1>5, <1>6, LeaseAssumption
    <3>3. ASSUME NEW j \in DOMAIN queue', j > i PROVE queue'[j].lease.subnet # s
      <4>1. SUFFICES ASSUME leases[j].subnet = s PROVE FALSE
        BY <1>7 DEF Put
      <4>2. leases[j] = leases[i] /\ i \in 1..n /\ j \in 1..n
        BY <4>1, <3>1, <1>6, <1>7
      <4>3. j = i
        BY <4>2, <1>4 DEF IsInjective
      <4> QED BY <4>3, <4>2, <3>3, <1>4
    <3> QED BY <2>1, <3>1, <3>2, <3>3 DEF Says, LastFor
  <2> QED BY <2>1 DEF Agrees, Pending, LastFor
<1>10. ASSUME NEW s \in Subnet, reg[s] # NoLease PROVE Pending(s)'
  <2>1. reg[s] \in Registered /\ reg[s].subnet = s
    BY <1>10 DEF Registered, EventsInv, EventsOK
  <2>2. PICK i \in 1..n : leases[i] = reg[s]
    BY <2>1, <1>4
  <2>3. i \in DOMAIN queue' /\ queue'[i].lease.subnet = s
    BY <2>1, <2>2, <1>7 DEF Put
  <2> QED BY <2>3 DEF Pending
<1>11. \A i \in DOMAIN queue' : queue'[i].type = "put"
  BY <1>7 DEF Put
<1> QED BY <1>5, <1>8, <1>9, <1>10, <1>11 DEF EventsInv

\* The queue dies with the loop.
LEMMA DieKeeps ==
  ASSUME EventsInv, Die
  PROVE  EventsInv' /\ UNCHANGED reg /\ ~up'
<1>1. queue' = <<>> /\ up' = FALSE /\ UNCHANGED reg
  BY DEF Die
<1>2. queue' \in Seq(Events)
  BY <1>1, EmptySeq
<1>3. EventsOK'
  BY <1>1, <1>2 DEF EventsInv, EventsOK
<1>4. \A s \in Subnet : Agrees(s)'
  BY <1>1 DEF Agrees, Pending
<1> QED BY <1>1, <1>3, <1>4 DEF EventsInv

\* Steps of the backend's own.
LEMMA EventsStutter ==
  ASSUME EventsInv, UNCHANGED <<reg, queue, up>>
  PROVE  EventsInv' /\ \A s \in Subnet : Pending(s)' <=> Pending(s)
<1>1. \A s \in Subnet : (Agrees(s)' <=> Agrees(s)) /\ (Pending(s)' <=> Pending(s))
  BY DEF Agrees, LastFor, Says, Pending
<1>2. EventsOK'
  BY DEF EventsInv, EventsOK
<1> QED BY <1>1, <1>2 DEF EventsInv
==============================================================================
