----------------------------- MODULE LeaseEvents -----------------------------
(***************************************************************************)
(* What a backend's run loop sees of LeaseWatch: the events of the other   *)
(* hosts' leases, in the order of the registry, beginning with a Put for   *)
(* each lease registered when the daemon starts. A Delete carries the      *)
(* lease as the LeaseWatcher knew it, or only its subnet if it did not     *)
(* know it. What happens while the daemon is down is never told.           *)
(***************************************************************************)
EXTENDS Integers, Sequences, SequencesExt

CONSTANTS
  Subnet,
  Lease,     \* the leases there may be: a subnet, and what the backend reads of it
  MaxQueue,  \* bound: events that wait for the backend
  NoLease

ASSUME MaxQueueAssumption == MaxQueue \in Nat
ASSUME LeaseAssumption == NoLease \notin Lease /\ \A l \in Lease : l.subnet \in Subnet
ASSUME SubnetAssumption == IsFiniteSet(Subnet)

VARIABLES
  reg,    \* the lease registered for each subnet
  queue,  \* the events the run loop has not handled
  up      \* whether the run loop is alive

Put(l) == [type |-> "put", lease |-> l]
Delete(l) == [type |-> "delete", lease |-> l]

Registered == {reg[s] : s \in Subnet} \ {NoLease}

Tell(e) ==
  IF up THEN Len(queue) < MaxQueue /\ queue' = Append(queue, e) ELSE UNCHANGED queue

\* A host registers a lease, renews it or takes the subnet over.
Register(l) ==
  /\ reg' = [reg EXCEPT ![l.subnet] = l]
  /\ Tell(Put(l))
  /\ UNCHANGED up

Unregister(s) ==
  /\ reg[s] # NoLease
  /\ reg' = [reg EXCEPT ![s] = NoLease]
  /\ Tell(Delete(reg[s]))
  /\ UNCHANGED up

\* The watch repeats the Delete at its first revision, or delivers one whose Put
\* was dropped.
DeleteUnknown(s) ==
  /\ up /\ reg[s] = NoLease
  /\ Tell(Delete([subnet |-> s]))
  /\ UNCHANGED <<reg, up>>

\* The daemon starts anew, with a snapshot.
Restart ==
  /\ ~up /\ up' = TRUE
  /\ queue' = LET leases == SetToSeq(Registered) IN [i \in DOMAIN leases |-> Put(leases[i])]
  /\ UNCHANGED reg

\* The run loop ends, by an error or with its process.
Die == up /\ up' = FALSE /\ queue' = <<>> /\ UNCHANGED reg

\* The loop is at event e.
Handling(e) == up /\ queue # <<>> /\ e = Head(queue)

Handled == queue' = Tail(queue) /\ UNCHANGED <<reg, up>>

EventsInit ==
  /\ reg \in [Subnet -> Lease \cup {NoLease}]
  /\ \A s \in Subnet : reg[s] # NoLease => reg[s].subnet = s
  /\ queue = <<>>
  /\ up = FALSE

Gone(s) == Unregister(s) \/ DeleteUnknown(s)

Registry ==
  \/ \E l \in Lease : Register(l)
  \/ \E s \in Subnet : Gone(s)

Events ==
  {Put(l) : l \in Lease} \cup {Delete(l) : l \in Lease}
    \cup {Delete([subnet |-> s]) : s \in Subnet}

\* An event for s is still to be handled.
Pending(s) == \E i \in DOMAIN queue : queue[i].lease.subnet = s

EventsOK ==
  /\ reg \in [Subnet -> Lease \cup {NoLease}]
  /\ \A s \in Subnet : reg[s] # NoLease => reg[s].subnet = s
  /\ queue \in Seq(Events)
  /\ up \in BOOLEAN
==============================================================================
