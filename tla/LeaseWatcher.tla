---------------------------- MODULE LeaseWatcher -----------------------------
(***************************************************************************)
(* LeaseWatcher (src/subnet/subnet.rs): the list of leases a daemon knows  *)
(* of, and the batches of events by which it tells its backend what        *)
(* changed. A lease is a record with the field subnet; what else is in it  *)
(* does not matter here. Every operation is a pair of operators, the list  *)
(* after it and the batch it returns.                                      *)
(***************************************************************************)
EXTENDS Integers, Sequences, SequencesExt

Subnets(leases) == {leases[i].subnet : i \in DOMAIN leases}

Event(type, lease) == [type |-> type, lease |-> lease]

\* The index of the first lease of a subnet, 0 if there is none.
Find(leases, s) == SelectInSeq(leases, LAMBDA l : l.subnet = s)

\* Mutant of Drop: the backend is told, the list is not.
MutDropNothing(leases, lease) == leases

Drop(leases, lease) ==
  LET i == Find(leases, lease.subnet) IN IF i = 0 THEN leases ELSE RemoveAt(leases, i)

(***************************************************************************)
(* reset: a snapshot of the registry replaces the list, own lease and all. *)
(* A lease already in the list yields no event, even if its attributes     *)
(* have changed.                                                           *)
(***************************************************************************)
Reset(snapshot) == snapshot

ResetBatch(own, leases, snapshot) ==
  LET step[i \in 0..Len(snapshot)] ==  \* what nothing matched yet, and the batch
        IF i = 0 THEN [left |-> leases, batch |-> <<>>]
        ELSE LET nl == snapshot[i]
                 before == step[i - 1]
             IN  IF nl.subnet = own THEN before
                 ELSE IF nl.subnet \in Subnets(before.left)
                   THEN [before EXCEPT !.left = Drop(@, nl)]
                   ELSE [before EXCEPT !.batch = Append(@, Event("put", nl))]
      end == step[Len(snapshot)]
  IN  end.batch \o [i \in DOMAIN end.left |-> Event("delete", end.left[i])]

(***************************************************************************)
(* update: one event, since a watch result holds one. Events of the        *)
(* daemon's own subnet are ignored.                                        *)
(***************************************************************************)

\* Mutant of Add: a lease listed already is listed again.
MutAddTwice(leases, lease) == Append(leases, lease)

Add(leases, lease) ==
  LET i == Find(leases, lease.subnet) IN
  IF i = 0 THEN Append(leases, lease) ELSE [leases EXCEPT ![i] = lease]

\* remove: a Delete names only the subnet: the backend gets the lease as it was known, or
\* what the event holds if it was not.
Removed(leases, lease) ==
  LET i == Find(leases, lease.subnet) IN IF i = 0 THEN lease ELSE leases[i]

Update(own, leases, e) ==
  IF e.lease.subnet = own THEN leases
  ELSE IF e.type = "put" THEN Add(leases, e.lease) ELSE Drop(leases, e.lease)

UpdateBatch(own, leases, e) ==
  IF e.lease.subnet = own THEN <<>>
  ELSE IF e.type = "put" THEN <<e>> ELSE <<Event("delete", Removed(leases, e.lease))>>
==============================================================================
