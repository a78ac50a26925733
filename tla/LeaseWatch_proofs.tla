-------------------------- MODULE LeaseWatch_proofs ---------------------------
(***************************************************************************)
(* Proofs about the way from etcd to the backend, for any subnets, hosts,  *)
(* channel capacities and lengths of the registry's history.               *)
(***************************************************************************)
EXTENDS LeaseWatch, SequenceTheorems, FiniteSetTheorems, FunctionTheorems, InductionFacts

(***************************************************************************)
(* The invariant                                                           *)
(***************************************************************************)

Change == {Put(s, h) : s \in Subnet, h \in Host} \cup {Delete(s) : s \in Subnet}

Events ==
  {Event("put", l) : l \in Lease} \cup {Event("delete", l) : l \in Lease}
    \cup {Event("delete", [subnet |-> s]) : s \in Subnet}

Message == [snapshot : Seq(Lease), events : {<<>>} \cup {<<e>> : e \in Events}]

\* No two leases of a list are of one subnet.
Distinct(list) == \A i, j \in DOMAIN list : list[i].subnet = list[j].subnet => i = j

Typed ==
  /\ log \in Seq(Change) /\ Len(log) \in 1..MaxRev /\ ended \subseteq DOMAIN log
  /\ fetch \in {"range", "ttl", "open", "stream", "ended"}
  /\ todo \in Seq(Lease) /\ got \in Seq(Lease)
  /\ cursor \in 0..MaxRev /\ pos \in 0..(MaxRev + 1)
  /\ wire \in Seq(Message) /\ relay \in BOOLEAN /\ leases \in Seq(Lease)
  /\ queue \in Seq(Seq(Events)) /\ backend \in BOOLEAN
  /\ view \in [Subnet -> Lease \cup {NoLease}] /\ newest \in [Subnet -> 0..MaxRev]
  /\ readAt \in Nat /\ since \in Nat
  /\ Len(wire) <= Capacity /\ Len(queue) <= Capacity

\* Nobody has been told anything.
Untold == leases = <<>> /\ queue = <<>> /\ \A s \in Subnet : view[s] = NoLease /\ newest[s] = 0

Phases ==
  /\ fetch \in {"range", "ttl"} => wire = <<>> /\ Untold
  /\ fetch = "range" => todo = <<>> /\ got = <<>>
  /\ fetch \notin {"range", "ended"} => readAt \in 1..Len(log) /\ cursor \in {0, readAt}
  /\ fetch \in {"ttl", "open"} /\ cursor = 0 => todo = <<>> /\ got = <<>>
  /\ fetch = "stream" =>
       /\ since <= pos /\ pos <= Len(log) + 1
       /\ IF cursor = 0 THEN since > readAt ELSE since = cursor
  /\ relay \/ fetch = "ended" \/ ~backend
  /\ \A i \in DOMAIN wire : wire[i].snapshot # <<>> => i = 1 /\ wire[i].events = <<>> /\ Untold

\* A lease that has ended is not the latest of its subnet.
EndedOK == \A r \in ended : \E t \in DOMAIN log : t > r /\ log[t].subnet = log[r].subnet

Lists ==
  /\ Distinct(todo) /\ Distinct(got) /\ Distinct(leases)
  /\ \A i \in DOMAIN todo, j \in DOMAIN got : todo[i].subnet # got[j].subnet
  /\ \A i \in DOMAIN wire : Distinct(wire[i].snapshot)

\* The latest change of s was read, by the range read
InSnapshot(s) ==
  Changes(s) = {} \/ (Latest(Changes(s)) <= readAt /\ s \notin skipped)

\* or by the watch.
InStream(s) ==
  LET r == Latest(Changes(s)) IN
  fetch = "stream" /\ Changes(s) # {} /\ r > readAt /\ r >= since /\ r < pos

\* The snapshot is what the registry says, of every subnet that has not changed since.
SnapshotOK ==
  fetch = "ttl" => \A s \in Subnet : InSnapshot(s) =>
    /\ \A i \in DOMAIN todo : todo[i].subnet = s => todo[i] = Entry(s)
    /\ \A i \in DOMAIN got : got[i].subnet = s => got[i] = Entry(s)
    /\ Registered(s) => \/ \E i \in DOMAIN todo : todo[i].subnet = s
                        \/ \E i \in DOMAIN got : got[i].subnet = s

\* x is a batch's last word on s,
BatchSays(batch, s, x) ==
  \E k \in About(batch, s) : Told(batch[k]) = x /\ \A j \in About(batch, s) : j <= k

\* and x is what the backend will know of s.
WillKnow(s, x) ==
  \/ \E i \in DOMAIN queue :
       BatchSays(queue[i], s, x) /\ \A j \in DOMAIN queue : j > i => About(queue[j], s) = {}
  \/ view[s] = x /\ \A j \in DOMAIN queue : About(queue[j], s) = {}

ViewTracked == backend => \A s \in Subnet \ {Own} : WillKnow(s, Listed(s))

\* A message on the wire says x of s,
MessageSays(m, s, x) ==
  IF m.events # <<>> THEN Head(m.events).lease.subnet = s /\ Told(Head(m.events)) = x
  ELSE \E i \in DOMAIN m.snapshot : m.snapshot[i].subnet = s /\ m.snapshot[i] = x

\* or says nothing of it,
Silent(m, s) ==
  IF m.events # <<>> THEN Head(m.events).lease.subnet # s
  ELSE \A i \in DOMAIN m.snapshot : m.snapshot[i].subnet # s

\* and x is what the watcher will list of s.
WillList(s, x) ==
  \/ \E i \in DOMAIN wire :
       MessageSays(wire[i], s, x) /\ \A j \in DOMAIN wire : j > i => Silent(wire[j], s)
  \/ Listed(s) = x /\ \A j \in DOMAIN wire : Silent(wire[j], s)

LogTracked ==
  relay /\ fetch \in {"open", "stream"} =>
    \A s \in Subnet \ {Own} : InSnapshot(s) \/ InStream(s) => WillList(s, Entry(s))

\* The revisions of s in a batch and in a message, and whether a batch ends it.
BatchRevs(batch, s) == {batch[k].lease.rev : k \in {i \in About(batch, s) : batch[i].type = "put"}}
MessageRevs(m, s) ==
  {x \in Rev : \E l \in Lease : l.rev = x /\ l.subnet = s /\ MessageSays(m, s, l)}
Ends(batch, s) == \E k \in About(batch, s) : batch[k].type # "put"

\* What is told of s, in order: what the backend was told is at place 0, the batches follow,
\* then the messages. Each has revisions, or ends a registration.
Line == 0..(Len(queue) + Len(wire))
RevsAt(p, s) ==
  IF p = 0 THEN {newest[s]}
  ELSE IF p <= Len(queue) THEN BatchRevs(queue[p], s) ELSE MessageRevs(wire[p - Len(queue)], s)
EndAt(p, s) ==
  IF p = 0 THEN view[s] = NoLease
  ELSE IF p <= Len(queue) THEN Ends(queue[p], s) ELSE MessageSays(wire[p - Len(queue)], s, NoLease)

\* No revision of A is after one of B, or all are before.
Upto(A, B) == \A x \in A, y \in B : x <= y
Before(A, B) == \A x \in A, y \in B : x < y
Read == IF fetch = "stream" THEN pos ELSE readAt

\* Whatever is told of a subnet later is no older, and after an end it is newer.
InOrder(s) ==
  /\ \A p, q \in Line : p < q => Upto(RevsAt(p, s), RevsAt(q, s))
  /\ \A p, d, q \in Line : p <= d /\ d < q /\ EndAt(d, s) => Before(RevsAt(p, s), RevsAt(q, s))
  /\ fetch # "ended" => \A p \in Line : Upto(RevsAt(p, s), {Read})
  /\ fetch \in {"open", "stream"} =>
       \A p, d \in Line : p <= d /\ EndAt(d, s) => Before(RevsAt(p, s), {Read})
  /\ view[s] # NoLease => newest[s] = view[s].rev

Ordered == \A s \in Subnet : InOrder(s)

\* The range read told nothing of what came after it.
SnapshotRevs ==
  fetch = "ttl" =>
    (\A i \in DOMAIN todo : todo[i].rev <= readAt) /\ \A i \in DOMAIN got : got[i].rev <= readAt

(***************************************************************************)
(* Channels and vectors                                                    *)
(***************************************************************************)

\* What is taken from the front of a channel moves the rest up by one.
LEMMA TailFacts ==
  ASSUME NEW S, NEW q \in Seq(S), q # <<>>
  PROVE  /\ Tail(q) \in Seq(S) /\ Len(Tail(q)) = Len(q) - 1
         /\ 1 \in DOMAIN q /\ q[1] = Head(q) /\ Head(q) \in S /\ \A i \in DOMAIN q : i \in Nat /\ i >= 1
         /\ \A i \in DOMAIN Tail(q) : i + 1 \in DOMAIN q /\ Tail(q)[i] = q[i + 1] /\ i \in Nat /\ i >= 1
         /\ \A i \in DOMAIN q : i # 1 => i - 1 \in DOMAIN Tail(q) /\ Tail(q)[i - 1] = q[i]
<1>1. Len(q) \in Nat /\ Len(q) >= 1 /\ DOMAIN q = 1..Len(q)
  OBVIOUS
<1>2. /\ Tail(q) \in Seq(S) /\ Len(Tail(q)) = Len(q) - 1 /\ DOMAIN Tail(q) = 1..(Len(q) - 1)
      /\ q[1] = Head(q) /\ Head(q) \in S
      /\ \A i \in 1..(Len(q) - 1) : Tail(q)[i] = q[i + 1]
  BY <1>1
<1>3. ASSUME NEW i \in DOMAIN q, i # 1 PROVE i - 1 \in DOMAIN Tail(q) /\ Tail(q)[i - 1] = q[i]
  <2>1. i - 1 \in 1..(Len(q) - 1) /\ (i - 1) + 1 = i
    BY <1>1, <1>3
  <2> QED BY <2>1, <1>2
<1> QED BY <1>1, <1>2, <1>3

\* What is put at the end of one leaves the rest where it is.
LEMMA AppendFacts ==
  ASSUME NEW S, NEW q \in Seq(S), NEW x \in S
  PROVE  /\ Append(q, x) \in Seq(S) /\ Len(Append(q, x)) = Len(q) + 1 /\ Len(q) \in Nat
         /\ Len(q) + 1 \in DOMAIN Append(q, x) /\ Append(q, x)[Len(q) + 1] = x
         /\ \A i \in DOMAIN q : /\ i \in DOMAIN Append(q, x) /\ Append(q, x)[i] = q[i]
                                /\ i \in Nat /\ i >= 1 /\ i < Len(q) + 1
         /\ \A i \in DOMAIN Append(q, x) : i = Len(q) + 1 \/ i \in DOMAIN q
<1> QED OBVIOUS

(***************************************************************************)
(* The registry                                                            *)
(***************************************************************************)

\* The latest of the revisions of a subnet is one of them.
LEMMA LatestFacts ==
  ASSUME NEW n \in Nat, NEW T, T \subseteq 0..n, T # {}
  PROVE  Latest(T) \in T /\ \A t \in T : t <= Latest(T)
<1>1. \E m \in T : \A k \in T : k <= m
  BY Greatest
<1> QED BY <1>1 DEF Latest

\* Of the changes of a subnet there is a latest.
LEMMA ChangesFacts ==
  ASSUME Typed, NEW s
  PROVE  /\ Len(log) \in Nat /\ DOMAIN log = 1..Len(log)
         /\ \A r \in Changes(s) : r \in 1..Len(log) /\ log[r].subnet = s
         /\ Changes(s) # {} => /\ Latest(Changes(s)) \in Changes(s)
                               /\ \A r \in Changes(s) : r <= Latest(Changes(s))
<1>1. Len(log) \in Nat /\ DOMAIN log = 1..Len(log)
  BY DEF Typed
<1>2. Changes(s) \subseteq 0..Len(log) /\ \A r \in Changes(s) : r \in 1..Len(log) /\ log[r].subnet = s
  BY <1>1 DEF Changes
<1> QED BY <1>1, <1>2, LatestFacts

\* What is registered is a lease whose revision is that of the latest change.
LEMMA EntryFacts ==
  ASSUME Typed, NEW s \in Subnet
  PROVE  /\ Registered(s) => /\ Entry(s) \in Lease /\ Entry(s).subnet = s
                             /\ Entry(s).rev = Latest(Changes(s)) /\ Changes(s) # {}
                             /\ log[Latest(Changes(s))].type = "put"
         /\ ~Registered(s) => Entry(s) = NoLease
<1>1. ASSUME Registered(s) PROVE LeaseOf(Latest(Changes(s))) \in Lease /\ LeaseOf(Latest(Changes(s))).subnet = s
  <2>1. PICK r \in 1..Len(log) : r = Latest(Changes(s)) /\ log[r].subnet = s /\ log[r].type = "put"
    BY <1>1, ChangesFacts DEF Registered
  <2>2. log[r] \in Change /\ r \in Rev
    <3>1. log \in Seq(Change) /\ Len(log) \in Nat /\ Len(log) <= MaxRev
      BY BoundsAssumption DEF Typed
    <3> QED BY <3>1, <2>1, BoundsAssumption DEF Rev
  <2>3. log[r].ip \in Host
    BY <2>1, <2>2 DEF Change, Put, Delete
  <2> QED BY <2>1, <2>2, <2>3 DEF LeaseOf, Lease
<1> QED BY <1>1 DEF Entry, Registered, LeaseOf

\* A new change is the latest of its subnet, and none of another.
LEMMA NewChange ==
  ASSUME Typed, NEW c \in Change, log' = Append(log, c), Len(log) < MaxRev
  PROVE  /\ log' \in Seq(Change) /\ Len(log') \in 1..MaxRev /\ Len(log') = Len(log) + 1
         /\ c.subnet \in Subnet
         /\ \A r \in DOMAIN log : r \in DOMAIN log' /\ log'[r] = log[r] /\ r < Len(log) + 1
         /\ Len(log) + 1 \in DOMAIN log' /\ log'[Len(log) + 1] = c
         /\ Changes(c.subnet)' # {} /\ Latest(Changes(c.subnet)') = Len(log) + 1
         /\ \A s \in Subnet : s # c.subnet =>
              Changes(s)' = Changes(s) /\ Registered(s)' = Registered(s) /\ Entry(s)' = Entry(s)
<1>1. /\ log \in Seq(Change) /\ Len(log) \in Nat /\ DOMAIN log = 1..Len(log) /\ Len(log) \in 1..MaxRev
      /\ Len(log) + 1 \in 1..MaxRev
  BY BoundsAssumption DEF Typed
<1>2. /\ log' \in Seq(Change) /\ Len(log') = Len(log) + 1 /\ DOMAIN log' = 1..(Len(log) + 1)
      /\ \A r \in DOMAIN log : r \in DOMAIN log' /\ log'[r] = log[r] /\ r < Len(log) + 1
      /\ Len(log) + 1 \in DOMAIN log' /\ log'[Len(log) + 1] = c
  BY <1>1
<1>3. c.subnet \in Subnet
  BY DEF Change, Put, Delete
<1>4. Changes(c.subnet)' # {} /\ Latest(Changes(c.subnet)') = Len(log) + 1
  <2>1. Changes(c.subnet)' \subseteq 0..(Len(log) + 1) /\ Len(log) + 1 \in Changes(c.subnet)'
    BY <1>1, <1>2 DEF Changes
  <2>2. Latest(Changes(c.subnet)') \in 0..(Len(log) + 1) /\ Len(log) + 1 <= Latest(Changes(c.subnet)')
    BY <2>1, <1>1, LatestFacts
  <2> QED BY <2>2, <2>1, <1>1
<1>5. ASSUME NEW s \in Subnet, s # c.subnet
      PROVE  Changes(s)' = Changes(s) /\ Registered(s)' = Registered(s) /\ Entry(s)' = Entry(s)
  <2>1. Changes(s)' = Changes(s)
    BY <1>1, <1>2, <1>5 DEF Changes
  <2>2. Changes(s) # {} => log'[Latest(Changes(s))] = log[Latest(Changes(s))]
    BY <1>1, <1>2, ChangesFacts
  <2>3. Registered(s)' = Registered(s)
    BY <2>1, <2>2 DEF Registered
  <2>4. Registered(s) => LeaseOf(Latest(Changes(s)))' = LeaseOf(Latest(Changes(s)))
    BY <2>1, <2>2 DEF Registered, LeaseOf
  <2> QED BY <2>1, <2>3, <2>4 DEF Entry
<1> QED BY <1>1, <1>2, <1>3, <1>4, <1>5

(***************************************************************************)
(* The watcher                                                             *)
(***************************************************************************)

\* What a list has of s.
Lookup(list, s) == IF Find(list, s) = 0 THEN NoLease ELSE list[Find(list, s)]

\* Find finds it if it is there.
LEMMA FindFacts ==
  ASSUME NEW list \in Seq(Lease), NEW s
  PROVE  \/ Find(list, s) = 0 /\ \A i \in DOMAIN list : list[i].subnet # s
         \/ Find(list, s) \in DOMAIN list /\ Find(list, s) # 0 /\ list[Find(list, s)].subnet = s
<1> DEFINE I == {i \in 1..Len(list) : list[i].subnet = s}
<1>1. Find(list, s) = IF I # {} THEN Min(I) ELSE 0
  BY DEF Find, SelectInSeq
<1>2. Len(list) \in Nat /\ DOMAIN list = 1..Len(list)
  OBVIOUS
<1>3. ASSUME I # {} PROVE Min(I) \in I
  <2>1. I \subseteq Nat
    OBVIOUS
  <2> HIDE DEF I
  <2>2. \E m \in I : \A k \in I : m <= k
    BY <2>1, <1>3, Least
  <2> QED BY <2>2 DEF Min
<1> QED BY <1>1, <1>2, <1>3

\* In a list without doubles there is at most one lease to be looked up.
LEMMA LookupFacts ==
  ASSUME NEW list \in Seq(Lease), Distinct(list), NEW s
  PROVE  /\ \A i \in DOMAIN list : list[i].subnet = s => Lookup(list, s) = list[i]
         /\ (\A i \in DOMAIN list : list[i].subnet # s) => Lookup(list, s) = NoLease
         /\ Lookup(list, s) # NoLease => \E i \in DOMAIN list : list[i] = Lookup(list, s) /\ list[i].subnet = s
<1>1. CASE Find(list, s) = 0 /\ \A i \in DOMAIN list : list[i].subnet # s
  BY <1>1 DEF Lookup
<1>2. CASE Find(list, s) \in DOMAIN list /\ Find(list, s) # 0 /\ list[Find(list, s)].subnet = s
  BY <1>2 DEF Lookup, Distinct
<1> QED BY <1>1, <1>2, FindFacts

\* A Put replaces the lease of its subnet or adds it.
LEMMA AddFacts ==
  ASSUME NEW list \in Seq(Lease), Distinct(list), NEW l \in Lease
  PROVE  /\ Add(list, l) \in Seq(Lease) /\ Distinct(Add(list, l))
         /\ \A s : Lookup(Add(list, l), s) = IF s = l.subnet THEN l ELSE Lookup(list, s)
<1>1. CASE Find(list, l.subnet) = 0 /\ \A i \in DOMAIN list : list[i].subnet # l.subnet
  <2>1. PICK q : q = Add(list, l) /\ q = Append(list, l)
    BY <1>1 DEF Add
  <2>2. /\ q \in Seq(Lease) /\ Len(list) + 1 \in DOMAIN q /\ q[Len(list) + 1] = l
        /\ \A i \in DOMAIN list : i \in DOMAIN q /\ q[i] = list[i]
        /\ \A i \in DOMAIN q : i = Len(list) + 1 \/ i \in DOMAIN list
    BY <2>1, AppendFacts
  <2>3. Distinct(q)
    BY <2>2, <1>1 DEF Distinct
  <2>4. ASSUME NEW s PROVE Lookup(q, s) = IF s = l.subnet THEN l ELSE Lookup(list, s)
    <3>1. CASE s = l.subnet
      BY <3>1, <2>2, <2>3, LookupFacts
    <3>2. CASE s # l.subnet /\ \E i \in DOMAIN list : list[i].subnet = s
      <4>1. PICK i \in DOMAIN list : list[i].subnet = s
        BY <3>2
      <4>2. Lookup(list, s) = list[i] /\ Lookup(q, s) = q[i]
        BY <4>1, <2>2, <2>3, LookupFacts
      <4> QED BY <4>1, <4>2, <3>2, <2>2
    <3>3. CASE s # l.subnet /\ \A i \in DOMAIN list : list[i].subnet # s
      <4>1. \A i \in DOMAIN q : q[i].subnet # s
        BY <3>3, <2>2
      <4> QED BY <4>1, <3>3, <2>2, <2>3, LookupFacts
    <3> QED BY <3>1, <3>2, <3>3
  <2> QED BY <2>1, <2>2, <2>3, <2>4
<1>2. CASE \E i \in DOMAIN list : i = Find(list, l.subnet) /\ i # 0 /\ list[i].subnet = l.subnet
  <2>1. PICK i \in DOMAIN list : i = Find(list, l.subnet) /\ i # 0 /\ list[i].subnet = l.subnet
    BY <1>2
  <2>2. PICK q : q = Add(list, l) /\ q = [list EXCEPT ![i] = l]
    BY <2>1 DEF Add
  <2>3. /\ q \in Seq(Lease) /\ DOMAIN q = DOMAIN list /\ q[i] = l
        /\ \A j \in DOMAIN list : j # i => q[j] = list[j]
    BY <2>1, <2>2
  <2>4. Distinct(q) /\ \A j \in DOMAIN list : q[j].subnet = list[j].subnet
    BY <2>1, <2>3 DEF Distinct
  <2>5. ASSUME NEW s PROVE Lookup(q, s) = IF s = l.subnet THEN l ELSE Lookup(list, s)
    <3>1. CASE s = l.subnet
      BY <3>1, <2>1, <2>3, <2>4, LookupFacts
    <3>2. CASE s # l.subnet /\ \E j \in DOMAIN list : list[j].subnet = s
      <4>1. PICK j \in DOMAIN list : list[j].subnet = s
        BY <3>2
      <4>2. Lookup(list, s) = list[j] /\ Lookup(q, s) = q[j]
        BY <4>1, <2>3, <2>4, LookupFacts
      <4> QED BY <4>1, <4>2, <3>2, <2>1, <2>3
    <3>3. CASE s # l.subnet /\ \A j \in DOMAIN list : list[j].subnet # s
      BY <3>3, <2>3, <2>4, LookupFacts
    <3> QED BY <3>1, <3>2, <3>3
  <2> QED BY <2>2, <2>3, <2>4, <2>5
<1> QED BY <1>1, <1>2, FindFacts

\* A Delete removes the lease of its subnet.
LEMMA DropFacts ==
  ASSUME NEW list \in Seq(Lease), Distinct(list), NEW l
  PROVE  /\ Drop(list, l) \in Seq(Lease) /\ Distinct(Drop(list, l))
         /\ \A s : Lookup(Drop(list, l), s) = IF s = l.subnet THEN NoLease ELSE Lookup(list, s)
<1>1. CASE Find(list, l.subnet) = 0 /\ \A i \in DOMAIN list : list[i].subnet # l.subnet
  <2>1. Drop(list, l) = list
    BY <1>1 DEF Drop
  <2>2. Lookup(list, l.subnet) = NoLease
    BY <1>1, LookupFacts
  <2> QED BY <2>1, <2>2
<1>2. CASE \E i \in DOMAIN list : i = Find(list, l.subnet) /\ i # 0 /\ list[i].subnet = l.subnet
  <2>1. PICK n \in DOMAIN list : n = Find(list, l.subnet) /\ n # 0 /\ list[n].subnet = l.subnet
    BY <1>2
  <2>2. PICK q : q = Drop(list, l) /\ q = RemoveAt(list, n)
    BY <2>1 DEF Drop
  <2>3. Len(list) \in Nat /\ DOMAIN list = 1..Len(list) /\ \A i \in 1..Len(list) : list[i] \in Lease
    OBVIOUS
  <2>4. /\ q \in Seq(Lease) /\ DOMAIN q = 1..(Len(list) - 1)
        /\ \A i \in 1..(Len(list) - 1) : q[i] = IF i < n THEN list[i] ELSE list[i + 1]
    <3> DEFINE a == SubSeq(list, 1, n - 1)
               b == SubSeq(list, n + 1, Len(list))
    <3>1. q = a \o b
      BY <2>2 DEF RemoveAt
    <3>2. n \in 1..Len(list)
      BY <2>3
    <3>3. a \in Seq(Lease) /\ Len(a) = n - 1 /\ \A i \in 1..(n - 1) : a[i] = list[i]
      BY <2>3, <3>2
    <3>4. b \in Seq(Lease) /\ Len(b) = Len(list) - n /\ \A i \in 1..(Len(list) - n) : b[i] = list[n + i]
      <4>0. n + 1 \in Int /\ Len(list) \in Int
        BY <2>3, <3>2
      <4>1. PICK m \in Int, k \in Int : m = n + 1 /\ k = Len(list)
        BY <4>0
      <4>2. \A i \in m..k : list[i] \in Lease
        BY <4>1, <2>3, <3>2
      <4>3. /\ SubSeq(list, m, k) \in Seq(Lease)
            /\ Len(SubSeq(list, m, k)) = IF m <= k THEN k - m + 1 ELSE 0
            /\ \A i \in 1..(k - m + 1) : SubSeq(list, m, k)[i] = list[m + i - 1]
        BY <4>2, SubSeqProperties
      <4>4. \A i \in 1..(Len(list) - n) : i \in 1..(k - m + 1) /\ m + i - 1 = n + i
        BY <4>1, <2>3, <3>2
      <4>5. Len(b) = Len(list) - n
        BY <4>1, <4>3, <2>3, <3>2
      <4> QED BY <4>1, <4>3, <4>4, <4>5
    <3> HIDE DEF a, b
    <3>5. /\ q \in Seq(Lease) /\ Len(q) = Len(list) - 1
          /\ \A i \in 1..(Len(list) - 1) : q[i] = IF i <= n - 1 THEN a[i] ELSE b[i - (n - 1)]
      <4>1. /\ a \o b \in Seq(Lease) /\ Len(a \o b) = Len(a) + Len(b)
            /\ \A i \in 1..(Len(a) + Len(b)) : (a \o b)[i] = IF i <= Len(a) THEN a[i] ELSE b[i - Len(a)]
        BY <3>3, <3>4, ConcatProperties
      <4>2. Len(a) + Len(b) = Len(list) - 1
        BY <3>2, <3>3, <3>4, <2>3
      <4> QED BY <4>1, <4>2, <3>1, <3>3
    <3>6. ASSUME NEW i \in 1..(Len(list) - 1) PROVE q[i] = IF i < n THEN list[i] ELSE list[i + 1]
      <4>1. CASE i < n
        BY <4>1, <2>3, <3>2, <3>3, <3>5
      <4>2. CASE ~(i < n)
        <5>1. i - (n - 1) \in 1..(Len(list) - n) /\ n + (i - (n - 1)) = i + 1 /\ ~(i <= n - 1)
          BY <4>2, <2>3, <3>2
        <5>2. q[i] = b[i - (n - 1)] /\ b[i - (n - 1)] = list[n + (i - (n - 1))]
          BY <5>1, <3>4, <3>5
        <5> QED BY <5>1, <5>2, <4>2
      <4> QED BY <4>1, <4>2
    <3> QED BY <2>3, <3>5, <3>6
  <2>5. /\ \A i \in DOMAIN q : \E j \in DOMAIN list : j # n /\ q[i] = list[j] /\ (IF i < n THEN j = i ELSE j = i + 1)
        /\ \A j \in DOMAIN list : j # n => \E i \in DOMAIN q : q[i] = list[j]
    <3>1. ASSUME NEW i \in DOMAIN q
          PROVE  \E j \in DOMAIN list : j # n /\ q[i] = list[j] /\ (IF i < n THEN j = i ELSE j = i + 1)
      <4>1. i \in DOMAIN list /\ i + 1 \in DOMAIN list
        BY <2>3, <2>4
      <4> QED BY <4>1, <2>1, <2>3, <2>4
    <3>2. ASSUME NEW j \in DOMAIN list, j # n PROVE \E i \in DOMAIN q : q[i] = list[j]
      <4>1. CASE j < n
        BY <4>1, <2>1, <2>3, <2>4
      <4>2. CASE j > n
        <5>1. j - 1 \in DOMAIN q /\ ~(j - 1 < n) /\ (j - 1) + 1 = j
          BY <4>2, <2>1, <2>3, <2>4
        <5> QED BY <5>1, <2>4
      <4> QED BY <4>1, <4>2, <3>2, <2>1, <2>3
    <3> QED BY <3>1, <3>2
  <2>6. Distinct(q)
    <3> SUFFICES ASSUME NEW i \in DOMAIN q, NEW k \in DOMAIN q, q[i].subnet = q[k].subnet PROVE i = k
      BY DEF Distinct
    <3>1. PICK j \in DOMAIN list : q[i] = list[j] /\ (IF i < n THEN j = i ELSE j = i + 1)
      BY <2>5
    <3>2. PICK m \in DOMAIN list : q[k] = list[m] /\ (IF k < n THEN m = k ELSE m = k + 1)
      BY <2>5
    <3>3. j = m
      BY <3>1, <3>2 DEF Distinct
    <3> QED BY <3>1, <3>2, <3>3, <2>1, <2>3, <2>4
  <2>7. ASSUME NEW s PROVE Lookup(q, s) = IF s = l.subnet THEN NoLease ELSE Lookup(list, s)
    <3>1. CASE s = l.subnet
      <4>1. \A i \in DOMAIN q : q[i].subnet # s
        BY <3>1, <2>1, <2>5 DEF Distinct
      <4> QED BY <4>1, <3>1, <2>4, <2>6, LookupFacts
    <3>2. CASE s # l.subnet /\ \E j \in DOMAIN list : list[j].subnet = s
      <4>1. PICK j \in DOMAIN list : list[j].subnet = s
        BY <3>2
      <4>2. PICK i \in DOMAIN q : q[i] = list[j]
        BY <4>1, <3>2, <2>1, <2>5
      <4>3. Lookup(list, s) = list[j] /\ Lookup(q, s) = q[i]
        BY <4>1, <4>2, <2>4, <2>6, LookupFacts
      <4> QED BY <4>2, <4>3, <3>2
    <3>3. CASE s # l.subnet /\ \A j \in DOMAIN list : list[j].subnet # s
      <4>1. \A i \in DOMAIN q : q[i].subnet # s
        BY <3>3, <2>5
      <4>2. Lookup(q, s) = NoLease
        BY <4>1, <2>4, <2>6, LookupFacts
      <4>3. Lookup(list, s) = NoLease
        BY <3>3, LookupFacts
      <4> QED BY <4>2, <4>3, <3>3
    <3> QED BY <3>1, <3>2, <3>3
  <2> QED BY <2>2, <2>4, <2>6, <2>7
<1> QED BY <1>1, <1>2, FindFacts

\* What is told of s by an event that an update takes in is what the list then has of s,
\* and what the batch tells.
LEMMA UpdateFacts ==
  ASSUME NEW list \in Seq(Lease), Distinct(list), NEW e \in Events
  PROVE  /\ Update(Own, list, e) \in Seq(Lease) /\ Distinct(Update(Own, list, e))
         /\ \A s \in Subnet \ {Own} :
              Lookup(Update(Own, list, e), s) = IF s = e.lease.subnet THEN Told(e) ELSE Lookup(list, s)
<1>1. CASE e.lease.subnet = Own
  BY <1>1 DEF Update
<1>2. CASE e.lease.subnet # Own /\ e.type = "put"
  <2>1. e.lease \in Lease
    BY <1>2 DEF Events, Event
  <2>2. Update(Own, list, e) = Add(list, e.lease)
    BY <1>2 DEF Update
  <2> QED BY <1>2, <2>1, <2>2, AddFacts DEF Told
<1>3. CASE e.lease.subnet # Own /\ e.type # "put"
  <2>1. PICK l : l = e.lease /\ Update(Own, list, e) = Drop(list, l)
    BY <1>3 DEF Update
  <2>2. /\ Drop(list, l) \in Seq(Lease) /\ Distinct(Drop(list, l))
        /\ \A s : Lookup(Drop(list, l), s) = IF s = l.subnet THEN NoLease ELSE Lookup(list, s)
    BY DropFacts
  <2> QED BY <1>3, <2>1, <2>2 DEF Told
<1> QED BY <1>1, <1>2, <1>3

\* The batch of an update is that event, or for a Delete one of the lease as it was known.
LEMMA UpdateBatchFacts ==
  ASSUME NEW list \in Seq(Lease), NEW e \in Events, e.lease.subnet # Own
  PROVE  \E f \in Events : /\ UpdateBatch(Own, list, e) = <<f>>
                           /\ f.lease.subnet = e.lease.subnet /\ f.type = e.type /\ Told(f) = Told(e)
                           /\ f.type = "put" => f = e
<1>1. CASE e.type = "put"
  BY <1>1 DEF UpdateBatch
<1>2. CASE e.type # "put"
  <2>1. e.type = "delete" /\ e.lease.subnet \in Subnet
    BY <1>2 DEF Events, Event, Lease
  <2>2. PICK l : /\ l = Removed(list, e.lease) /\ Event("delete", l) \in Events
                 /\ l.subnet = e.lease.subnet
    <3>1. CASE Find(list, e.lease.subnet) = 0
      <4>1. Removed(list, e.lease) = e.lease /\ Event("delete", e.lease) = e
        BY <2>1, <3>1 DEF Removed, Events, Event
      <4> QED BY <4>1
    <3>2. CASE \E i \in DOMAIN list : i = Find(list, e.lease.subnet) /\ i # 0 /\ list[i].subnet = e.lease.subnet
      <4>1. PICK l \in Lease : l = Removed(list, e.lease) /\ l.subnet = e.lease.subnet
        BY <3>2 DEF Removed
      <4> QED BY <4>1 DEF Events
    <3> QED BY <3>1, <3>2, FindFacts
  <2>3. UpdateBatch(Own, list, e) = <<Event("delete", l)>>
    BY <1>2, <2>2 DEF UpdateBatch, Event
  <2>4. Event("delete", l).lease = l /\ Event("delete", l).type = "delete"
    BY DEF Event
  <2> QED BY <2>1, <2>2, <2>3, <2>4 DEF Told
<1> QED BY <1>1, <1>2

\* batch has just the Puts of the leases of the snapshot that are not the daemon's own.
Announces(batch, snapshot) ==
  /\ batch \in Seq(Events)
  /\ \A k \in DOMAIN batch :
       \E i \in DOMAIN snapshot : snapshot[i].subnet # Own /\ batch[k] = Event("put", snapshot[i])
  /\ \A i \in DOMAIN snapshot :
       snapshot[i].subnet # Own => \E k \in DOMAIN batch : batch[k] = Event("put", snapshot[i])

\* That is the batch of a reset, for a watcher that had listed nothing.
LEMMA ResetFacts ==
  ASSUME NEW snapshot \in Seq(Lease)
  PROVE  Announces(ResetBatch(Own, <<>>, snapshot), snapshot)
<1> DEFINE n == Len(snapshot)
           X == [left : {<<>>}, batch : Seq(Events)]
           Grow(nl, x) == IF nl.subnet = Own THEN x
                          ELSE IF nl.subnet \in Subnets(x.left) THEN [x EXCEPT !.left = Drop(@, nl)]
                          ELSE [x EXCEPT !.batch = Append(@, Event("put", nl))]
           F == [p \in (1..n) \X X |-> Grow(snapshot[p[1]], p[2])]
           zero == [left |-> <<>>, batch |-> <<>>]
           Def(f) == [i \in 0..n |-> IF i = 0 THEN zero ELSE Grow(snapshot[i], f[i - 1])]
<1>1. n \in Nat /\ DOMAIN snapshot = 1..n /\ \A i \in 1..n : snapshot[i] \in Lease
  OBVIOUS
<1>2. ASSUME NEW nl \in Lease, NEW x \in X
      PROVE  /\ Grow(nl, x) \in X
             /\ Grow(nl, x).batch = IF nl.subnet = Own THEN x.batch ELSE Append(x.batch, Event("put", nl))
  <2>1. Subnets(x.left) = {}
    BY DEF Subnets
  <2>2. Event("put", nl) \in Events
    BY DEF Events
  <2>3. Append(x.batch, Event("put", nl)) \in Seq(Events)
    BY <2>2
  <2> QED BY <2>1, <2>3
<1>3. zero \in X
  BY EmptySeq
<1> HIDE DEF X, Grow, zero
<1>4. F \in [(1..n) \X X -> X]
  BY <1>1, <1>2
<1>5. PICK f : f = Def(f) /\ ResetBatch(Own, <<>>, snapshot) =
                  f[n].batch \o [i \in DOMAIN f[n].left |-> Event("delete", f[n].left[i])]
  <2>1. \E f : Recurses(f, X, zero, n, F)
    <3> HIDE DEF F, n
    <3> QED BY <1>1, <1>3, <1>4, Recursion
  <2>2. PICK f \in [0..n -> X] : f[0] = zero /\ \A i \in 1..n : f[i] = F[<<i, f[i - 1]>>]
    BY <2>1 DEF Recurses
  <2>3. ASSUME NEW i \in 0..n PROVE f[i] = Def(f)[i]
    <3>1. CASE i # 0
      <4>1. i \in 1..n /\ i - 1 \in 0..n
        BY <3>1, <1>1
      <4> QED BY <4>1, <3>1, <2>2
    <3> QED BY <3>1, <2>2
  <2>4. f = Def(f)
    BY <2>2, <2>3
  <2>5. \E h : h = Def(h)
    BY <2>4
  <2> QED BY <2>5 DEF ResetBatch, Grow, zero
<1>6. f[0] = zero /\ \A i \in 1..n : f[i] = Grow(snapshot[i], f[i - 1])
  <2>1. \A i \in 0..n : f[i] = IF i = 0 THEN zero ELSE Grow(snapshot[i], f[i - 1])
    BY <1>5
  <2>2. 0 \in 0..n /\ \A i \in 1..n : i \in 0..n /\ i # 0
    BY <1>1
  <2> QED BY <2>1, <2>2
<1> HIDE DEF n, F, Def
<1> DEFINE Grown(i) ==
             /\ f[i] \in X
             /\ \A k \in DOMAIN f[i].batch : \E j \in DOMAIN snapshot :
                  snapshot[j].subnet # Own /\ f[i].batch[k] = Event("put", snapshot[j])
             /\ \A j \in 1..i : snapshot[j].subnet # Own =>
                  \E k \in DOMAIN f[i].batch : f[i].batch[k] = Event("put", snapshot[j])
           P == {i \in 0..n : Grown(i)}
<1>7. Grown(0)
  BY <1>1, <1>3, <1>6 DEF zero
<1>8. ASSUME NEW i \in 1..n, Grown(i - 1) PROVE Grown(i)
  <2>1. i \in DOMAIN snapshot /\ snapshot[i] \in Lease /\ \A j \in 1..i : j = i \/ j \in 1..(i - 1)
    BY <1>1
  <2>2. /\ f[i] \in X
        /\ f[i].batch = IF snapshot[i].subnet = Own THEN f[i - 1].batch
                        ELSE Append(f[i - 1].batch, Event("put", snapshot[i]))
    BY <2>1, <1>2, <1>6, <1>8
  <2>3. CASE snapshot[i].subnet = Own
    BY <2>1, <2>2, <2>3, <1>8
  <2>4. CASE snapshot[i].subnet # Own
    <3>1. PICK q \in Seq(Events) : q = f[i - 1].batch
      BY <1>8 DEF X
    <3>2. PICK e \in Events : e = Event("put", snapshot[i])
      BY <2>1 DEF Events
    <3>3. PICK b : b = Append(q, e) /\ f[i].batch = b
      BY <2>2, <2>4, <3>1, <3>2
    <3>4. /\ Len(q) + 1 \in DOMAIN b /\ b[Len(q) + 1] = e
          /\ \A k \in DOMAIN q : k \in DOMAIN b /\ b[k] = q[k]
          /\ \A k \in DOMAIN b : k = Len(q) + 1 \/ k \in DOMAIN q
      BY <3>3, AppendFacts
    <3> QED BY <3>1, <3>2, <3>3, <3>4, <2>1, <2>2, <2>4, <1>8
  <2> QED BY <2>3, <2>4
<1>9. 0..n \subseteq P
  <2>1. 0 \in P /\ \A i \in 1..n : i - 1 \in P => i \in P
    <3> HIDE DEF Grown
    <3> QED BY <1>1, <1>7, <1>8
  <2> HIDE DEF P
  <2> QED BY <2>1, <1>1, UpTo
<1>10. Grown(n)
  <2> HIDE DEF Grown
  <2> QED BY <1>1, <1>9
<1>11. ResetBatch(Own, <<>>, snapshot) = f[n].batch
  <2>1. f[n].left = <<>> /\ f[n].batch \in Seq(Events)
    BY <1>10 DEF X
  <2>2. [i \in DOMAIN f[n].left |-> Event("delete", f[n].left[i])] = <<>>
    BY <2>1
  <2>3. f[n].batch \o <<>> = f[n].batch
    BY <2>1
  <2> QED BY <1>5, <2>2, <2>3
<1> QED BY <1>1, <1>10, <1>11 DEF Announces, X

(***************************************************************************)
(* The relay                                                               *)
(***************************************************************************)

\* What the watcher lists of s is what its list has of it.
LEMMA ListedIsLookup == \A s : Listed(s) = Lookup(leases, s)
<1> QED BY DEF Listed, Lookup

\* What the relay makes of a message m: of another host's subnet the batch says last, and
\* the list has, what m says of it; of a subnet m is silent on they say nothing new.
Passes(m, batch, list) ==
  /\ batch \in Seq(Events) /\ list \in Seq(Lease) /\ Distinct(list)
  /\ \A s \in Subnet \ {Own} :
       \/ BatchSays(batch, s, Lookup(list, s)) /\ MessageSays(m, s, Lookup(list, s))
       \/ About(batch, s) = {} /\ Silent(m, s) /\ Lookup(list, s) = Listed(s)
  /\ \A s \in Subnet \ {Own} : \A x : MessageSays(m, s, x) => Lookup(list, s) = x
  /\ \A s \in Subnet : /\ BatchRevs(batch, s) \subseteq MessageRevs(m, s)
                       /\ Ends(batch, s) => MessageSays(m, s, NoLease)

\* So it is when the message is an event,
LEMMA PassesEvent ==
  ASSUME Typed, Lists, NEW m \in Message, m.events # <<>>
  PROVE  Passes(m, Batch(m), Known(m))
<1>1. PICK e \in Events : m.events = <<e>> /\ Head(m.events) = e
  BY DEF Message
<1>2. PICK b, list : b = Batch(m) /\ list = Known(m) /\ b = UpdateBatch(Own, leases, e) /\ list = Update(Own, leases, e)
  BY <1>1 DEF Batch, Known
<1>3. /\ list \in Seq(Lease) /\ Distinct(list) /\ e.lease.subnet \in Subnet
      /\ \A s \in Subnet \ {Own} :
           Lookup(list, s) = IF s = e.lease.subnet THEN Told(e) ELSE Listed(s)
  <2>1. e.lease.subnet \in Subnet
    BY DEF Events, Event, Lease
  <2>2. leases \in Seq(Lease) /\ Distinct(leases)
    BY DEF Typed, Lists
  <2> QED BY <2>1, <2>2, <1>2, UpdateFacts, ListedIsLookup
<1>4. \A s : /\ Silent(m, s) <=> e.lease.subnet # s
             /\ \A x : MessageSays(m, s, x) <=> e.lease.subnet = s /\ Told(e) = x
  BY <1>1 DEF Silent, MessageSays
<1>5. CASE e.lease.subnet = Own
  <2>1. b = <<>>
    BY <1>2, <1>5 DEF UpdateBatch
  <2>2. b \in Seq(Events) /\ \A s : About(b, s) = {} /\ BatchRevs(b, s) = {} /\ ~Ends(b, s)
    BY <2>1 DEF About, BatchRevs, Ends
  <2> QED BY <2>2, <1>2, <1>3, <1>4, <1>5 DEF Passes
<1>6. CASE e.lease.subnet # Own
  <2>1. PICK f \in Events : /\ b = <<f>> /\ f.lease.subnet = e.lease.subnet /\ f.type = e.type
                            /\ Told(f) = Told(e) /\ (f.type = "put" => f = e)
    <3>1. leases \in Seq(Lease)
      BY DEF Typed
    <3> QED BY <3>1, <1>2, <1>6, UpdateBatchFacts
  <2>2. b \in Seq(Events) /\ \A s : About(b, s) = IF s = e.lease.subnet THEN {1} ELSE {}
    BY <2>1 DEF About
  <2>3. BatchSays(b, e.lease.subnet, Told(e))
    BY <2>1, <2>2 DEF BatchSays
  <2>4. ASSUME NEW s \in Subnet PROVE BatchRevs(b, s) \subseteq MessageRevs(m, s)
    <3> SUFFICES ASSUME f.type = "put", s = e.lease.subnet PROVE f.lease.rev \in MessageRevs(m, s)
      BY <2>1, <2>2 DEF BatchRevs
    <3>1. f = e /\ f.lease \in Lease /\ f.lease.rev \in Rev
      BY <2>1 DEF Events, Event, Lease
    <3>2. MessageSays(m, s, f.lease)
      BY <3>1, <1>4 DEF Told
    <3> QED BY <3>1, <3>2 DEF MessageRevs
  <2>5. ASSUME NEW s \in Subnet \ {Own}
        PROVE  \/ BatchSays(b, s, Lookup(list, s)) /\ MessageSays(m, s, Lookup(list, s))
               \/ About(b, s) = {} /\ Silent(m, s) /\ Lookup(list, s) = Listed(s)
    BY <1>3, <1>4, <2>2, <2>3
  <2>6. ASSUME NEW s \in Subnet, Ends(b, s) PROVE MessageSays(m, s, NoLease)
    <3>1. s = e.lease.subnet /\ f.type # "put"
      BY <2>1, <2>2, <2>6 DEF Ends
    <3> QED BY <3>1, <2>1, <1>4 DEF Told
  <2> QED BY <2>2, <2>4, <2>5, <2>6, <1>2, <1>3, <1>4 DEF Passes
<1> QED BY <1>5, <1>6

\* a snapshot, which the watcher gets before anything else,
LEMMA PassesSnapshot ==
  ASSUME Typed, NEW m \in Message, m.events = <<>>, m.snapshot # <<>>, Distinct(m.snapshot), leases = <<>>
  PROVE  Passes(m, Batch(m), Known(m))
<1>1. PICK S \in Seq(Lease) : S = m.snapshot
  BY DEF Message
<1>2. PICK b : b = Batch(m) /\ b = ResetBatch(Own, <<>>, S) /\ Known(m) = S
  BY <1>1 DEF Batch, Known, Reset
<1>3. /\ b \in Seq(Events)
      /\ \A k \in DOMAIN b : \E i \in DOMAIN S : S[i].subnet # Own /\ b[k] = Event("put", S[i])
      /\ \A i \in DOMAIN S : S[i].subnet # Own => \E k \in DOMAIN b : b[k] = Event("put", S[i])
  <2>1. Announces(b, S)
    BY <1>2, ResetFacts
  <2> QED BY <2>1 DEF Announces
<1>4. Distinct(S) /\ DOMAIN S = 1..Len(S) /\ \A i \in DOMAIN S : S[i] \in Lease
  BY <1>1
<1>5. \A s : /\ Silent(m, s) <=> \A i \in DOMAIN S : S[i].subnet # s
             /\ \A x : MessageSays(m, s, x) <=> \E i \in DOMAIN S : S[i].subnet = s /\ S[i] = x
  BY <1>1 DEF Silent, MessageSays
<1>6. ASSUME NEW s, NEW x, MessageSays(m, s, x) PROVE Lookup(S, s) = x
  <2>1. PICK i \in DOMAIN S : S[i].subnet = s /\ S[i] = x
    BY <1>5, <1>6
  <2> QED BY <2>1, <1>4, LookupFacts
<1>7. ASSUME NEW s \in Subnet \ {Own}
      PROVE  \/ BatchSays(b, s, Lookup(S, s)) /\ MessageSays(m, s, Lookup(S, s))
             \/ About(b, s) = {} /\ Silent(m, s) /\ Lookup(S, s) = Listed(s)
  <2>1. \A k \in About(b, s) : \E i \in DOMAIN S : S[i].subnet = s /\ b[k] = Event("put", S[i]) /\ Told(b[k]) = S[i]
    BY <1>3 DEF About, Event, Told
  <2>2. CASE \E i \in DOMAIN S : S[i].subnet = s
    <3>1. PICK i \in DOMAIN S : S[i].subnet = s
      BY <2>2
    <3>2. Lookup(S, s) = S[i] /\ MessageSays(m, s, S[i])
      BY <3>1, <1>4, <1>5, LookupFacts
    <3>3. PICK p \in DOMAIN b : b[p] = Event("put", S[i])
      BY <3>1, <1>3
    <3>4. p \in About(b, s)
      BY <3>1, <3>3 DEF About, Event
    <3>5. PICK k \in About(b, s) : \A j \in About(b, s) : j <= k
      <4>1. Len(b) \in Nat /\ DOMAIN b = 1..Len(b)
        BY <1>3
      <4>2. About(b, s) \subseteq DOMAIN b
        BY DEF About
      <4>3. About(b, s) \subseteq 0..Len(b)
        BY <4>1, <4>2
      <4> QED BY <4>1, <4>3, <3>4, Greatest
    <3>6. Told(b[k]) = S[i]
      BY <3>1, <2>1, <1>4 DEF Distinct
    <3> QED BY <3>2, <3>5, <3>6 DEF BatchSays
  <2>3. CASE \A i \in DOMAIN S : S[i].subnet # s
    <3>1. Lookup(S, s) = NoLease
      BY <2>3, <1>4, LookupFacts
    <3>2. Listed(s) = NoLease
      <4>1. leases \in Seq(Lease) /\ DOMAIN leases = {}
        BY DEF Typed
      <4>2. Find(leases, s) = 0
        BY <4>1, FindFacts
      <4> QED BY <4>2 DEF Listed
    <3> QED BY <2>1, <2>3, <1>5, <3>1, <3>2
  <2> QED BY <2>2, <2>3
<1>8. ASSUME NEW s \in Subnet, NEW x \in BatchRevs(b, s) PROVE x \in MessageRevs(m, s)
  <2>1. PICK k \in About(b, s) : b[k].type = "put" /\ x = b[k].lease.rev
    BY DEF BatchRevs
  <2>2. PICK i \in DOMAIN S : b[k] = Event("put", S[i]) /\ S[i].subnet = s
    BY <2>1, <1>3 DEF About, Event
  <2>3. x = S[i].rev /\ S[i] \in Lease /\ S[i].rev \in Rev /\ MessageSays(m, s, S[i])
    BY <2>1, <2>2, <1>4, <1>5 DEF Event, Lease
  <2> QED BY <2>2, <2>3 DEF MessageRevs
<1>9. \A s : ~Ends(b, s)
  BY <1>3 DEF Ends, About, Event
<1> QED BY <1>2, <1>3, <1>4, <1>6, <1>7, <1>8, <1>9 DEF Passes

\* and a snapshot of nothing: always.
LEMMA RelayFacts ==
  ASSUME Typed, Lists, Phases, wire # <<>>
  PROVE  Head(wire) \in Message /\ Passes(Head(wire), Batch(Head(wire)), Known(Head(wire)))
<1>1. wire \in Seq(Message)
  BY DEF Typed
<1>2. PICK m \in Message : m = Head(wire) /\ m = wire[1] /\ 1 \in DOMAIN wire
  BY <1>1, TailFacts
<1>3. CASE m.events # <<>>
  BY <1>2, <1>3, PassesEvent
<1>4. CASE m.events = <<>> /\ m.snapshot # <<>>
  <2>1. leases = <<>> /\ Distinct(m.snapshot)
    BY <1>2, <1>4 DEF Phases, Untold, Lists
  <2> QED BY <1>2, <1>4, <2>1, PassesSnapshot
<1>5. CASE m.events = <<>> /\ m.snapshot = <<>>
  <2>1. Batch(m) = <<>> /\ Known(m) = leases
    BY <1>5 DEF Batch, Known
  <2>2. PICK b \in Seq(Events) : b = <<>>
    BY EmptySeq
  <2>3. \A s : About(b, s) = {} /\ BatchRevs(b, s) = {} /\ ~Ends(b, s)
    BY <2>2 DEF About, BatchRevs, Ends
  <2>4. \A s : Silent(m, s) /\ \A x : ~MessageSays(m, s, x)
    BY <1>5 DEF Silent, MessageSays
  <2>5. leases \in Seq(Lease) /\ Distinct(leases)
    BY DEF Typed, Lists
  <2> QED BY <1>2, <2>1, <2>2, <2>3, <2>4, <2>5, ListedIsLookup DEF Passes
<1> QED BY <1>3, <1>4, <1>5

(***************************************************************************)
(* What is under way                                                       *)
(***************************************************************************)

\* A message put on the wire is what the watcher will hear last.
LEMMA ListMore ==
  ASSUME wire \in Seq(Message), NEW m \in Message, wire' = Append(wire, m), leases' = leases, NEW s, NEW x,
         MessageSays(m, s, x) \/ (Silent(m, s) /\ WillList(s, x))
  PROVE  WillList(s, x)'
<1>1. /\ Len(wire) + 1 \in DOMAIN wire' /\ wire'[Len(wire) + 1] = m
      /\ \A i \in DOMAIN wire : i \in DOMAIN wire' /\ wire'[i] = wire[i] /\ i \in Nat /\ i < Len(wire) + 1
      /\ \A i \in DOMAIN wire' : i = Len(wire) + 1 \/ i \in DOMAIN wire
  BY AppendFacts
<1>2. CASE MessageSays(m, s, x)
  <2>1. \A j \in DOMAIN wire' : ~(j > Len(wire) + 1)
    BY <1>1
  <2> QED BY <1>1, <1>2, <2>1 DEF WillList
<1>3. CASE Silent(m, s) /\ \E i \in DOMAIN wire :
             MessageSays(wire[i], s, x) /\ \A j \in DOMAIN wire : j > i => Silent(wire[j], s)
  <2>1. PICK i \in DOMAIN wire : MessageSays(wire[i], s, x) /\ \A j \in DOMAIN wire : j > i => Silent(wire[j], s)
    BY <1>3
  <2>2. MessageSays(wire'[i], s, x) /\ \A j \in DOMAIN wire' : j > i => Silent(wire'[j], s)
    BY <1>1, <1>3, <2>1
  <2> QED BY <1>1, <2>2 DEF WillList
<1>4. CASE Silent(m, s) /\ Listed(s) = x /\ \A j \in DOMAIN wire : Silent(wire[j], s)
  <2>1. \A j \in DOMAIN wire' : Silent(wire'[j], s)
    BY <1>1, <1>4
  <2>2. Listed(s)' = x
    BY <1>4 DEF Listed
  <2> QED BY <2>1, <2>2 DEF WillList
<1> QED BY <1>2, <1>3, <1>4 DEF WillList

\* What the watcher will list it still will when the relay has taken a message.
LEMMA ListLater ==
  ASSUME wire \in Seq(Message), wire # <<>>, wire' = Tail(wire), NEW b, Passes(Head(wire), b, leases'),
         NEW s \in Subnet \ {Own}, NEW x, WillList(s, x)
  PROVE  WillList(s, x)'
<1>1. /\ 1 \in DOMAIN wire /\ wire[1] = Head(wire)
      /\ \A i \in DOMAIN wire' : i + 1 \in DOMAIN wire /\ wire'[i] = wire[i + 1] /\ i \in Nat /\ i >= 1
      /\ \A i \in DOMAIN wire : i # 1 => i - 1 \in DOMAIN wire' /\ wire'[i - 1] = wire[i]
      /\ \A i \in DOMAIN wire : i \in Nat /\ i >= 1
  BY TailFacts
<1>2. Listed(s)' = Lookup(leases', s)
  BY DEF Listed, Lookup
<1>3. /\ \A y : MessageSays(wire[1], s, y) => Lookup(leases', s) = y
      /\ Silent(wire[1], s) => Lookup(leases', s) = Listed(s)
  <2>1. Silent(wire[1], s) => ~MessageSays(wire[1], s, Lookup(leases', s))
    BY DEF Silent, MessageSays
  <2> QED BY <1>1, <2>1 DEF Passes
<1>4. CASE \E i \in DOMAIN wire :
             MessageSays(wire[i], s, x) /\ \A j \in DOMAIN wire : j > i => Silent(wire[j], s)
  <2>1. PICK i \in DOMAIN wire : MessageSays(wire[i], s, x) /\ \A j \in DOMAIN wire : j > i => Silent(wire[j], s)
    BY <1>4
  <2>2. \A j \in DOMAIN wire' : j + 1 > i => Silent(wire'[j], s)
    BY <1>1, <2>1
  <2>3. CASE i = 1
    <3>1. Listed(s)' = x /\ \A j \in DOMAIN wire' : Silent(wire'[j], s)
      BY <1>1, <1>2, <1>3, <2>1, <2>2, <2>3
    <3> QED BY <3>1 DEF WillList
  <2>4. CASE i # 1
    <3>1. i - 1 \in DOMAIN wire' /\ MessageSays(wire'[i - 1], s, x)
      BY <1>1, <2>1, <2>4
    <3>2. \A j \in DOMAIN wire' : j > i - 1 => Silent(wire'[j], s)
      BY <1>1, <2>2
    <3> QED BY <3>1, <3>2 DEF WillList
  <2> QED BY <2>3, <2>4
<1>5. CASE Listed(s) = x /\ \A j \in DOMAIN wire : Silent(wire[j], s)
  <2>1. Listed(s)' = x /\ \A j \in DOMAIN wire' : Silent(wire'[j], s)
    BY <1>1, <1>2, <1>3, <1>5
  <2> QED BY <2>1 DEF WillList
<1> QED BY <1>4, <1>5 DEF WillList

\* A batch put in the queue is what the backend will hear last.
LEMMA KnowMore ==
  ASSUME queue \in Seq(Seq(Events)), NEW b \in Seq(Events), queue' = Append(queue, b), view' = view, NEW s, NEW x,
         BatchSays(b, s, x) \/ (About(b, s) = {} /\ WillKnow(s, x))
  PROVE  WillKnow(s, x)'
<1>1. /\ Len(queue) + 1 \in DOMAIN queue' /\ queue'[Len(queue) + 1] = b
      /\ \A i \in DOMAIN queue : i \in DOMAIN queue' /\ queue'[i] = queue[i] /\ i \in Nat /\ i < Len(queue) + 1
      /\ \A i \in DOMAIN queue' : i = Len(queue) + 1 \/ i \in DOMAIN queue
  BY AppendFacts
<1>2. CASE BatchSays(b, s, x)
  <2>1. \A j \in DOMAIN queue' : ~(j > Len(queue) + 1)
    BY <1>1
  <2> QED BY <1>1, <1>2, <2>1 DEF WillKnow
<1>3. CASE About(b, s) = {} /\ \E i \in DOMAIN queue :
             BatchSays(queue[i], s, x) /\ \A j \in DOMAIN queue : j > i => About(queue[j], s) = {}
  <2>1. PICK i \in DOMAIN queue : BatchSays(queue[i], s, x) /\ \A j \in DOMAIN queue : j > i => About(queue[j], s) = {}
    BY <1>3
  <2>2. BatchSays(queue'[i], s, x) /\ \A j \in DOMAIN queue' : j > i => About(queue'[j], s) = {}
    BY <1>1, <1>3, <2>1
  <2> QED BY <1>1, <2>2 DEF WillKnow
<1>4. CASE About(b, s) = {} /\ view[s] = x /\ \A j \in DOMAIN queue : About(queue[j], s) = {}
  <2>1. \A j \in DOMAIN queue' : About(queue'[j], s) = {}
    BY <1>1, <1>4
  <2> QED BY <1>4, <2>1 DEF WillKnow
<1> QED BY <1>2, <1>3, <1>4 DEF WillKnow

\* Of a subnet that a batch is about the backend knows the batch's last word, of another
\* what it knew.
LEMMA ApplyFacts ==
  ASSUME NEW b \in Seq(Events), NEW v, NEW s \in Subnet
  PROVE  /\ About(b, s) = {} => ApplyAll(v, b)[s] = v[s]
         /\ \A x : BatchSays(b, s, x) => ApplyAll(v, b)[s] = x
         /\ About(b, s) # {} => BatchSays(b, s, ApplyAll(v, b)[s])
<1>1. ApplyAll(v, b)[s] = IF About(b, s) = {} THEN v[s] ELSE Told(b[Latest(About(b, s))])
  BY DEF ApplyAll
<1>2. Len(b) \in Nat /\ About(b, s) \subseteq 0..Len(b)
  BY DEF About
<1>3. ASSUME About(b, s) # {}
      PROVE  Latest(About(b, s)) \in About(b, s) /\ \A t \in About(b, s) : t <= Latest(About(b, s))
  BY <1>2, <1>3, LatestFacts
<1>4. ASSUME NEW x, BatchSays(b, s, x) PROVE ApplyAll(v, b)[s] = x
  <2>1. PICK k \in About(b, s) : Told(b[k]) = x /\ \A j \in About(b, s) : j <= k
    BY <1>4 DEF BatchSays
  <2>2. Latest(About(b, s)) = k
    BY <2>1, <1>2, <1>3
  <2> QED BY <1>1, <2>1, <2>2
<1> QED BY <1>1, <1>3, <1>4 DEF BatchSays

\* What the backend will know it still will when it has applied a batch.
LEMMA KnowLater ==
  ASSUME queue \in Seq(Seq(Events)), queue # <<>>, queue' = Tail(queue), view' = ApplyAll(view, Head(queue)),
         NEW s \in Subnet, NEW x, WillKnow(s, x)
  PROVE  WillKnow(s, x)'
<1>1. /\ 1 \in DOMAIN queue /\ queue[1] = Head(queue) /\ Head(queue) \in Seq(Events)
      /\ \A i \in DOMAIN queue' : i + 1 \in DOMAIN queue /\ queue'[i] = queue[i + 1] /\ i \in Nat /\ i >= 1
      /\ \A i \in DOMAIN queue : i # 1 => i - 1 \in DOMAIN queue' /\ queue'[i - 1] = queue[i]
      /\ \A i \in DOMAIN queue : i \in Nat /\ i >= 1
  BY TailFacts
<1>2. /\ About(queue[1], s) = {} => view'[s] = view[s]
      /\ \A y : BatchSays(queue[1], s, y) => view'[s] = y
  <2>1. PICK b \in Seq(Events) : b = queue[1] /\ view' = ApplyAll(view, b)
    BY <1>1
  <2>2. ASSUME NEW y, BatchSays(b, s, y) PROVE view'[s] = y
    BY <2>1, <2>2, ApplyFacts
  <2> QED BY <2>1, <2>2, ApplyFacts
<1>3. CASE \E i \in DOMAIN queue :
             BatchSays(queue[i], s, x) /\ \A j \in DOMAIN queue : j > i => About(queue[j], s) = {}
  <2>1. PICK i \in DOMAIN queue : BatchSays(queue[i], s, x) /\ \A j \in DOMAIN queue : j > i => About(queue[j], s) = {}
    BY <1>3
  <2>2. \A j \in DOMAIN queue' : j + 1 > i => About(queue'[j], s) = {}
    BY <1>1, <2>1
  <2>3. CASE i = 1
    <3>1. view'[s] = x
      BY <1>2, <2>1, <2>3
    <3>2. ASSUME NEW j \in DOMAIN queue' PROVE About(queue'[j], s) = {}
      <4>1. j + 1 > i
        BY <1>1, <2>3
      <4> QED BY <4>1, <2>2
    <3> QED BY <3>1, <3>2 DEF WillKnow
  <2>4. CASE i # 1
    <3>1. i - 1 \in DOMAIN queue' /\ BatchSays(queue'[i - 1], s, x)
      BY <1>1, <2>1, <2>4
    <3>2. ASSUME NEW j \in DOMAIN queue', j > i - 1 PROVE About(queue'[j], s) = {}
      <4>1. j + 1 > i
        BY <1>1, <3>2
      <4> QED BY <4>1, <2>2
    <3> QED BY <3>1, <3>2 DEF WillKnow
  <2> QED BY <2>3, <2>4
<1>4. CASE view[s] = x /\ \A j \in DOMAIN queue : About(queue[j], s) = {}
  <2>1. view'[s] = x /\ \A j \in DOMAIN queue' : About(queue'[j], s) = {}
    BY <1>1, <1>2, <1>4
  <2> QED BY <2>1 DEF WillKnow
<1> QED BY <1>3, <1>4 DEF WillKnow

(***************************************************************************)
(* The fetch task                                                          *)
(***************************************************************************)

\* What the log holds.
LEMMA LogFacts ==
  ASSUME Typed, NEW r \in DOMAIN log
  PROVE  /\ r \in Rev /\ log[r].subnet \in Subnet /\ log[r].type \in {"put", "delete"}
         /\ log[r].type = "put" => LeaseOf(r) \in Lease
<1>1. log[r] \in Change /\ r \in Rev
  <2>1. log \in Seq(Change) /\ Len(log) \in Nat /\ Len(log) <= MaxRev
    BY BoundsAssumption DEF Typed
  <2> QED BY <2>1, BoundsAssumption DEF Rev
<1>2. log[r].type = "put" => log[r].ip \in Host
  BY <1>1 DEF Change, Put, Delete
<1>3. log[r].subnet \in Subnet /\ log[r].type \in {"put", "delete"}
  BY <1>1 DEF Change, Put, Delete
<1> QED BY <1>1, <1>2, <1>3 DEF LeaseOf, Lease

\* What the watch makes of a change is a message that says of its subnet what it says.
LEMMA ParsedFacts ==
  ASSUME Typed, NEW r \in DOMAIN log
  PROVE  /\ Parsed(r) \in Events /\ Parsed(r).lease.subnet = log[r].subnet
         /\ Told(Parsed(r)) = IF log[r].type = "put" THEN LeaseOf(r) ELSE NoLease
<1>1. CASE log[r].type = "put"
  BY <1>1, LogFacts DEF Parsed, Event, Events, Told, LeaseOf
<1>2. CASE log[r].type # "put"
  BY <1>2, LogFacts DEF Parsed, Event, Events, Told
<1> QED BY <1>1, <1>2

\* A range read gets every registered subnet, once.
LEMMA RangeFacts ==
  ASSUME Typed, RangeRead
  PROVE  /\ todo' \in Seq(Lease) /\ Distinct(todo')
         /\ \A i \in DOMAIN todo' : /\ todo'[i].subnet \in Subnet /\ Registered(todo'[i].subnet)
                                    /\ todo'[i] = Entry(todo'[i].subnet)
         /\ \A s \in Subnet : Registered(s) => \E i \in DOMAIN todo' : todo'[i].subnet = s
         /\ cursor' = 0 => todo' = <<>>
<1> DEFINE keys == {s \in Subnet : Registered(s)}
           n == Cardinality(keys)
<1>1. IsFiniteSet(keys) /\ n \in Nat /\ keys \subseteq Nat
  BY SubnetAssumption, FS_Subset, FS_CardinalityType
<1>2. PICK order \in [1..n -> keys] :
         /\ \A i, j \in 1..n : i < j => order[i] < order[j]
         /\ todo' = [i \in 1..n |-> Entry(order[i])]
  BY DEF RangeRead
<1>3. \A i \in 1..n : order[i] \in keys
  BY <1>2
<1>4. \A s \in keys : s \in Subnet /\ Registered(s) /\ Entry(s) \in Lease /\ Entry(s).subnet = s
  BY EntryFacts
<1>5. cursor' = 0 => keys = {}
  BY DEF RangeRead, Typed
<1> HIDE DEF keys
<1>6. \A i, j \in 1..n : order[i] = order[j] => i = j
  <2> SUFFICES ASSUME NEW i \in 1..n, NEW j \in 1..n, order[i] = order[j] PROVE i = j
    OBVIOUS
  <2>1. order[i] \in Nat
    BY <1>1, <1>3
  <2>2. ~(i < j) /\ ~(j < i)
    BY <2>1, <1>2
  <2>3. i \in Nat /\ j \in Nat
    BY <1>1
  <2> QED BY <2>2, <2>3
<1>7. \A s \in keys : \E i \in 1..n : order[i] = s
  <2>1. order \in Injection(1..n, keys)
    BY <1>2, <1>6, Fun_IsInj
  <2>2. IsFiniteSet(1..n) /\ Cardinality(1..n) = n
    BY <1>1, FS_Interval
  <2>3. order \in Surjection(1..n, keys)
    BY <2>1, <2>2, <1>1, FS_Injection
  <2> HIDE DEF n
  <2>4. \A t \in keys : \E i \in 1..n : order[i] = t
    BY <2>3 DEF Surjection
  <2> QED BY <2>4
<1>8. todo' \in Seq(Lease) /\ DOMAIN todo' = 1..n
  <2>1. n \in Nat
    BY <1>1
  <2> HIDE DEF n
  <2>2. \A i \in 1..n : Entry(order[i]) \in Lease
    BY <1>3, <1>4
  <2> QED BY <2>1, <2>2, <1>2
<1>9. \A i \in 1..n : todo'[i] = Entry(order[i]) /\ todo'[i].subnet = order[i]
  BY <1>2, <1>3, <1>4
<1>10. Distinct(todo')
  BY <1>6, <1>8, <1>9 DEF Distinct
<1>11. cursor' = 0 => todo' = <<>>
  <2>1. keys = {} => n = 0
    BY FS_EmptySet
  <2>2. keys = {} => todo' = <<>>
    BY <2>1, <1>8
  <2> QED BY <2>2, <1>5
<1>12. \A s \in Subnet : Registered(s) => s \in keys
  BY DEF keys
<1> QED BY <1>3, <1>4, <1>7, <1>8, <1>9, <1>10, <1>11, <1>12

(***************************************************************************)
(* Steps                                                                   *)
(***************************************************************************)

\* The kinds of steps there are: a task that ends does so for any of its reasons.
LEMMA Kinds ==
  ASSUME [Next]_vars
  PROVE  \/ Environment \/ RangeRead \/ QueryTtl \/ TtlQueryFails \/ SendSnapshot \/ OpenWatch
         \/ ParseEvent \/ DropExpiredPut \/ EndFetch \/ Relay \/ RelayEnds \/ HandleBatch \/ EndBackend
         \/ UNCHANGED vars
<1> QED BY DEF Next, Fetch, QueryTtlPanics, FetchFails, FetchUnheard, BackendFails, BackendStops

\* The environment only adds a change to the registry or ends a lease.
LEMMA EnvironmentFacts ==
  ASSUME Typed, Environment
  PROVE  /\ UNCHANGED <<fetch, todo, got, cursor, pos, readAt, since, skipped, wire, relay, leases,
                        queue, backend, view, newest>>
         /\ log' = log \/ \E c \in Change : log' = Append(log, c) /\ Len(log) < MaxRev
         /\ \A r \in ended' : r \in DOMAIN log /\ (r \in ended \/ EndLease(r))
<1>1. ASSUME NEW s \in Subnet, NEW h \in Host, Register(s, h)
      PROVE  /\ UNCHANGED <<fetching, wire, downstream>> /\ ended' = ended
             /\ \E c \in Change : log' = Append(log, c) /\ Len(log) < MaxRev
  BY <1>1 DEF Register, Change
<1>2. ASSUME NEW r \in DOMAIN log, EndLease(r)
      PROVE  /\ UNCHANGED <<fetching, wire, downstream>> /\ ended' = ended \cup {r}
             /\ log' = log \/ \E c \in Change : log' = Append(log, c) /\ Len(log) < MaxRev
  <2>1. Delete(log[r].subnet) \in Change
    BY LogFacts DEF Change
  <2> QED BY <1>2, <2>1 DEF EndLease
<1>3. ended \subseteq DOMAIN log
  BY DEF Typed
<1> QED BY <1>1, <1>2, <1>3 DEF Environment, fetching, downstream

\* The watch is always at a change there is or will be.
LEMMA StreamFacts ==
  ASSUME Typed, Phases, fetch = "stream"
  PROVE  /\ pos \in Nat /\ readAt \in Nat /\ since \in Nat /\ Len(log) \in Nat
         /\ readAt >= 1 /\ since >= readAt /\ since <= pos
         /\ pos <= Len(log) => pos \in DOMAIN log /\ pos \in 1..Len(log)
<1>1. /\ pos \in Nat /\ readAt \in Nat /\ since \in Nat /\ Len(log) \in Nat
      /\ DOMAIN log = 1..Len(log)
  BY BoundsAssumption DEF Typed
<1>2. readAt \in 1..Len(log) /\ cursor \in {0, readAt} /\ since <= pos
      /\ IF cursor = 0 THEN since > readAt ELSE since = cursor
  BY DEF Phases
<1> QED BY <1>1, <1>2

\* The types.
LEMMA TypedStep ==
  ASSUME Typed, Phases, Lists, [Next]_vars
  PROVE  Typed'
<1> USE DEF Typed
<1>1. CASE Environment
  <2>1. log' \in Seq(Change) /\ Len(log') \in 1..MaxRev /\ DOMAIN log \subseteq DOMAIN log'
    BY <1>1, EnvironmentFacts, NewChange
  <2> QED BY <1>1, <2>1, EnvironmentFacts
<1>2. CASE RangeRead
  <2>1. todo' \in Seq(Lease)
    BY <1>2, RangeFacts
  <2>2. cursor' \in 0..MaxRev /\ readAt' \in Nat
    BY <1>2, BoundsAssumption DEF RangeRead
  <2> QED BY <1>2, <2>1, <2>2 DEF RangeRead, registry, downstream
<1>3. CASE QueryTtl
  <2>1. Tail(todo) \in Seq(Lease) /\ Append(got, Head(todo)) \in Seq(Lease)
    BY <1>3, TailFacts, AppendFacts DEF QueryTtl
  <2> QED BY <1>3, <2>1 DEF QueryTtl, registry, downstream
<1>4. CASE TtlQueryFails
  <2>1. Tail(todo) \in Seq(Lease)
    BY <1>4, TailFacts DEF TtlQueryFails
  <2> QED BY <1>4, <2>1 DEF TtlQueryFails, registry, downstream
<1>5. CASE SendSnapshot
  <2>1. PICK m \in Message : wire' = Append(wire, m)
    BY <1>5 DEF SendSnapshot, Message
  <2>2. wire' \in Seq(Message) /\ Len(wire') <= Capacity
    BY <1>5, <2>1, AppendFacts, BoundsAssumption DEF SendSnapshot, Room
  <2> QED BY <1>5, <2>2 DEF SendSnapshot, registry, downstream
<1>6. CASE OpenWatch
  <2>1. pos' \in 0..(MaxRev + 1) /\ since' \in Nat
    BY <1>6, BoundsAssumption DEF OpenWatch
  <2> QED BY <1>6, <2>1 DEF OpenWatch, registry, downstream
<1>7. CASE ParseEvent
  <2>1. pos \in DOMAIN log /\ pos' \in 0..(MaxRev + 1)
    BY <1>7, StreamFacts, BoundsAssumption DEF ParseEvent
  <2>2. PICK m \in Message : wire' = Append(wire, m)
    BY <1>7, <2>1, ParsedFacts, EmptySeq DEF ParseEvent, Message
  <2>3. wire' \in Seq(Message) /\ Len(wire') <= Capacity
    BY <1>7, <2>2, AppendFacts, BoundsAssumption DEF ParseEvent, Room
  <2> QED BY <1>7, <2>1, <2>3 DEF ParseEvent, registry, downstream
<1>8. CASE DropExpiredPut
  <2>1. pos' \in 0..(MaxRev + 1)
    BY <1>8, StreamFacts, BoundsAssumption DEF DropExpiredPut
  <2> QED BY <1>8, <2>1 DEF DropExpiredPut, registry, downstream
<1>9. CASE EndFetch
  BY <1>9 DEF EndFetch, registry, downstream
<1>10. CASE Relay
  <2>1. Head(wire) \in Message /\ Passes(Head(wire), Batch(Head(wire)), Known(Head(wire)))
    BY <1>10, RelayFacts DEF Relay
  <2>2. PICK b \in Seq(Events) : b = Batch(Head(wire)) /\ leases' = Known(Head(wire)) /\ leases' \in Seq(Lease)
    BY <1>10, <2>1 DEF Relay, Passes
  <2>3. wire' \in Seq(Message) /\ Len(wire') <= Capacity
    <3>1. wire' = Tail(wire) /\ wire # <<>>
      BY <1>10 DEF Relay
    <3>2. Len(wire) \in Nat /\ Len(Tail(wire)) = Len(wire) - 1 /\ Tail(wire) \in Seq(Message)
      BY <3>1, TailFacts
    <3> QED BY <3>1, <3>2, BoundsAssumption
  <2>4. queue' \in Seq(Seq(Events)) /\ Len(queue') <= Capacity
    <3>1. queue' = queue \/ (queue' = Append(queue, b) /\ Len(queue) < Capacity)
      BY <1>10, <2>2 DEF Relay, Room
    <3>2. /\ Append(queue, b) \in Seq(Seq(Events)) /\ Len(Append(queue, b)) = Len(queue) + 1
          /\ Len(queue) \in Nat
      BY AppendFacts
    <3>3. CASE queue' = Append(queue, b) /\ Len(queue) < Capacity
      <4>1. Len(queue') = Len(queue) + 1 /\ Len(queue) \in Nat /\ Len(queue) < Capacity /\ Capacity \in Nat
        BY <3>2, <3>3, BoundsAssumption
      <4>2. Len(queue') <= Capacity
        BY <4>1
      <4> QED BY <3>2, <3>3, <4>2
    <3> QED BY <3>1, <3>3
  <2> QED BY <1>10, <2>2, <2>3, <2>4 DEF Relay, registry, fetching
<1>11. CASE RelayEnds
  <2>1. wire' \in Seq(Message) /\ Len(wire') <= Capacity
    BY <1>11, BoundsAssumption DEF RelayEnds
  <2> QED BY <1>11, <2>1 DEF RelayEnds, registry, fetching
<1>12. CASE HandleBatch
  <2>1. PICK b \in Seq(Events) : b = Head(queue) /\ view' = ApplyAll(view, b)
    BY <1>12, TailFacts DEF HandleBatch
  <2>2. view' \in [Subnet -> Lease \cup {NoLease}]
    <3>1. ASSUME NEW s \in Subnet PROVE view'[s] \in Lease \cup {NoLease}
      <4> HIDE DEF Typed
      <4>1. CASE About(b, s) = {}
        <5>1. view'[s] = view[s]
          BY <2>1, <4>1, ApplyFacts
        <5> QED BY <5>1 DEF Typed
      <4>2. CASE About(b, s) # {}
        <5>0. BatchSays(b, s, view'[s])
          BY <2>1, <4>2, ApplyFacts
        <5>1. PICK k \in About(b, s) : Told(b[k]) = view'[s]
          BY <5>0 DEF BatchSays
        <5>2. b[k] \in Events
          BY DEF About
        <5> QED BY <5>1, <5>2 DEF Told, Events, Event
      <4> QED BY <4>1, <4>2
    <3>2. view' = [s \in Subnet |-> view'[s]]
      BY <2>1 DEF ApplyAll
    <3> QED BY <3>1, <3>2
  <2>3. newest' \in [Subnet -> 0..MaxRev]
    <3>1. \A s \in Subnet : view'[s] # NoLease => view'[s].rev \in 0..MaxRev
      BY <2>2 DEF Lease, Rev
    <3> QED BY <1>12, <3>1 DEF HandleBatch
  <2>4. queue' \in Seq(Seq(Events)) /\ Len(queue') <= Capacity
    <3>1. queue' = Tail(queue) /\ queue # <<>>
      BY <1>12 DEF HandleBatch
    <3>2. Len(queue) \in Nat /\ Len(Tail(queue)) = Len(queue) - 1 /\ Tail(queue) \in Seq(Seq(Events))
      BY <3>1, TailFacts
    <3> QED BY <3>1, <3>2, BoundsAssumption
  <2> QED BY <1>12, <2>2, <2>3, <2>4 DEF HandleBatch, registry, fetching
<1>13. CASE EndBackend
  <2>1. queue' \in Seq(Seq(Events)) /\ Len(queue') <= Capacity
    BY <1>13, BoundsAssumption DEF EndBackend
  <2> QED BY <1>13, <2>1 DEF EndBackend, registry, fetching
<1>14. CASE UNCHANGED vars
  BY <1>14 DEF vars
<1> QED BY <1>1, <1>2, <1>3, <1>4, <1>5, <1>6, <1>7, <1>8, <1>9, <1>10, <1>11, <1>12, <1>13, <1>14, Kinds

\* The phases of the fetch task, and what has been told by then.
LEMMA PhasesStep ==
  ASSUME Typed, Phases, [Next]_vars
  PROVE  Phases'
<1>1. CASE Environment
  <2>1. Len(log') >= Len(log) /\ Len(log) \in Nat /\ Len(log') \in Nat
    <3>1. Len(log) \in Nat
      BY DEF Typed
    <3>2. ASSUME NEW c \in Change, log' = Append(log, c), Len(log) < MaxRev PROVE Len(log') = Len(log) + 1
      BY <3>2, NewChange
    <3> QED BY <1>1, <3>1, <3>2, EnvironmentFacts
  <2>2. UNCHANGED <<fetch, todo, got, cursor, pos, readAt, since, skipped, wire, relay, leases, queue, backend, view, newest>>
    BY <1>1, EnvironmentFacts
  <2>3. (fetch = "stream" => pos \in Nat) /\ (fetch \notin {"range", "ended"} => readAt \in Nat)
    BY BoundsAssumption DEF Typed
  <2> QED BY <2>1, <2>2, <2>3 DEF Phases, Untold
<1>2. CASE RangeRead
  <2>1. /\ fetch = "range" /\ fetch' = "ttl" /\ readAt' = Len(log) /\ cursor' \in {0, Len(log)}
        /\ UNCHANGED <<log, got, wire, relay, leases, queue, backend, view, newest>>
    BY <1>2 DEF RangeRead, registry, downstream
  <2>2. Len(log) \in 1..Len(log) /\ (cursor' = 0 => todo' = <<>>)
    BY <1>2, RangeFacts DEF Typed
  <2> QED BY <2>1, <2>2 DEF Phases, Untold
<1>3. CASE QueryTtl \/ TtlQueryFails
  BY <1>3 DEF QueryTtl, TtlQueryFails, Phases, Untold, registry, downstream
<1>4. CASE SendSnapshot
  <2>1. /\ fetch = "ttl" /\ fetch' = "open" /\ relay /\ todo = <<>> /\ wire' = Append(wire, [snapshot |-> got, events |-> <<>>])
        /\ UNCHANGED <<log, todo, got, cursor, pos, readAt, since, relay, leases, queue, backend, view, newest>>
    BY <1>4 DEF SendSnapshot, registry, downstream
  <2>2. wire = <<>> /\ Untold /\ Untold'
    BY <2>1 DEF Phases, Untold
  <2>3. wire' = <<[snapshot |-> got, events |-> <<>>]>>
    BY <2>1, <2>2
  <2>4. \A i \in DOMAIN wire' : i = 1 /\ wire'[i].events = <<>>
    BY <2>3
  <2>5. readAt \in 1..Len(log) /\ cursor \in {0, readAt} /\ (cursor = 0 => got = <<>>)
    BY <2>1 DEF Phases
  <2> QED BY <2>1, <2>2, <2>4, <2>5 DEF Phases
<1>5. CASE OpenWatch
  <2>1. /\ fetch = "open" /\ fetch' = "stream" /\ since' = pos' /\ pos' = IF cursor = 0 THEN Len(log) + 1 ELSE cursor
        /\ UNCHANGED <<log, todo, got, cursor, readAt, wire, relay, leases, queue, backend, view, newest>>
    BY <1>5 DEF OpenWatch, registry, downstream
  <2>2. Len(log) \in Nat /\ readAt \in 1..Len(log) /\ cursor \in {0, readAt}
    BY <2>1 DEF Phases, Typed
  <2> QED BY <2>1, <2>2 DEF Phases, Untold
<1>6. CASE ParseEvent
  <2>1. /\ fetch = "stream" /\ fetch' = "stream" /\ pos' = pos + 1 /\ pos <= Len(log) /\ relay
        /\ wire' = Append(wire, [snapshot |-> <<>>, events |-> <<Parsed(pos)>>])
        /\ UNCHANGED <<log, todo, got, cursor, readAt, since, relay, leases, queue, backend, view, newest>>
    BY <1>6 DEF ParseEvent, registry, downstream
  <2>2. pos \in Nat /\ since \in Nat /\ Len(log) \in Nat
    BY <2>1, StreamFacts
  <2>3. ASSUME NEW i \in DOMAIN wire', wire'[i].snapshot # <<>>
        PROVE  i = 1 /\ wire'[i].events = <<>> /\ Untold'
    <3>1. PICK m : m = [snapshot |-> <<>>, events |-> <<Parsed(pos)>>] /\ wire' = Append(wire, m)
      BY <2>1
    <3>2. m \in Message /\ wire \in Seq(Message)
      BY <2>1, <3>1, StreamFacts, ParsedFacts, EmptySeq DEF Message, Typed
    <3>3. i \in DOMAIN wire /\ wire'[i] = wire[i]
      BY <3>1, <3>2, <2>3, AppendFacts
    <3> QED BY <3>3, <2>1, <2>3 DEF Phases, Untold
  <2> QED BY <2>1, <2>2, <2>3 DEF Phases
<1>7. CASE DropExpiredPut
  <2>1. pos \in Nat /\ since \in Nat /\ Len(log) \in Nat
    BY <1>7, StreamFacts DEF DropExpiredPut
  <2> QED BY <1>7, <2>1 DEF DropExpiredPut, registry, downstream, Phases, Untold
<1>8. CASE EndFetch
  BY <1>8 DEF EndFetch, registry, downstream, Phases, Untold
<1>9. CASE Relay
  <2>1. wire # <<>> /\ wire' = Tail(wire) /\ relay /\ UNCHANGED <<log, fetch, todo, got, cursor, pos, readAt, since, relay, backend>>
    BY <1>9 DEF Relay, registry, fetching
  <2>2. \A i \in DOMAIN wire' : i + 1 \in DOMAIN wire /\ wire'[i] = wire[i + 1] /\ i \in Nat /\ i >= 1
    BY <2>1, TailFacts DEF Typed
  <2>3. ASSUME NEW i \in DOMAIN wire' PROVE wire'[i].snapshot = <<>>
    <3>1. i + 1 # 1 /\ i + 1 \in DOMAIN wire /\ wire'[i] = wire[i + 1]
      BY <2>2
    <3> QED BY <3>1 DEF Phases
  <2> QED BY <2>1, <2>3 DEF Phases
<1>10. CASE RelayEnds
  BY <1>10 DEF RelayEnds, registry, fetching, Phases, Untold
<1>11. CASE HandleBatch
  <2>1. /\ queue # <<>> /\ backend
        /\ UNCHANGED <<log, fetch, todo, got, cursor, pos, readAt, since, wire, relay, leases, backend>>
    BY <1>11 DEF HandleBatch, registry, fetching
  <2>2. ~Untold
    BY <2>1 DEF Untold
  <2> QED BY <2>1, <2>2 DEF Phases
<1>12. CASE EndBackend
  BY <1>12 DEF EndBackend, registry, fetching, Phases, Untold
<1>13. CASE UNCHANGED vars
  BY <1>13 DEF vars, Phases, Untold
<1> QED BY <1>1, <1>2, <1>3, <1>4, <1>5, <1>6, <1>7, <1>8, <1>9, <1>10, <1>11, <1>12, <1>13, Kinds

\* A lease that ends takes its key along, or has lost it to a later one.
LEMMA EndedStep ==
  ASSUME Typed, EndedOK, [Next]_vars
  PROVE  EndedOK'
<1>1. CASE Environment
  <2> SUFFICES ASSUME NEW r \in ended'
               PROVE  \E t \in DOMAIN log' : t > r /\ log'[t].subnet = log'[r].subnet
    BY DEF EndedOK
  <2>1. r \in DOMAIN log /\ (r \in ended \/ EndLease(r)) /\ Len(log) \in Nat /\ DOMAIN log = 1..Len(log)
    BY <1>1, EnvironmentFacts DEF Typed
  <2>2. \A t \in DOMAIN log : t \in DOMAIN log' /\ log'[t] = log[t]
    <3>1. ASSUME NEW c \in Change, log' = Append(log, c), Len(log) < MaxRev
          PROVE  \A t \in DOMAIN log : t \in DOMAIN log' /\ log'[t] = log[t]
      BY <3>1, NewChange
    <3> QED BY <1>1, <3>1, EnvironmentFacts
  <2>3. CASE r \in ended
    BY <2>1, <2>2, <2>3 DEF EndedOK
  <2>4. CASE EndLease(r) /\ r # Latest(Changes(log[r].subnet))
    <3>1. r \in Changes(log[r].subnet)
      BY <2>1 DEF Changes
    <3>2. PICK t : t = Latest(Changes(log[r].subnet)) /\ t \in Changes(log[r].subnet) /\ r <= t
      BY <3>1, ChangesFacts
    <3>3. t > r /\ t \in DOMAIN log /\ log[t].subnet = log[r].subnet
      BY <2>1, <2>4, <3>2 DEF Changes
    <3> QED BY <2>1, <2>2, <3>3
  <2>5. CASE EndLease(r) /\ r = Latest(Changes(log[r].subnet))
    <3>1. PICK c \in Change : log' = Append(log, c) /\ Len(log) < MaxRev /\ c.subnet = log[r].subnet
      <4>1. Delete(log[r].subnet) \in Change /\ Delete(log[r].subnet).subnet = log[r].subnet
        BY <2>1, LogFacts DEF Change, Delete
      <4> QED BY <2>5, <4>1 DEF EndLease
    <3>2. Len(log) + 1 \in DOMAIN log' /\ log'[Len(log) + 1] = c
      BY <3>1, NewChange
    <3> QED BY <2>1, <2>2, <3>1, <3>2
  <2> QED BY <2>1, <2>3, <2>4, <2>5
<1>2. CASE UNCHANGED <<log, ended>>
  BY <1>2 DEF EndedOK
<1>3. ~Environment => UNCHANGED <<log, ended>>
  BY Kinds DEF RangeRead, QueryTtl, TtlQueryFails, SendSnapshot, OpenWatch, ParseEvent, DropExpiredPut,
               EndFetch, Relay, RelayEnds, HandleBatch, EndBackend, vars, registry
<1> QED BY <1>1, <1>2, <1>3

\* A message the fetch task sends.
Snapshot(list) == [snapshot |-> list, events |-> <<>>]
Watched(e) == [snapshot |-> <<>>, events |-> <<e>>]

\* No list ever has two leases of a subnet.
LEMMA ListsStep ==
  ASSUME Typed, Phases, Lists, [Next]_vars
  PROVE  Lists'
<1> USE DEF Lists
<1>1. CASE RangeRead
  <2>1. got' = <<>> /\ UNCHANGED <<leases, wire>>
    BY <1>1 DEF RangeRead, Phases, downstream
  <2>2. Distinct(todo')
    BY <1>1, RangeFacts
  <2>3. DOMAIN got' = {} /\ Distinct(got')
    BY <2>1 DEF Distinct
  <2> QED BY <2>1, <2>2, <2>3
<1>2. CASE QueryTtl
  <2>1. todo # <<>> /\ todo' = Tail(todo) /\ got' = Append(got, Head(todo)) /\ UNCHANGED <<leases, wire>>
    BY <1>2 DEF QueryTtl, downstream
  <2>2. /\ \A i \in DOMAIN todo' : i + 1 \in DOMAIN todo /\ todo'[i] = todo[i + 1] /\ i \in Nat /\ i >= 1
        /\ 1 \in DOMAIN todo /\ todo[1] = Head(todo) /\ Head(todo) \in Lease
    BY <2>1, TailFacts DEF Typed
  <2>3. /\ \A i \in DOMAIN got : i \in DOMAIN got' /\ got'[i] = got[i] /\ i \in Nat /\ i < Len(got) + 1
        /\ Len(got) + 1 \in DOMAIN got' /\ got'[Len(got) + 1] = todo[1]
        /\ \A i \in DOMAIN got' : i = Len(got) + 1 \/ i \in DOMAIN got
    <3>1. got \in Seq(Lease)
      BY DEF Typed
    <3>2. PICK l \in Lease : l = todo[1] /\ got' = Append(got, l)
      BY <2>1, <2>2
    <3> QED BY <3>1, <3>2, AppendFacts
  <2>4. Distinct(todo')
    BY <2>2 DEF Distinct
  <2>5. Distinct(got')
    BY <2>2, <2>3 DEF Distinct
  <2>6. ASSUME NEW i \in DOMAIN todo', NEW j \in DOMAIN got' PROVE todo'[i].subnet # got'[j].subnet
    <3>1. i + 1 \in DOMAIN todo /\ i + 1 # 1 /\ todo'[i] = todo[i + 1]
      BY <2>2
    <3>2. CASE j = Len(got) + 1
      BY <2>2, <2>3, <3>1, <3>2 DEF Distinct
    <3>3. CASE j \in DOMAIN got
      BY <2>3, <3>1, <3>3
    <3> QED BY <2>3, <3>2, <3>3
  <2> QED BY <2>1, <2>4, <2>5, <2>6
<1>3. CASE TtlQueryFails
  <2>1. todo # <<>> /\ todo' = Tail(todo) /\ UNCHANGED <<got, leases, wire>>
    BY <1>3 DEF TtlQueryFails, downstream
  <2>2. \A i \in DOMAIN todo' : i + 1 \in DOMAIN todo /\ todo'[i] = todo[i + 1] /\ i \in Nat /\ i >= 1
    BY <2>1, TailFacts DEF Typed
  <2>3. Distinct(todo')
    BY <2>2 DEF Distinct
  <2> QED BY <2>1, <2>2, <2>3
<1>4. ASSUME NEW m \in Message, wire' = Append(wire, m), Distinct(m.snapshot), UNCHANGED <<todo, got, leases>>
      PROVE  Lists'
  <2>1. \A i \in DOMAIN wire' : wire'[i] = m \/ (i \in DOMAIN wire /\ wire'[i] = wire[i])
    BY <1>4, AppendFacts DEF Typed
  <2> QED BY <1>4, <2>1
<1>5. CASE SendSnapshot
  <2>1. PICK m : m = Snapshot(got) /\ wire' = Append(wire, m) /\ UNCHANGED <<todo, got, leases>>
    BY <1>5 DEF SendSnapshot, downstream, Snapshot
  <2>2. m \in Message /\ Distinct(m.snapshot)
    BY <2>1 DEF Snapshot, Message, Typed
  <2> QED BY <1>4, <2>1, <2>2
<1>6. CASE ParseEvent
  <2>1. PICK m : m = Watched(Parsed(pos)) /\ wire' = Append(wire, m) /\ UNCHANGED <<todo, got, leases>>
    BY <1>6 DEF ParseEvent, downstream, Watched
  <2>2. Parsed(pos) \in Events
    BY <1>6, StreamFacts, ParsedFacts DEF ParseEvent
  <2>3. m \in Message /\ Distinct(m.snapshot)
    BY <2>1, <2>2, EmptySeq DEF Watched, Message, Distinct
  <2> QED BY <1>4, <2>1, <2>3
<1>7. CASE Relay
  <2>1. Passes(Head(wire), Batch(Head(wire)), leases')
    BY <1>7, RelayFacts DEF Relay
  <2>2. Distinct(leases') /\ UNCHANGED <<todo, got>> /\ wire # <<>> /\ wire' = Tail(wire)
    BY <1>7, <2>1 DEF Relay, Passes, fetching
  <2>3. \A i \in DOMAIN wire' : i + 1 \in DOMAIN wire /\ wire'[i] = wire[i + 1]
    BY <2>2, TailFacts DEF Typed
  <2> QED BY <2>2, <2>3
<1>8. CASE RelayEnds
  BY <1>8 DEF RelayEnds, fetching
<1>9. CASE UNCHANGED <<todo, got, leases, wire>>
  BY <1>9
<1>10. \/ RangeRead \/ QueryTtl \/ TtlQueryFails \/ SendSnapshot \/ ParseEvent \/ Relay \/ RelayEnds
       \/ UNCHANGED <<todo, got, leases, wire>>
  BY Kinds, EnvironmentFacts DEF OpenWatch, DropExpiredPut, EndFetch, HandleBatch, EndBackend, vars,
                                 fetching, downstream
<1> QED BY <1>1, <1>2, <1>3, <1>5, <1>6, <1>7, <1>8, <1>9, <1>10

\* A change of the registry is the latest of its subnet; of another nothing changes.
LEMMA EnvironmentChanges ==
  ASSUME Typed, Environment, NEW s \in Subnet
  PROVE  \/ Changes(s)' = Changes(s) /\ Registered(s)' = Registered(s) /\ Entry(s)' = Entry(s)
         \/ Changes(s)' # {} /\ Latest(Changes(s)') = Len(log) + 1
<1>1. CASE log' = log
  BY <1>1 DEF Changes, Registered, Entry, LeaseOf
<1>2. ASSUME NEW c \in Change, log' = Append(log, c), Len(log) < MaxRev, c.subnet = s
      PROVE  Changes(s)' # {} /\ Latest(Changes(s)') = Len(log) + 1
  BY <1>2, NewChange
<1>3. ASSUME NEW c \in Change, log' = Append(log, c), Len(log) < MaxRev, c.subnet # s
      PROVE  Changes(s)' = Changes(s) /\ Registered(s)' = Registered(s) /\ Entry(s)' = Entry(s)
  BY <1>3, NewChange
<1> QED BY <1>1, <1>2, <1>3, EnvironmentFacts

\* So what has been read of a subnet was not changed since.
LEMMA ReadIsCurrent ==
  ASSUME Typed, Phases, Environment, fetch \in {"ttl", "open", "stream"}, NEW s \in Subnet,
         (InSnapshot(s) \/ InStream(s))'
  PROVE  /\ Changes(s)' = Changes(s) /\ Registered(s)' = Registered(s) /\ Entry(s)' = Entry(s)
         /\ InSnapshot(s)' => InSnapshot(s)
         /\ InStream(s)' => InStream(s)
<1>1. UNCHANGED <<fetch, pos, readAt, since, skipped>>
  BY EnvironmentFacts
<1>2. readAt \in 1..Len(log) /\ Len(log) \in Nat /\ (fetch = "stream" => pos \in Nat /\ pos <= Len(log) + 1)
  BY BoundsAssumption DEF Phases, Typed
<1>3. ~(Changes(s)' # {} /\ Latest(Changes(s)') = Len(log) + 1)
  <2> SUFFICES ASSUME Changes(s)' # {}, Latest(Changes(s)') = Len(log) + 1 PROVE FALSE
    OBVIOUS
  <2>1. ~InSnapshot(s)'
    BY <1>1, <1>2 DEF InSnapshot
  <2>2. ~InStream(s)'
    BY <1>1, <1>2 DEF InStream
  <2> QED BY <2>1, <2>2
<1>4. Changes(s)' = Changes(s) /\ Registered(s)' = Registered(s) /\ Entry(s)' = Entry(s)
  BY <1>3, EnvironmentChanges
<1> QED BY <1>1, <1>4 DEF InSnapshot, InStream

\* The snapshot holds nothing later than its revision.
LEMMA SnapshotRevsStep ==
  ASSUME Typed, Phases, SnapshotRevs, [Next]_vars
  PROVE  SnapshotRevs'
<1> USE DEF SnapshotRevs
<1>1. CASE RangeRead
  <2>1. got' = <<>> /\ readAt' = Len(log)
    BY <1>1 DEF RangeRead, Phases
  <2>2. ASSUME NEW i \in DOMAIN todo' PROVE todo'[i].rev <= Len(log)
    <3>1. PICK s \in Subnet : Registered(s) /\ todo'[i] = Entry(s)
      BY <1>1, RangeFacts
    <3>2. todo'[i].rev = Latest(Changes(s)) /\ Changes(s) # {}
      BY <3>1, EntryFacts
    <3>3. Latest(Changes(s)) \in 1..Len(log) /\ Len(log) \in Nat
      BY <3>2, ChangesFacts
    <3> QED BY <3>2, <3>3
  <2> QED BY <2>1, <2>2
<1>2. CASE QueryTtl \/ TtlQueryFails
  <2>1. /\ fetch = "ttl" /\ todo # <<>> /\ todo' = Tail(todo) /\ (got' = Append(got, Head(todo)) \/ got' = got)
        /\ readAt' = readAt
    BY <1>2 DEF QueryTtl, TtlQueryFails
  <2>2. /\ \A i \in DOMAIN todo' : i + 1 \in DOMAIN todo /\ todo'[i] = todo[i + 1]
        /\ 1 \in DOMAIN todo /\ todo[1] = Head(todo) /\ Head(todo) \in Lease
    BY <2>1, TailFacts DEF Typed
  <2>3. \A i \in DOMAIN Append(got, Head(todo)) :
          Append(got, Head(todo))[i] = todo[1] \/ (i \in DOMAIN got /\ Append(got, Head(todo))[i] = got[i])
    BY <2>2, AppendFacts DEF Typed
  <2> QED BY <2>1, <2>2, <2>3
<1>3. CASE UNCHANGED <<fetch, todo, got, readAt>> \/ fetch' # "ttl"
  BY <1>3
<1>4. RangeRead \/ QueryTtl \/ TtlQueryFails \/ UNCHANGED <<fetch, todo, got, readAt>> \/ fetch' # "ttl"
  BY Kinds, EnvironmentFacts DEF SendSnapshot, OpenWatch, ParseEvent, DropExpiredPut, EndFetch, Relay,
                                 RelayEnds, HandleBatch, EndBackend, vars, fetching
<1> QED BY <1>1, <1>2, <1>3, <1>4

\* What is read of the registry stays true of what has not changed since.
LEMMA SnapshotStep ==
  ASSUME Typed, Phases, Lists, SnapshotOK, [Next]_vars
  PROVE  SnapshotOK'
<1>1. CASE Environment
  <2> SUFFICES ASSUME fetch' = "ttl", NEW s \in Subnet, InSnapshot(s)'
               PROVE  /\ \A i \in DOMAIN todo' : todo'[i].subnet = s => todo'[i] = Entry(s)'
                      /\ \A i \in DOMAIN got' : got'[i].subnet = s => got'[i] = Entry(s)'
                      /\ Registered(s)' => \/ \E i \in DOMAIN todo' : todo'[i].subnet = s
                                           \/ \E i \in DOMAIN got' : got'[i].subnet = s
    BY DEF SnapshotOK
  <2>1. fetch = "ttl" /\ todo' = todo /\ got' = got
    BY <1>1, EnvironmentFacts
  <2>2. InSnapshot(s) /\ Registered(s)' = Registered(s) /\ Entry(s)' = Entry(s)
    BY <1>1, <2>1, ReadIsCurrent
  <2> QED BY <2>1, <2>2 DEF SnapshotOK
<1>2. CASE RangeRead
  <2>1. DOMAIN got' = {} /\ log' = log
    BY <1>2 DEF RangeRead, Phases, registry
  <2>2. \A s : Registered(s)' = Registered(s) /\ Entry(s)' = Entry(s)
    BY <2>1 DEF Registered, Entry, Changes, LeaseOf
  <2>3. /\ \A i \in DOMAIN todo' : todo'[i] = Entry(todo'[i].subnet)
        /\ \A s \in Subnet : Registered(s) => \E i \in DOMAIN todo' : todo'[i].subnet = s
    BY <1>2, RangeFacts
  <2> QED BY <2>1, <2>2, <2>3 DEF SnapshotOK
<1>3. CASE QueryTtl \/ TtlQueryFails
  <2> SUFFICES ASSUME NEW s \in Subnet, InSnapshot(s)'
               PROVE  /\ \A i \in DOMAIN todo' : todo'[i].subnet = s => todo'[i] = Entry(s)'
                      /\ \A i \in DOMAIN got' : got'[i].subnet = s => got'[i] = Entry(s)'
                      /\ Registered(s)' => \/ \E i \in DOMAIN todo' : todo'[i].subnet = s
                                           \/ \E i \in DOMAIN got' : got'[i].subnet = s
    BY DEF SnapshotOK
  <2>1. /\ fetch = "ttl" /\ todo # <<>> /\ todo' = Tail(todo) /\ UNCHANGED <<log, readAt>>
        /\ \/ got' = Append(got, Head(todo)) /\ skipped' = skipped
           \/ got' = got /\ skipped' = skipped \cup {Head(todo).subnet}
    BY <1>3 DEF QueryTtl, TtlQueryFails, registry
  <2>2. /\ \A i \in DOMAIN todo' : i + 1 \in DOMAIN todo /\ todo'[i] = todo[i + 1]
        /\ \A i \in DOMAIN todo : i # 1 => i - 1 \in DOMAIN todo' /\ todo'[i - 1] = todo[i]
        /\ 1 \in DOMAIN todo /\ todo[1] = Head(todo) /\ Head(todo) \in Lease
    BY <2>1, TailFacts DEF Typed
  <2>0. PICK q : q = Append(got, Head(todo))
    OBVIOUS
  <2>3. /\ q = Append(got, Head(todo)) /\ \A i \in DOMAIN got : i \in DOMAIN q /\ q[i] = got[i]
        /\ Len(got) + 1 \in DOMAIN q /\ q[Len(got) + 1] = todo[1]
        /\ \A i \in DOMAIN q : q[i] = todo[1] \/ (i \in DOMAIN got /\ q[i] = got[i])
    BY <2>0, <2>2, AppendFacts DEF Typed
  <2>4. Registered(s)' = Registered(s) /\ Entry(s)' = Entry(s) /\ Changes(s)' = Changes(s)
    BY <2>1 DEF Registered, Entry, Changes, LeaseOf
  <2>5. InSnapshot(s)
    BY <2>1, <2>4 DEF InSnapshot
  <2>6. /\ \A i \in DOMAIN todo : todo[i].subnet = s => todo[i] = Entry(s)
        /\ \A i \in DOMAIN got : got[i].subnet = s => got[i] = Entry(s)
        /\ Registered(s) => \/ \E i \in DOMAIN todo : todo[i].subnet = s
                            \/ \E i \in DOMAIN got : got[i].subnet = s
    BY <2>1, <2>5 DEF SnapshotOK
  <2>7. \A i \in DOMAIN todo' : todo'[i].subnet = s => todo'[i] = Entry(s)
    BY <2>2, <2>6
  <2>8. \A i \in DOMAIN got' : got'[i].subnet = s => got'[i] = Entry(s)
    BY <2>1, <2>2, <2>3, <2>6
  <2>9. ASSUME Registered(s)
        PROVE  (\E i \in DOMAIN todo' : todo'[i].subnet = s) \/ \E i \in DOMAIN got' : got'[i].subnet = s
    <3>1. CASE \E i \in DOMAIN todo : i # 1 /\ todo[i].subnet = s
      BY <2>2, <3>1
    <3>2. CASE \E i \in DOMAIN got : got[i].subnet = s
      BY <2>1, <2>3, <3>2
    <3>3. CASE todo[1].subnet = s /\ got' = q
      BY <2>3, <3>3
    <3>4. CASE todo[1].subnet = s /\ skipped' = skipped \cup {Head(todo).subnet}
      <4>1. Changes(s) # {} /\ s \in skipped'
        BY <2>2, <2>9, <3>4 DEF Registered
      <4> QED BY <4>1, <2>4 DEF InSnapshot
    <3> QED BY <2>1, <2>3, <2>6, <2>9, <3>1, <3>2, <3>3, <3>4
  <2> QED BY <2>4, <2>7, <2>8, <2>9
<1>4. CASE UNCHANGED <<log, fetch, todo, got, readAt, skipped>>
  BY <1>4 DEF SnapshotOK, InSnapshot, Registered, Entry, Changes, LeaseOf
<1>5. CASE fetch' # "ttl"
  BY <1>5 DEF SnapshotOK
<1>6. \/ Environment \/ RangeRead \/ QueryTtl \/ TtlQueryFails \/ fetch' # "ttl"
      \/ UNCHANGED <<log, fetch, todo, got, readAt, skipped>>
  BY Kinds DEF SendSnapshot, OpenWatch, ParseEvent, DropExpiredPut, EndFetch, Relay,
               RelayEnds, HandleBatch, EndBackend, vars, fetching, registry
<1> QED BY <1>1, <1>2, <1>3, <1>4, <1>5, <1>6

\* A batch in the queue is never out of step with the list it was made from.
LEMMA ViewStep ==
  ASSUME Typed, Phases, Lists, ViewTracked, [Next]_vars
  PROVE  ViewTracked'
<1> SUFFICES ASSUME backend', NEW s \in Subnet \ {Own} PROVE WillKnow(s, Listed(s))'
  BY DEF ViewTracked
<1>1. CASE Relay
  <2>1. /\ relay /\ backend /\ leases' = Known(Head(wire)) /\ wire # <<>> /\ view' = view
        /\ IF Batch(Head(wire)) = <<>> THEN queue' = queue ELSE queue' = Append(queue, Batch(Head(wire)))
    BY <1>1 DEF Relay
  <2>2. PICK b : b = Batch(Head(wire)) /\ Passes(Head(wire), b, leases')
    BY <2>1, RelayFacts
  <2>3. b \in Seq(Events) /\ queue \in Seq(Seq(Events))
    BY <2>2 DEF Passes, Typed
  <2>4. PICK x : x = Listed(s)' /\ x = Lookup(leases', s)
    BY DEF Listed, Lookup
  <2>5. WillKnow(s, Listed(s))
    BY <2>1 DEF ViewTracked
  <2>6. BatchSays(b, s, x) \/ (About(b, s) = {} /\ WillKnow(s, x))
    <3>1. BatchSays(b, s, x) \/ (About(b, s) = {} /\ x = Listed(s))
      BY <2>2, <2>4 DEF Passes
    <3> QED BY <3>1, <2>5
  <2>7. WillKnow(s, x)'
    <3>1. CASE b = <<>>
      <4>1. About(b, s) = {} /\ queue' = queue
        BY <2>1, <2>2, <3>1 DEF About
      <4>2. WillKnow(s, x)
        BY <2>6, <4>1 DEF BatchSays
      <4> QED BY <2>1, <4>1, <4>2 DEF WillKnow
    <3>2. CASE b # <<>>
      <4>1. queue' = Append(queue, b)
        BY <2>1, <2>2, <3>2
      <4> QED BY <2>1, <2>3, <2>6, <4>1, KnowMore
    <3> QED BY <3>1, <3>2
  <2> QED BY <2>4, <2>7 DEF WillKnow
<1>2. CASE HandleBatch
  <2>1. /\ queue # <<>> /\ queue' = Tail(queue) /\ view' = ApplyAll(view, Head(queue))
        /\ UNCHANGED <<relay, leases, backend>>
    BY <1>2 DEF HandleBatch
  <2>2. PICK x : x = Listed(s) /\ x = Listed(s)'
    BY <2>1 DEF Listed
  <2>3. WillKnow(s, x)
    BY <2>1, <2>2 DEF ViewTracked
  <2>4. WillKnow(s, x)'
    BY <2>1, <2>3, KnowLater DEF Typed
  <2> QED BY <2>2, <2>4 DEF WillKnow
<1>3. CASE UNCHANGED <<leases, queue, backend, view>>
  BY <1>3 DEF ViewTracked, WillKnow, Listed
<1>4. CASE EndBackend
  BY <1>4 DEF EndBackend
<1>5. Relay \/ HandleBatch \/ EndBackend \/ UNCHANGED <<leases, queue, backend, view>>
  BY Kinds, EnvironmentFacts DEF RangeRead, QueryTtl, TtlQueryFails, SendSnapshot, OpenWatch, ParseEvent,
                                 DropExpiredPut, EndFetch, RelayEnds, vars, downstream
<1> QED BY <1>1, <1>2, <1>3, <1>4, <1>5

\* What the range read or the watch has told is what the watcher will list.
LEMMA LogStep ==
  ASSUME Typed, Phases, EndedOK, Lists, SnapshotOK, LogTracked, [Next]_vars
  PROVE  LogTracked'
<1> SUFFICES ASSUME relay', fetch' \in {"open", "stream"}, NEW s \in Subnet \ {Own}, (InSnapshot(s) \/ InStream(s))'
             PROVE  WillList(s, Entry(s))'
  BY DEF LogTracked
<1>1. ASSUME log' = log PROVE Changes(s)' = Changes(s) /\ Registered(s)' = Registered(s) /\ Entry(s)' = Entry(s)
  BY <1>1 DEF Changes, Registered, Entry, LeaseOf
<1>2. ASSUME UNCHANGED <<wire, leases>>, Entry(s)' = Entry(s), WillList(s, Entry(s)) PROVE WillList(s, Entry(s))'
  BY <1>2 DEF WillList, Listed
<1>3. ASSUME relay, fetch \in {"open", "stream"}, InSnapshot(s) \/ InStream(s) PROVE WillList(s, Entry(s))
  BY <1>3 DEF LogTracked
<1>4. CASE Environment
  <2>1. UNCHANGED <<fetch, relay, wire, leases>>
    BY <1>4, EnvironmentFacts
  <2>2. Entry(s)' = Entry(s) /\ (InSnapshot(s) \/ InStream(s))
    BY <1>4, <2>1, ReadIsCurrent
  <2> QED BY <2>1, <2>2, <1>2, <1>3
<1>5. CASE SendSnapshot
  <2>1. /\ fetch = "ttl" /\ todo = <<>> /\ fetch' = "open"
        /\ UNCHANGED <<log, readAt, skipped, leases>>
    BY <1>5 DEF SendSnapshot, registry, downstream
  <2>2. PICK m : m = Snapshot(got) /\ wire' = Append(wire, m)
    BY <1>5 DEF SendSnapshot, Snapshot
  <2>3. m \in Message /\ wire \in Seq(Message) /\ wire = <<>> /\ leases = <<>>
    BY <2>1, <2>2 DEF Typed, Message, Snapshot, Phases, Untold
  <2>4. InSnapshot(s)
    BY <2>1, <1>1 DEF InSnapshot, InStream
  <2>5. /\ \A i \in DOMAIN got : got[i].subnet = s => got[i] = Entry(s)
        /\ Registered(s) => \E i \in DOMAIN got : got[i].subnet = s
    <3>1. DOMAIN todo = {}
      BY <2>1
    <3> QED BY <2>1, <2>4, <3>1 DEF SnapshotOK
  <2>6. /\ Silent(m, s) <=> \A i \in DOMAIN got : got[i].subnet # s
        /\ \A x : MessageSays(m, s, x) <=> \E i \in DOMAIN got : got[i].subnet = s /\ got[i] = x
    BY <2>2 DEF Silent, MessageSays, Snapshot
  <2>7. PICK x : x = Entry(s) /\ x = Entry(s)'
    BY <2>1, <1>1
  <2>8. MessageSays(m, s, x) \/ (Silent(m, s) /\ WillList(s, x))
    <3>1. CASE Registered(s)
      BY <2>5, <2>6, <2>7, <3>1
    <3>2. CASE ~Registered(s)
      <4>1. x = NoLease
        BY <2>7, <3>2, EntryFacts
      <4>2. \A i \in DOMAIN got : got[i] \in Lease
        BY DEF Typed
      <4>3. Silent(m, s)
        BY <2>5, <2>6, <2>7, <4>1, <4>2, NoLeaseAssumption
      <4>4. Listed(s) = NoLease
        <5>1. leases \in Seq(Lease) /\ DOMAIN leases = {}
          BY <2>3
        <5>2. Find(leases, s) = 0
          BY <5>1, FindFacts
        <5> QED BY <5>2 DEF Listed
      <4>5. DOMAIN wire = {}
        BY <2>3
      <4> QED BY <4>1, <4>3, <4>4, <4>5 DEF WillList
    <3> QED BY <3>1, <3>2
  <2>9. WillList(s, x)'
    BY <2>1, <2>2, <2>3, <2>8, ListMore
  <2> QED BY <2>7, <2>9 DEF WillList
<1>6. CASE OpenWatch
  <2>0. /\ fetch = "open" /\ fetch' = "stream" /\ since' = pos' /\ pos' = IF cursor = 0 THEN Len(log) + 1 ELSE cursor
        /\ UNCHANGED <<log, relay, wire, leases, readAt, skipped>>
    BY <1>6 DEF OpenWatch, registry, downstream
  <2>1. pos' \in Nat
    <3>1. cursor \in Nat /\ Len(log) + 1 \in Nat
      BY BoundsAssumption DEF Typed
    <3>2. pos' = cursor \/ pos' = Len(log) + 1
      BY <2>0
    <3> QED BY <3>1, <3>2
  <2>2. ~InStream(s)'
    <3>1. Changes(s)' # {} => Latest(Changes(s)') \in Nat
      BY <2>0, <1>1, ChangesFacts
    <3> QED BY <2>0, <2>1, <3>1 DEF InStream
  <2>3. InSnapshot(s)
    BY <2>0, <2>2, <1>1 DEF InSnapshot
  <2> QED BY <2>0, <2>3, <1>1, <1>2, <1>3
<1>7. CASE ParseEvent
  <2>1. /\ fetch = "stream" /\ relay /\ pos <= Len(log) /\ pos' = pos + 1
        /\ UNCHANGED <<log, fetch, readAt, since, skipped, leases>>
    BY <1>7 DEF ParseEvent, registry, downstream
  <2>2. /\ pos \in DOMAIN log /\ pos \in Nat /\ readAt \in Nat /\ since \in Nat
        /\ since >= readAt /\ since <= pos
    BY <2>1, StreamFacts
  <2>3. PICK e \in Events : e = Parsed(pos) /\ e.lease.subnet = log[pos].subnet
    BY <2>2, ParsedFacts
  <2>4. PICK m : m = Watched(e) /\ wire' = Append(wire, m)
    BY <1>7, <2>3 DEF ParseEvent, Watched
  <2>5. m \in Message /\ wire \in Seq(Message)
    BY <2>3, <2>4, EmptySeq DEF Watched, Message, Typed
  <2>6. /\ Silent(m, s) <=> e.lease.subnet # s
        /\ \A x : MessageSays(m, s, x) <=> e.lease.subnet = s /\ Told(e) = x
    BY <2>4 DEF Silent, MessageSays, Watched
  <2>7. PICK x : x = Entry(s) /\ x = Entry(s)'
    BY <2>1, <1>1
  <2>8. Changes(s)' = Changes(s) /\ (Changes(s) # {} => Latest(Changes(s)) \in Nat)
    BY <2>1, <1>1, ChangesFacts
  <2>9. CASE log[pos].subnet = s
    <3>1. pos \in Changes(s)
      BY <2>2, <2>9 DEF Changes
    <3>2. Latest(Changes(s)) \in Nat /\ pos <= Latest(Changes(s))
      BY <3>1, <2>8, ChangesFacts
    <3>3. Latest(Changes(s)) <= pos
      <4>1. CASE InSnapshot(s)'
        <5>1. Latest(Changes(s)) <= readAt
          BY <2>1, <2>8, <3>1, <4>1 DEF InSnapshot
        <5> QED BY <5>1, <2>2, <3>2
      <4>2. CASE InStream(s)'
        <5>1. Latest(Changes(s)) < pos + 1
          BY <2>1, <2>8, <4>2 DEF InStream
        <5> QED BY <5>1, <2>2, <3>2
      <4> QED BY <4>1, <4>2
    <3>4. Latest(Changes(s)) = pos
      BY <2>2, <3>2, <3>3
    <3>5. Told(e) = x
      <4>1. Told(e) = IF log[pos].type = "put" THEN LeaseOf(pos) ELSE NoLease
        BY <2>2, <2>3, ParsedFacts
      <4>2. Entry(s) = IF log[pos].type = "put" THEN LeaseOf(pos) ELSE NoLease
        BY <3>1, <3>4 DEF Entry, Registered
      <4> QED BY <4>1, <4>2, <2>7
    <3>6. MessageSays(m, s, x)
      BY <2>3, <2>6, <2>9, <3>5
    <3>7. WillList(s, x)'
      BY <2>1, <2>4, <2>5, <3>6, ListMore
    <3> QED BY <2>7, <3>7 DEF WillList
  <2>10. CASE log[pos].subnet # s
    <3>1. pos \notin Changes(s)
      BY <2>10 DEF Changes
    <3>2. InSnapshot(s) \/ InStream(s)
      <4>1. CASE InSnapshot(s)'
        BY <2>1, <2>8, <4>1 DEF InSnapshot
      <4>2. CASE InStream(s)'
        <5>1. Changes(s) # {} /\ Latest(Changes(s)) # pos
          BY <2>8, <3>1, <4>2, ChangesFacts DEF InStream
        <5>2. Latest(Changes(s)) < pos
          BY <2>1, <2>2, <2>8, <4>2, <5>1 DEF InStream
        <5> QED BY <2>1, <2>8, <4>2, <5>1, <5>2 DEF InStream
      <4> QED BY <4>1, <4>2
    <3>3. WillList(s, x)
      BY <2>1, <2>7, <3>2, <1>3
    <3>4. Silent(m, s)
      BY <2>3, <2>6, <2>10
    <3>5. WillList(s, x)'
      BY <2>1, <2>4, <2>5, <3>3, <3>4, ListMore
    <3> QED BY <2>7, <3>5 DEF WillList
  <2> QED BY <2>9, <2>10
<1>8. CASE DropExpiredPut
  <2>1. /\ fetch = "stream" /\ pos <= Len(log) /\ pos' = pos + 1 /\ pos \in ended
        /\ UNCHANGED <<log, fetch, readAt, since, skipped, relay, wire, leases>>
    BY <1>8 DEF DropExpiredPut, registry, downstream
  <2>2. pos \in Nat
    BY <2>1, StreamFacts
  <2>3. Changes(s)' = Changes(s) /\ (Changes(s) # {} => Latest(Changes(s)) \in Nat)
    BY <2>1, <1>1, ChangesFacts
  <2>4. Changes(s) # {} => Latest(Changes(s)) # pos
    <3>1. PICK t \in DOMAIN log : t > pos /\ log[t].subnet = log[pos].subnet
      BY <2>1 DEF EndedOK
    <3>2. t \in Nat
      BY DEF Typed
    <3> SUFFICES ASSUME Changes(s) # {}, Latest(Changes(s)) = pos PROVE FALSE
      OBVIOUS
    <3>3. log[pos].subnet = s
      BY ChangesFacts
    <3>4. t \in Changes(s)
      BY <3>1, <3>3 DEF Changes
    <3>5. t <= pos
      BY <3>4, ChangesFacts
    <3> QED BY <3>1, <3>2, <3>5, <2>2
  <2>5. InSnapshot(s) \/ InStream(s)
    <3>1. CASE InSnapshot(s)'
      BY <2>1, <2>3, <3>1 DEF InSnapshot
    <3>2. CASE InStream(s)'
      <4>1. Latest(Changes(s)) < pos
        BY <2>1, <2>2, <2>3, <2>4, <3>2 DEF InStream
      <4> QED BY <2>1, <2>3, <3>2, <4>1 DEF InStream
    <3> QED BY <3>1, <3>2
  <2> QED BY <2>1, <2>5, <1>1, <1>2, <1>3
<1>9. CASE Relay
  <2>1. /\ relay /\ leases' = Known(Head(wire)) /\ wire # <<>> /\ wire' = Tail(wire)
        /\ UNCHANGED <<log, fetch, pos, readAt, since, skipped>>
    BY <1>9 DEF Relay, registry, fetching
  <2>2. PICK b : Passes(Head(wire), b, leases')
    BY <2>1, RelayFacts
  <2>3. InSnapshot(s) \/ InStream(s)
    BY <2>1, <1>1 DEF InSnapshot, InStream
  <2>4. PICK x : x = Entry(s) /\ x = Entry(s)'
    BY <2>1, <1>1
  <2>5. WillList(s, x)
    BY <2>1, <2>3, <2>4, <1>3
  <2>6. WillList(s, x)'
    BY <2>1, <2>2, <2>5, ListLater DEF Typed
  <2> QED BY <2>4, <2>6 DEF WillList
<1>10. CASE UNCHANGED <<log, fetch, pos, readAt, since, skipped, relay, wire, leases>>
  <2>1. InSnapshot(s) \/ InStream(s)
    BY <1>10, <1>1 DEF InSnapshot, InStream
  <2> QED BY <1>10, <2>1, <1>1, <1>2, <1>3
<1>11. CASE fetch' \in {"ttl", "ended"} \/ RelayEnds
  BY <1>11 DEF RelayEnds
<1>12. \/ Environment \/ SendSnapshot \/ OpenWatch \/ ParseEvent \/ DropExpiredPut \/ Relay \/ RelayEnds
       \/ fetch' \in {"ttl", "ended"} \/ UNCHANGED <<log, fetch, pos, readAt, since, skipped, relay, wire, leases>>
  BY Kinds DEF RangeRead, QueryTtl, TtlQueryFails, EndFetch, HandleBatch, EndBackend, vars, fetching, registry
<1> QED BY <1>4, <1>5, <1>6, <1>7, <1>8, <1>9, <1>10, <1>11, <1>12

\* What an applied batch leaves the backend with: what it knew, a lease of the batch, or nothing
\* if the batch ends it.
LEMMA AppliedRevs ==
  ASSUME NEW b \in Seq(Events), NEW v, NEW s \in Subnet
  PROVE  LET x == ApplyAll(v, b)[s] IN
         \/ x = v[s]
         \/ x # NoLease /\ x.rev \in BatchRevs(b, s)
         \/ x = NoLease /\ Ends(b, s)
<1>1. CASE About(b, s) = {}
  BY <1>1, ApplyFacts
<1>2. CASE About(b, s) # {}
  <2>1. BatchSays(b, s, ApplyAll(v, b)[s])
    BY <1>2, ApplyFacts
  <2>2. PICK k \in About(b, s) : Told(b[k]) = ApplyAll(v, b)[s]
    BY <2>1 DEF BatchSays
  <2>3. CASE b[k].type = "put"
    <3>1. b[k].lease.rev \in BatchRevs(b, s) /\ ApplyAll(v, b)[s] = b[k].lease
      BY <2>2, <2>3 DEF BatchRevs, Told
    <3>2. b[k] \in Events
      BY DEF About
    <3>3. b[k].lease # NoLease
      BY <3>2, <2>3, NoLeaseAssumption DEF Events, Event
    <3> QED BY <3>1, <3>3
  <2>4. CASE b[k].type # "put"
    BY <2>2, <2>4 DEF Told, Ends
  <2> QED BY <2>3, <2>4
<1> QED BY <1>1, <1>2

\* The places are those of view, queue and wire, and the revisions there numbers.
LEMMA LineFacts ==
  ASSUME Typed, NEW s \in Subnet
  PROVE  /\ Len(queue) \in Nat /\ Len(wire) \in Nat /\ DOMAIN queue = 1..Len(queue) /\ DOMAIN wire = 1..Len(wire)
         /\ \A p \in Line : p \in Nat /\ RevsAt(p, s) \subseteq Nat
<1>1. Rev \subseteq Nat
  BY DEF Rev
<1>2. Len(queue) \in Nat /\ Len(wire) \in Nat /\ DOMAIN queue = 1..Len(queue) /\ DOMAIN wire = 1..Len(wire)
  BY DEF Typed
<1>3. ASSUME NEW i \in DOMAIN queue PROVE BatchRevs(queue[i], s) \subseteq Rev
  <2> SUFFICES ASSUME NEW k \in About(queue[i], s), queue[i][k].type = "put" PROVE queue[i][k].lease.rev \in Rev
    BY DEF BatchRevs
  <2>1. queue[i] \in Seq(Events)
    BY DEF Typed
  <2>2. queue[i][k] \in Events
    BY <2>1 DEF About
  <2> QED BY <2>2 DEF Events, Event, Lease
<1>4. \A m : MessageRevs(m, s) \subseteq Rev
  BY DEF MessageRevs
<1>5. newest[s] \in Nat
  BY BoundsAssumption DEF Typed
<1>6. ASSUME NEW p \in Line PROVE p \in Nat /\ RevsAt(p, s) \subseteq Nat
  <2>1. p \in Nat
    BY <1>2 DEF Line
  <2>2. p # 0 /\ p <= Len(queue) => p \in DOMAIN queue
    BY <2>1, <1>2
  <2> QED BY <2>1, <2>2, <1>1, <1>3, <1>4, <1>5 DEF RevsAt
<1> QED BY <1>2, <1>6

\* The order is kept when what is told is told from fewer places, and more is read.
LEMMA LineThins ==
  ASSUME Typed, NEW s \in Subnet, InOrder(s), NEW f,
         Line' \subseteq Nat,
         \A p \in Line' : f[p] \in Line /\ RevsAt(p, s)' \subseteq RevsAt(f[p], s) /\ (EndAt(p, s)' => EndAt(f[p], s)),
         \A p, q \in Line' : p < q => f[p] < f[q],
         view'[s] = view[s], newest'[s] = newest[s],
         fetch' # "ended" => fetch # "ended" /\ Read \in Nat /\ Read' \in Nat /\ Read <= Read',
         fetch' \in {"open", "stream"} => fetch \in {"open", "stream"}
  PROVE  InOrder(s)'
<1>1. \A p, d \in Line' : p <= d => f[p] <= f[d]
  <2> SUFFICES ASSUME NEW p \in Line', NEW d \in Line', p <= d PROVE f[p] <= f[d]
    OBVIOUS
  <2>1. p \in Nat /\ d \in Nat /\ f[p] \in Nat /\ f[d] \in Nat
    BY LineFacts
  <2>2. p = d \/ p < d
    BY <2>1
  <2> QED BY <2>1, <2>2
<1>2. ASSUME NEW p \in Line', NEW q \in Line', p < q PROVE Upto(RevsAt(p, s)', RevsAt(q, s)')
  <2>1. Upto(RevsAt(f[p], s), RevsAt(f[q], s))
    BY <1>2 DEF InOrder
  <2> QED BY <2>1 DEF Upto
<1>3. ASSUME NEW p \in Line', NEW d \in Line', NEW q \in Line', p <= d, d < q, EndAt(d, s)'
      PROVE  Before(RevsAt(p, s)', RevsAt(q, s)')
  <2>1. Before(RevsAt(f[p], s), RevsAt(f[q], s))
    BY <1>1, <1>3 DEF InOrder
  <2> QED BY <2>1 DEF Before
<1>4. ASSUME fetch' # "ended", NEW p \in Line' PROVE Upto(RevsAt(p, s)', {Read'})
  <2> SUFFICES ASSUME NEW x \in RevsAt(p, s)' PROVE x <= Read'
    BY DEF Upto
  <2>1. f[p] \in Line /\ x \in RevsAt(f[p], s)
    BY <1>4
  <2>2. Upto(RevsAt(f[p], s), {Read}) /\ x \in Nat
    BY <2>1, <1>4, LineFacts DEF InOrder
  <2>3. x <= Read
    BY <2>1, <2>2 DEF Upto
  <2> HIDE DEF Read
  <2> QED BY <2>2, <2>3, <1>4
<1>5. ASSUME fetch' \in {"open", "stream"}, NEW p \in Line', NEW d \in Line', p <= d, EndAt(d, s)'
      PROVE  Before(RevsAt(p, s)', {Read'})
  <2> SUFFICES ASSUME NEW x \in RevsAt(p, s)' PROVE x < Read'
    BY DEF Before
  <2>1. /\ f[p] \in Line /\ f[d] \in Line /\ f[p] <= f[d] /\ EndAt(f[d], s)
        /\ x \in RevsAt(f[p], s) /\ fetch \in {"open", "stream"}
    BY <1>1, <1>5
  <2>2. Before(RevsAt(f[p], s), {Read}) /\ x \in Nat
    BY <2>1, LineFacts DEF InOrder
  <2>3. x < Read
    BY <2>1, <2>2 DEF Before
  <2>4. Read \in Nat /\ Read' \in Nat /\ Read <= Read'
    BY <1>5
  <2> HIDE DEF Read
  <2> QED BY <2>2, <2>3, <2>4
<1>6. view'[s] # NoLease => newest'[s] = view'[s].rev
  BY DEF InOrder
<1> HIDE DEF Line, RevsAt, EndAt, Read
<1> QED BY <1>2, <1>3, <1>4, <1>5, <1>6 DEF InOrder

\* So it is kept when a batch is made,
LEMMA OrderedRelay ==
  ASSUME Typed, Phases, Lists, Ordered, Relay, NEW s \in Subnet
  PROVE  InOrder(s)'
<1> DEFINE n == Len(queue)
<1>1. /\ leases' = Known(Head(wire)) /\ wire # <<>> /\ wire' = Tail(wire)
      /\ IF Batch(Head(wire)) = <<>> THEN queue' = queue ELSE queue' = Append(queue, Batch(Head(wire)))
      /\ UNCHANGED <<fetch, pos, readAt, view, newest>>
  BY DEF Relay, registry, fetching
<1>2. PICK b : b = Batch(Head(wire)) /\ Passes(Head(wire), b, leases')
  BY <1>1, RelayFacts
<1>3. /\ 1 \in DOMAIN wire /\ wire[1] = Head(wire) /\ Len(wire') = Len(wire) - 1
      /\ \A j \in DOMAIN wire' : wire'[j] = wire[j + 1]
      /\ DOMAIN wire' = 1..(Len(wire) - 1)
  <2>1. wire' \in Seq(Message) /\ Len(wire') = Len(wire) - 1
    BY <1>1, TailFacts DEF Typed
  <2> QED BY <2>1, <1>1, TailFacts DEF Typed
<1>4. b \in Seq(Events) /\ BatchRevs(b, s) \subseteq MessageRevs(wire[1], s) /\ (Ends(b, s) => MessageSays(wire[1], s, NoLease))
  BY <1>2, <1>3 DEF Passes
<1>5. n \in Nat /\ Len(wire) \in Nat /\ Len(wire) >= 1 /\ DOMAIN queue = 1..n /\ DOMAIN wire = 1..Len(wire)
  BY <1>3, LineFacts
<1>6. InOrder(s)
  BY DEF Ordered
<1>7. fetch' # "ended" => fetch # "ended" /\ Read \in Nat /\ Read' \in Nat /\ Read <= Read'
  <2>1. pos \in Nat /\ readAt \in Nat
    BY BoundsAssumption DEF Typed
  <2> QED BY <2>1, <1>1 DEF Read
<1>8. CASE queue' = queue
  <2> DEFINE f == [p \in Line' |-> IF p <= n THEN p ELSE p + 1]
  <2>1. Line' = 0..(n + Len(wire) - 1) /\ Line = 0..(n + Len(wire))
    BY <1>3, <1>5, <1>8 DEF Line
  <2>2. \A p, q \in Line' : p < q => f[p] < f[q]
    BY <2>1, <1>5
  <2>3. ASSUME NEW p \in Line'
        PROVE  f[p] \in Line /\ RevsAt(p, s)' \subseteq RevsAt(f[p], s) /\ (EndAt(p, s)' => EndAt(f[p], s))
    <3>1. CASE p <= n
      <4>1. f[p] = p /\ p \in Line
        BY <2>1, <1>5, <3>1
      <4> QED BY <4>1, <3>1, <1>1, <1>8 DEF RevsAt, EndAt
    <3>2. CASE p > n
      <4>1. /\ f[p] = p + 1 /\ p + 1 \in Line /\ p \in Nat /\ p - n \in DOMAIN wire' /\ (p - n) + 1 = (p + 1) - n
            /\ ~(p + 1 <= n) /\ p + 1 # 0 /\ p # 0 /\ ~(p <= n)
        BY <2>1, <1>3, <1>5, <3>2
      <4>2. wire'[p - n] = wire[(p + 1) - n]
        BY <4>1, <1>3
      <4>3. RevsAt(p, s)' = MessageRevs(wire'[p - n], s) /\ RevsAt(p + 1, s) = MessageRevs(wire[(p + 1) - n], s)
        BY <4>1, <1>8 DEF RevsAt
      <4>4. (EndAt(p, s)' <=> MessageSays(wire'[p - n], s, NoLease))
            /\ (EndAt(p + 1, s) <=> MessageSays(wire[(p + 1) - n], s, NoLease))
        BY <4>1, <1>8 DEF EndAt
      <4> QED BY <4>1, <4>2, <4>3, <4>4
    <3> QED BY <3>1, <3>2, <2>1, <1>5
  <2>4. Line' \subseteq Nat
    BY <2>1, <1>5
  <2> HIDE DEF f
  <2> QED BY <2>2, <2>3, <2>4, <1>1, <1>6, <1>7, LineThins
<1>9. CASE queue' = Append(queue, b)
  <2> DEFINE f == [p \in Line' |-> p]
  <2>0. /\ Len(queue') = n + 1 /\ queue'[n + 1] = b /\ \A i \in DOMAIN queue : queue'[i] = queue[i]
    BY <1>4, <1>9, AppendFacts DEF Typed
  <2>1. Line' = 0..(n + Len(wire)) /\ Line = 0..(n + Len(wire))
    <3>1. (n + 1) + (Len(wire) - 1) = n + Len(wire)
      BY <1>5
    <3> QED BY <2>0, <3>1, <1>3, <1>5 DEF Line
  <2>2. \A p, q \in Line' : p < q => f[p] < f[q]
    BY <2>1, <1>5
  <2>3. ASSUME NEW p \in Line'
        PROVE  f[p] \in Line /\ RevsAt(p, s)' \subseteq RevsAt(f[p], s) /\ (EndAt(p, s)' => EndAt(f[p], s))
    <3>0. f[p] = p /\ p \in Line /\ p \in Nat
      BY <2>1, <1>5
    <3>1. CASE p = 0
      BY <3>0, <3>1, <1>1 DEF RevsAt, EndAt
    <3>2. CASE p # 0 /\ p <= n
      <4>1. p \in DOMAIN queue /\ p <= n + 1
        BY <3>0, <3>2, <1>5
      <4> QED BY <3>0, <3>2, <4>1, <2>0 DEF RevsAt, EndAt
    <3>3. CASE p = n + 1
      <4>1. p # 0 /\ ~(p <= n) /\ p - n = 1
        BY <3>0, <3>3, <1>5
      <4> QED BY <3>0, <3>3, <4>1, <2>0, <1>4, <1>5 DEF RevsAt, EndAt
    <3>4. CASE p > n + 1
      <4>1. /\ p # 0 /\ ~(p <= n) /\ ~(p <= n + 1) /\ p - (n + 1) \in DOMAIN wire' /\ (p - (n + 1)) + 1 = p - n
        BY <3>0, <3>4, <2>1, <1>3, <1>5
      <4>2. wire'[p - (n + 1)] = wire[p - n]
        BY <4>1, <1>3
      <4> QED BY <3>0, <4>1, <4>2, <2>0 DEF RevsAt, EndAt
    <3> QED BY <3>0, <3>1, <3>2, <3>3, <3>4, <1>5
  <2>4. Line' \subseteq Nat
    BY <2>1, <1>5
  <2> HIDE DEF f
  <2> QED BY <2>2, <2>3, <2>4, <1>1, <1>6, <1>7, LineThins
<1> QED BY <1>1, <1>2, <1>8, <1>9

\* when one is applied, which moves the backend on to what is next or leaves it,
LEMMA OrderedHandle ==
  ASSUME Typed, Ordered, HandleBatch, NEW s \in Subnet
  PROVE  /\ InOrder(s)'
         /\ view'[s] # NoLease =>
              view'[s].rev >= newest[s] /\ (view[s] = NoLease => view'[s].rev > newest[s])
<1> DEFINE n == Len(queue)
           m == Len(wire)
<1>1. /\ queue # <<>> /\ queue' = Tail(queue) /\ view' = ApplyAll(view, Head(queue))
      /\ newest'[s] = (IF view'[s] = NoLease THEN newest[s] ELSE view'[s].rev)
      /\ UNCHANGED <<fetch, pos, readAt, wire>>
  BY DEF HandleBatch, registry, fetching
<1>2. /\ 1 \in DOMAIN queue /\ queue[1] = Head(queue) /\ queue[1] \in Seq(Events) /\ Len(queue') = n - 1
      /\ \A j \in DOMAIN queue' : j + 1 \in DOMAIN queue /\ queue'[j] = queue[j + 1]
      /\ DOMAIN queue' = 1..(n - 1)
  <2>1. Tail(queue) \in Seq(Seq(Events)) /\ Len(Tail(queue)) = n - 1
    BY <1>1, TailFacts DEF Typed
  <2>2. Tail(queue) \in Seq(Seq(Events)) => DOMAIN Tail(queue) = 1..Len(Tail(queue))
    OBVIOUS
  <2> QED BY <2>1, <2>2, <1>1, TailFacts DEF Typed
<1>3. n \in Nat /\ m \in Nat /\ n >= 1 /\ Line = 0..(n + m) /\ Line' = 0..(n + m - 1)
  <2>1. n \in Nat /\ m \in Nat /\ n >= 1
    BY <1>2, LineFacts
  <2> QED BY <2>1, <1>1, <1>2 DEF Line
<1>4. InOrder(s)
  BY DEF Ordered
<1>5. /\ RevsAt(0, s) = {newest[s]} /\ (EndAt(0, s) <=> view[s] = NoLease)
      /\ RevsAt(1, s) = BatchRevs(queue[1], s) /\ (EndAt(1, s) <=> Ends(queue[1], s))
      /\ 0 \in Line /\ 1 \in Line
  BY <1>3 DEF RevsAt, EndAt
<1>6. \/ view'[s] # NoLease /\ newest'[s] = view'[s].rev /\ view[s] # NoLease /\ newest'[s] \in RevsAt(0, s)
      \/ view'[s] # NoLease /\ newest'[s] = view'[s].rev /\ newest'[s] \in RevsAt(1, s)
      \/ view'[s] = NoLease /\ newest'[s] \in RevsAt(0, s) /\ (EndAt(0, s) \/ EndAt(1, s))
  <2>1. \/ view'[s] = view[s]
        \/ view'[s] # NoLease /\ view'[s].rev \in BatchRevs(queue[1], s)
        \/ view'[s] = NoLease /\ Ends(queue[1], s)
    BY <1>1, <1>2, AppliedRevs
  <2>2. view[s] # NoLease => newest[s] = view[s].rev
    BY <1>4 DEF InOrder
  <2> QED BY <2>1, <2>2, <1>1, <1>5
<1>7. /\ RevsAt(0, s)' = {newest'[s]} /\ (EndAt(0, s)' <=> view'[s] = NoLease)
      /\ \A p \in Line' : p # 0 => RevsAt(p, s)' = RevsAt(p + 1, s) /\ (EndAt(p, s)' <=> EndAt(p + 1, s))
      /\ \A p \in Line' : p \in Nat /\ p + 1 \in Line
  <2>1. RevsAt(0, s)' = {newest'[s]} /\ (EndAt(0, s)' <=> view'[s] = NoLease)
    BY DEF RevsAt, EndAt
  <2>2. ASSUME NEW p \in Line', p # 0 PROVE RevsAt(p, s)' = RevsAt(p + 1, s) /\ (EndAt(p, s)' <=> EndAt(p + 1, s))
    <3>1. p \in Nat /\ p + 1 # 0 /\ (p <= n - 1 <=> p + 1 <= n)
      BY <1>3
    <3>2. CASE p <= n - 1
      <4>1. queue'[p] = queue[p + 1]
        BY <3>1, <3>2, <2>2, <1>2, <1>3
      <4> QED BY <3>1, <3>2, <4>1, <2>2, <1>2 DEF RevsAt, EndAt
    <3>3. CASE ~(p <= n - 1)
      <4>1. (p + 1) - n = p - (n - 1)
        BY <3>1, <1>3
      <4> QED BY <3>1, <3>3, <4>1, <2>2, <1>1, <1>2 DEF RevsAt, EndAt
    <3> QED BY <3>2, <3>3
  <2> QED BY <2>1, <2>2, <1>3
<1>8. Read' = Read /\ fetch' = fetch
  BY <1>1 DEF Read
<1>9. newest'[s] \in RevsAt(0, s) \/ newest'[s] \in RevsAt(1, s)
  BY <1>6
<1>10. ASSUME NEW p \in Line', NEW q \in Line', p < q PROVE Upto(RevsAt(p, s)', RevsAt(q, s)')
  <2>1. q # 0 /\ 0 < q + 1 /\ 1 < q + 1 /\ p + 1 < q + 1 /\ q + 1 \in Line /\ p + 1 \in Line /\ RevsAt(q, s)' = RevsAt(q + 1, s)
    BY <1>3, <1>7, <1>10
  <2>2. /\ Upto(RevsAt(0, s), RevsAt(q + 1, s)) /\ Upto(RevsAt(1, s), RevsAt(q + 1, s))
        /\ Upto(RevsAt(p + 1, s), RevsAt(q + 1, s))
    BY <2>1, <1>4, <1>5 DEF InOrder
  <2> QED BY <2>1, <2>2, <1>7, <1>9 DEF Upto
\* Where what is told at p or before was told, and the end of it.
<1>11. ASSUME NEW p \in Line', NEW d \in Line', p <= d, EndAt(d, s)', NEW x \in RevsAt(p, s)'
       PROVE  \E o, e \in Line : o <= e /\ e <= d + 1 /\ x \in RevsAt(o, s) /\ EndAt(e, s)
  <2>1. CASE d = 0
    <3>1. p = 0 /\ x = newest'[s] /\ view'[s] = NoLease
      BY <2>1, <1>3, <1>7, <1>11
    <3>2. x \in RevsAt(0, s) /\ (EndAt(0, s) \/ EndAt(1, s))
      BY <3>1, <1>6
    <3> QED BY <3>2, <2>1, <1>5
  <2>2. CASE d # 0
    <3>1. EndAt(d + 1, s) /\ d + 1 \in Line /\ d + 1 <= d + 1 /\ 0 <= d + 1 /\ 1 <= d + 1 /\ p + 1 <= d + 1 /\ p + 1 \in Line
      BY <2>2, <1>3, <1>7, <1>11
    <3>2. CASE p = 0
      BY <3>1, <3>2, <1>5, <1>7, <1>9, <1>11
    <3>3. CASE p # 0
      BY <3>1, <3>3, <1>7, <1>11
    <3> QED BY <3>2, <3>3
  <2> QED BY <2>1, <2>2
<1>12. ASSUME NEW p \in Line', NEW d \in Line', NEW q \in Line', p <= d, d < q, EndAt(d, s)'
       PROVE  Before(RevsAt(p, s)', RevsAt(q, s)')
  <2> SUFFICES ASSUME NEW x \in RevsAt(p, s)', NEW y \in RevsAt(q, s)' PROVE x < y
    BY DEF Before
  <2>1. PICK o, e \in Line : o <= e /\ e <= d + 1 /\ x \in RevsAt(o, s) /\ EndAt(e, s)
    BY <1>11, <1>12
  <2>2. e < q + 1 /\ q + 1 \in Line /\ y \in RevsAt(q + 1, s)
    BY <2>1, <1>3, <1>7, <1>12
  <2>3. Before(RevsAt(o, s), RevsAt(q + 1, s))
    BY <2>1, <2>2, <1>4 DEF InOrder
  <2> QED BY <2>1, <2>2, <2>3 DEF Before
<1>13. ASSUME fetch' # "ended", NEW p \in Line' PROVE Upto(RevsAt(p, s)', {Read'})
  <2>1. /\ Upto(RevsAt(0, s), {Read}) /\ Upto(RevsAt(1, s), {Read}) /\ p + 1 \in Line
        /\ Upto(RevsAt(p + 1, s), {Read})
    BY <1>4, <1>5, <1>7, <1>8, <1>13 DEF InOrder
  <2> QED BY <2>1, <1>7, <1>8, <1>9 DEF Upto
<1>14. ASSUME fetch' \in {"open", "stream"}, NEW p \in Line', NEW d \in Line', p <= d, EndAt(d, s)'
       PROVE  Before(RevsAt(p, s)', {Read'})
  <2> SUFFICES ASSUME NEW x \in RevsAt(p, s)' PROVE x < Read
    BY <1>8 DEF Before
  <2>1. PICK o, e \in Line : o <= e /\ x \in RevsAt(o, s) /\ EndAt(e, s)
    BY <1>11, <1>14
  <2>2. Before(RevsAt(o, s), {Read})
    BY <2>1, <1>4, <1>8, <1>14 DEF InOrder
  <2> QED BY <2>1, <2>2 DEF Before
<1>15. view'[s] # NoLease => newest'[s] = view'[s].rev
  BY <1>1
<1>16. InOrder(s)'
  <2> HIDE DEF Line, RevsAt, EndAt, Read
  <2> QED BY <1>10, <1>12, <1>13, <1>14, <1>15 DEF InOrder
<1>17. ASSUME view'[s] # NoLease
       PROVE  view'[s].rev >= newest[s] /\ (view[s] = NoLease => view'[s].rev > newest[s])
  <2>1. Upto(RevsAt(0, s), RevsAt(1, s)) /\ (view[s] = NoLease => Before(RevsAt(0, s), RevsAt(1, s)))
    BY <1>4, <1>5 DEF InOrder
  <2>2. newest[s] \in Nat /\ newest'[s] \in Nat
    BY <1>5, <1>9, LineFacts
  <2> QED BY <2>1, <2>2, <1>5, <1>6, <1>17 DEF Upto, Before
<1> QED BY <1>16, <1>17

\* when the watch tells of a change, none of which anybody knows a later one,
LEMMA OrderedParse ==
  ASSUME Typed, Phases, Ordered, ParseEvent, NEW s \in Subnet
  PROVE  InOrder(s)'
<1>0. PICK last \in Nat : last = Len(queue) + Len(wire) + 1
  BY LineFacts
<1>1. /\ fetch = "stream" /\ pos <= Len(log) /\ pos' = pos + 1
      /\ UNCHANGED <<fetch, queue, view, newest>>
  BY DEF ParseEvent, downstream
<1>2. pos \in DOMAIN log /\ pos \in Nat
  BY <1>1, StreamFacts
<1>3. PICK e \in Events : e = Parsed(pos) /\ Told(e) = IF log[pos].type = "put" THEN LeaseOf(pos) ELSE NoLease
  BY <1>2, ParsedFacts
<1>4. PICK m : m = Watched(e) /\ wire' = Append(wire, m)
  BY <1>3 DEF ParseEvent, Watched
<1>5. m \in Message /\ wire \in Seq(Message)
  BY <1>4, EmptySeq DEF Watched, Message, Typed
<1>6. /\ \A y \in MessageRevs(m, s) : y = pos
      /\ MessageSays(m, s, NoLease) => MessageRevs(m, s) = {}
  <2>1. \A x : MessageSays(m, s, x) => Told(e) = x
    BY <1>4 DEF MessageSays, Watched
  <2> QED BY <2>1, <1>3, NoLeaseAssumption DEF LeaseOf, MessageRevs
<1>7. /\ \A i \in DOMAIN wire : wire'[i] = wire[i]
      /\ Len(wire') = Len(wire) + 1 /\ wire'[Len(wire) + 1] = m
  BY <1>4, <1>5, AppendFacts
<1>8. InOrder(s) /\ Read = pos /\ Read' = pos + 1
  BY <1>1 DEF Ordered, Read
<1>9. /\ last \in Nat /\ last # 0 /\ Line' = 0..last /\ Line = 0..(last - 1)
      /\ \A p \in Line' : p = last \/ (p \in Line /\ p < last)
      /\ \A p \in Line : p \in Line' /\ p \in Nat /\ RevsAt(p, s) \subseteq Nat
  <2>1. Len(queue) \in Nat /\ Len(wire) \in Nat
    BY LineFacts
  <2>2. Line' = 0..last /\ Line = 0..(last - 1)
    BY <2>1, <1>0, <1>1, <1>7 DEF Line
  <2> QED BY <2>1, <2>2, <1>0, LineFacts
<1>10. RevsAt(last, s)' = MessageRevs(m, s) /\ (EndAt(last, s)' <=> MessageSays(m, s, NoLease))
  <2>1. last # 0 /\ ~(last <= Len(queue)) /\ last - Len(queue) = Len(wire) + 1
    BY <1>0, LineFacts
  <2>2. last # 0 /\ ~(last <= Len(queue')) /\ wire'[last - Len(queue')] = m
    BY <2>1, <1>1, <1>7
  <2>3. /\ RevsAt(last, s)' = MessageRevs(wire'[last - Len(queue')], s)
        /\ EndAt(last, s)' <=> MessageSays(wire'[last - Len(queue')], s, NoLease)
    BY <2>2 DEF RevsAt, EndAt
  <2> QED BY <2>2, <2>3
<1>11. ASSUME NEW p \in Line PROVE RevsAt(p, s)' = RevsAt(p, s) /\ (EndAt(p, s)' <=> EndAt(p, s))
  <2>1. p > Len(queue) => p - Len(queue) \in DOMAIN wire
    BY LineFacts DEF Line
  <2>2. p \in Nat /\ Len(queue) \in Nat
    BY LineFacts
  <2> QED BY <2>1, <2>2, <1>1, <1>7 DEF RevsAt, EndAt
<1>12. ASSUME NEW p \in Line, NEW x \in RevsAt(p, s)
       PROVE  x \in Nat /\ x <= pos
  BY <1>1, <1>8, <1>9 DEF InOrder, Upto
<1>13. ASSUME NEW p \in Line, NEW d \in Line, p <= d, EndAt(d, s), NEW x \in RevsAt(p, s)
       PROVE  x < pos
  BY <1>1, <1>8, <1>13 DEF InOrder, Before
<1>14. ASSUME NEW y \in RevsAt(last, s)' PROVE y = pos /\ pos \in Nat
  BY <1>2, <1>6, <1>10, <1>14
<1>15. ASSUME NEW p \in Line', NEW q \in Line', p < q PROVE Upto(RevsAt(p, s)', RevsAt(q, s)')
  <2> SUFFICES ASSUME NEW x \in RevsAt(p, s)', NEW y \in RevsAt(q, s)' PROVE x <= y
    BY DEF Upto
  <2>1. p \in Line /\ x \in RevsAt(p, s)
    BY <1>9, <1>11, <1>15
  <2>2. CASE q = last
    <3>1. y \in RevsAt(last, s)'
      BY <2>2
    <3> QED BY <3>1, <2>1, <1>12, <1>14
  <2>3. CASE q \in Line
    <3>1. y \in RevsAt(q, s)
      BY <2>3, <1>11
    <3>2. Upto(RevsAt(p, s), RevsAt(q, s))
      BY <2>1, <2>3, <1>8, <1>15 DEF InOrder
    <3> QED BY <2>1, <3>1, <3>2 DEF Upto
  <2> QED BY <2>2, <2>3, <1>9
<1>16. ASSUME NEW p \in Line', NEW d \in Line', NEW q \in Line', p <= d, d < q, EndAt(d, s)'
       PROVE  Before(RevsAt(p, s)', RevsAt(q, s)')
  <2> SUFFICES ASSUME NEW x \in RevsAt(p, s)', NEW y \in RevsAt(q, s)' PROVE x < y
    BY DEF Before
  <2>1. d \in Line
    BY <1>9, <1>16
  <2>2. p \in Line
    BY <2>1, <1>9, <1>16
  <2>3. x \in RevsAt(p, s) /\ EndAt(d, s)
    BY <2>1, <2>2, <1>11, <1>16
  <2>4. CASE q = last
    <3>1. y \in RevsAt(last, s)'
      BY <2>4
    <3> QED BY <3>1, <2>1, <2>2, <2>3, <1>13, <1>14, <1>16
  <2>5. CASE q \in Line
    <3>1. y \in RevsAt(q, s)
      BY <2>5, <1>11
    <3>2. Before(RevsAt(p, s), RevsAt(q, s))
      BY <2>1, <2>2, <2>3, <2>5, <1>8, <1>16 DEF InOrder
    <3> QED BY <2>3, <3>1, <3>2 DEF Before
  <2> QED BY <2>4, <2>5, <1>9
<1>17. ASSUME NEW p \in Line', NEW x \in RevsAt(p, s)'
       PROVE  x \in Nat /\ x <= pos
  <2>1. CASE p = last
    <3>1. x \in RevsAt(last, s)'
      BY <2>1
    <3> QED BY <3>1, <1>14
  <2>2. CASE p \in Line
    BY <2>2, <1>11, <1>12, <1>17
  <2> QED BY <2>1, <2>2, <1>9
<1>18. view'[s] # NoLease => newest'[s] = view'[s].rev
  BY <1>1, <1>8 DEF InOrder
<1>19. \A p \in Line' : Upto(RevsAt(p, s)', {Read'}) /\ Before(RevsAt(p, s)', {Read'})
  BY <1>2, <1>8, <1>17 DEF Upto, Before
<1> HIDE DEF Line, RevsAt, EndAt, Read
<1> QED BY <1>15, <1>16, <1>18, <1>19 DEF InOrder

\* when the snapshot is sent, which is the first that is told of anything,
LEMMA OrderedSnapshot ==
  ASSUME Typed, Phases, SnapshotRevs, Ordered, SendSnapshot, NEW s \in Subnet
  PROVE  InOrder(s)'
<1>1. /\ Untold /\ wire = <<>> /\ fetch = "ttl" /\ fetch' = "open" /\ readAt \in Nat /\ readAt >= 1
      /\ wire' = Append(wire, Snapshot(got)) /\ UNCHANGED <<view, newest, queue, readAt>>
  BY DEF SendSnapshot, Phases, downstream, Snapshot
<1>2. /\ newest'[s] = 0 /\ view'[s] = NoLease /\ Len(queue') = 0 /\ wire' = <<Snapshot(got)>>
      /\ Len(wire') = 1 /\ wire'[1] = Snapshot(got) /\ Read' = readAt
  BY <1>1 DEF Untold, Read
<1>3. ASSUME NEW y \in MessageRevs(Snapshot(got), s) PROVE y \in Nat /\ y >= 1 /\ y <= readAt
  <2>1. PICK l \in Lease : l.rev = y /\ MessageSays(Snapshot(got), s, l) /\ y \in Rev
    BY DEF MessageRevs
  <2>2. PICK i \in DOMAIN got : got[i] = l
    BY <2>1 DEF MessageSays, Snapshot
  <2>3. y \in Nat /\ y >= 1
    BY <2>1 DEF Rev
  <2> QED BY <1>1, <2>1, <2>2, <2>3 DEF SnapshotRevs
<1>4. ~MessageSays(Snapshot(got), s, NoLease)
  <2>1. \A i \in DOMAIN got : got[i] \in Lease
    BY DEF Typed
  <2> QED BY <2>1, NoLeaseAssumption DEF MessageSays, Snapshot
<1>5. /\ Line' = {0, 1} /\ RevsAt(0, s)' = {0} /\ RevsAt(1, s)' = MessageRevs(Snapshot(got), s)
      /\ ~EndAt(1, s)'
  <2>1. Line' = 0..1 /\ 1 - 0 = 1 /\ ~(1 <= 0) /\ 1 # 0
    BY <1>2 DEF Line
  <2> QED BY <2>1, <1>2, <1>4 DEF RevsAt, EndAt
<1> HIDE DEF Line, RevsAt, EndAt, Read
<1> QED BY <1>1, <1>2, <1>3, <1>5 DEF InOrder, Upto, Before

\* and by every other step: there is nothing yet to be in order, or what is told can only
\* be later.
LEMMA OrderedStep ==
  ASSUME Typed, Typed', Phases, Lists, SnapshotRevs, Ordered, [Next]_vars
  PROVE  Ordered'
<1> SUFFICES ASSUME NEW s \in Subnet PROVE InOrder(s)'
  BY DEF Ordered
<1>1. InOrder(s)
  BY DEF Ordered
<1>2. CASE Relay
  BY <1>2, OrderedRelay
<1>3. CASE HandleBatch
  BY <1>3, OrderedHandle
<1>4. CASE ParseEvent
  BY <1>4, OrderedParse
<1>5. CASE SendSnapshot
  BY <1>5, OrderedSnapshot
<1>6. CASE RangeRead
  <2>1. Untold /\ wire = <<>> /\ UNCHANGED <<view, newest, queue, wire>> /\ fetch' = "ttl" /\ readAt' \in Nat
    BY <1>6 DEF RangeRead, Phases, downstream, Typed
  <2>2. newest'[s] = 0 /\ view'[s] = NoLease /\ Len(queue') = 0 /\ Len(wire') = 0 /\ Read' \in Nat
    BY <2>1 DEF Untold, Read
  <2>3. Line' = {0} /\ RevsAt(0, s)' = {0}
    BY <2>2 DEF Line, RevsAt
  <2> HIDE DEF Line, RevsAt, EndAt, Read
  <2> QED BY <2>1, <2>2, <2>3 DEF InOrder, Upto
<1>7. CASE UNCHANGED <<view, newest, queue, wire>> /\ ~RangeRead /\ ~SendSnapshot
  <2> DEFINE f == [p \in Line' |-> p]
  <2>1. Line' = Line /\ Line' \subseteq Nat
    BY <1>7, LineFacts DEF Line
  <2>2. \A p \in Line' : f[p] = p /\ RevsAt(p, s)' = RevsAt(p, s) /\ (EndAt(p, s)' <=> EndAt(p, s))
    BY <1>7 DEF RevsAt, EndAt
  <2>3. Read \in Nat /\ Read' \in Nat
    BY BoundsAssumption DEF Typed, Read
  <2>4. /\ fetch' # "ended" => fetch # "ended" /\ Read <= Read'
        /\ fetch' \in {"open", "stream"} => fetch \in {"open", "stream"}
    <3>1. CASE OpenWatch
      <4>1. fetch = "open" /\ fetch' = "stream" /\ (pos' = Len(log) + 1 \/ (cursor # 0 /\ pos' = cursor))
        BY <3>1 DEF OpenWatch
      <4>2. Len(log) \in Nat /\ readAt \in 1..Len(log) /\ cursor \in {0, readAt}
        BY <4>1 DEF Typed, Phases
      <4> QED BY <4>1, <4>2 DEF Read
    <3>2. CASE DropExpiredPut
      BY <3>2, StreamFacts DEF DropExpiredPut, Read
    <3>3. CASE EndFetch
      BY <3>3 DEF EndFetch
    <3>4. CASE UNCHANGED <<fetch, pos, readAt>>
      BY <3>4, <2>3 DEF Read
    <3>5. OpenWatch \/ DropExpiredPut \/ EndFetch \/ UNCHANGED <<fetch, pos, readAt>> \/ ParseEvent
      BY <1>7, Kinds, EnvironmentFacts DEF QueryTtl, TtlQueryFails, Relay, RelayEnds, HandleBatch, EndBackend,
                                           vars, fetching
    <3>6. ~ParseEvent
      <4>1. ParseEvent => Len(wire') # Len(wire)
        <5> SUFFICES ASSUME ParseEvent PROVE Len(wire') # Len(wire)
          OBVIOUS
        <5>1. wire \in Seq(Message) /\ pos \in DOMAIN log
          BY StreamFacts DEF Typed, ParseEvent
        <5>2. PICK m \in Message : wire' = Append(wire, m)
          BY <5>1, ParsedFacts, EmptySeq DEF ParseEvent, Message
        <5> QED BY <5>1, <5>2, AppendFacts
      <4> QED BY <4>1, <1>7
    <3> QED BY <3>1, <3>2, <3>3, <3>4, <3>5, <3>6
  <2>5. \A p, q \in Line' : p < q => f[p] < f[q]
    BY <2>2
  <2> HIDE DEF f
  <2>6. \A p \in Line' : f[p] \in Line /\ RevsAt(p, s)' \subseteq RevsAt(f[p], s) /\ (EndAt(p, s)' => EndAt(f[p], s))
    BY <2>1, <2>2
  <2>7. view'[s] = view[s] /\ newest'[s] = newest[s]
    BY <1>7
  <2> QED BY <1>1, <2>1, <2>3, <2>4, <2>5, <2>6, <2>7, LineThins
<1>8. CASE RelayEnds
  <2> DEFINE f == [p \in Line' |-> p]
  <2>1. wire' = <<>> /\ UNCHANGED <<view, newest, queue, fetch, pos, readAt>>
    BY <1>8 DEF RelayEnds, fetching
  <2>2. Line' = 0..Len(queue) /\ Len(queue) \in Nat /\ Line' \subseteq Line
    BY <2>1, LineFacts DEF Line
  <2>3. \A p \in Line' : f[p] = p /\ RevsAt(p, s)' = RevsAt(p, s) /\ (EndAt(p, s)' <=> EndAt(p, s))
    BY <2>1, <2>2 DEF RevsAt, EndAt
  <2>4. Read \in Nat /\ Read' = Read
    BY <2>1, BoundsAssumption DEF Typed, Read
  <2>5. \A p, q \in Line' : p < q => f[p] < f[q]
    BY <2>3
  <2> HIDE DEF f
  <2>6. \A p \in Line' : f[p] \in Line /\ RevsAt(p, s)' \subseteq RevsAt(f[p], s) /\ (EndAt(p, s)' => EndAt(f[p], s))
    BY <2>2, <2>3
  <2>7. view'[s] = view[s] /\ newest'[s] = newest[s] /\ fetch' = fetch /\ Line' \subseteq Nat
    BY <2>1, <2>2
  <2>8. Read <= Read'
    BY <2>4
  <2> QED BY <1>1, <2>4, <2>5, <2>6, <2>7, <2>8, LineThins
<1>9. CASE EndBackend
  <2> DEFINE n == Len(queue)
             f == [p \in Line' |-> IF p = 0 THEN 0 ELSE p + n]
  <2>1. queue' = <<>> /\ UNCHANGED <<view, newest, wire, fetch, pos, readAt>>
    BY <1>9 DEF EndBackend, fetching
  <2>2. Line' = 0..Len(wire) /\ n \in Nat /\ Len(wire) \in Nat /\ Line = 0..(n + Len(wire))
    BY <2>1, LineFacts DEF Line
  <2>3. ASSUME NEW p \in Line'
        PROVE  f[p] \in Line /\ RevsAt(p, s)' = RevsAt(f[p], s) /\ (EndAt(p, s)' <=> EndAt(f[p], s))
    <3>1. CASE p = 0
      BY <3>1, <2>1, <2>2 DEF RevsAt, EndAt
    <3>2. CASE p # 0
      <4>1. f[p] = p + n /\ p + n \in Line /\ p + n # 0 /\ ~(p + n <= n) /\ ~(p <= 0) /\ (p + n) - n = p - 0
        BY <3>2, <2>2
      <4>2. Len(queue') = 0
        BY <2>1
      <4> HIDE DEF f
      <4> QED BY <3>2, <4>1, <4>2, <2>1 DEF RevsAt, EndAt
    <3> QED BY <3>1, <3>2
  <2>4. Read \in Nat /\ Read' = Read
    BY <2>1, BoundsAssumption DEF Typed, Read
  <2>5. \A p, q \in Line' : p < q => f[p] < f[q]
    BY <2>2
  <2>6. Line' \subseteq Nat
    BY <2>2
  <2> HIDE DEF f
  <2> QED BY <1>1, <2>1, <2>3, <2>4, <2>5, <2>6, LineThins
<1>10. \/ Relay \/ HandleBatch \/ ParseEvent \/ RangeRead \/ SendSnapshot \/ RelayEnds \/ EndBackend
       \/ UNCHANGED <<view, newest, queue, wire>>
  BY Kinds, EnvironmentFacts DEF QueryTtl, TtlQueryFails, OpenWatch, DropExpiredPut, EndFetch, vars, downstream
<1> QED BY <1>2, <1>3, <1>4, <1>5, <1>6, <1>7, <1>8, <1>9, <1>10

(***************************************************************************)
(* The theorems                                                            *)
(***************************************************************************)

IInv ==
  /\ Typed /\ Phases /\ EndedOK /\ Lists /\ SnapshotOK
  /\ ViewTracked /\ LogTracked /\ SnapshotRevs /\ Ordered

\* To begin with nothing has been read.
LEMMA InitIInv == Init => IInv
<1> SUFFICES ASSUME Init PROVE IInv
  OBVIOUS
<1> USE DEF Init
<1>1. Typed
  <2>1. log \in Seq(Change) /\ Len(log) \in 1..MaxRev
    <3>1. PICK h \in Host : log = <<Put(Own, h)>>
      OBVIOUS
    <3>2. Put(Own, h) \in Change
      BY SubnetAssumption DEF Change
    <3> QED BY <3>1, <3>2, BoundsAssumption
  <2>2. /\ <<>> \in Seq(Lease) /\ <<>> \in Seq(Message) /\ <<>> \in Seq(Seq(Events))
        /\ 0 <= Capacity /\ 0 \in 0..MaxRev /\ 0 \in 0..(MaxRev + 1)
    BY EmptySeq, BoundsAssumption
  <2> QED BY <2>1, <2>2 DEF Typed
<1>2. Phases /\ EndedOK /\ Lists /\ SnapshotOK /\ LogTracked /\ SnapshotRevs
  BY DEF Phases, Untold, EndedOK, Lists, Distinct, SnapshotOK, LogTracked, SnapshotRevs
<1>3. ViewTracked
  <2> SUFFICES ASSUME NEW s \in Subnet PROVE WillKnow(s, Listed(s))
    BY DEF ViewTracked
  <2>1. leases \in Seq(Lease) /\ DOMAIN leases = {}
    BY <1>1 DEF Typed
  <2>2. Listed(s) = NoLease
    <3>1. Find(leases, s) = 0
      BY <2>1, FindFacts
    <3> QED BY <3>1 DEF Listed
  <2>3. view[s] = NoLease /\ DOMAIN queue = {}
    OBVIOUS
  <2> QED BY <2>2, <2>3 DEF WillKnow
<1>4. Ordered
  <2> SUFFICES ASSUME NEW s \in Subnet PROVE InOrder(s)
    BY DEF Ordered
  <2>1. newest[s] = 0 /\ view[s] = NoLease /\ Len(queue) = 0 /\ Len(wire) = 0 /\ readAt = 0 /\ fetch = "range"
    OBVIOUS
  <2>2. Line = {0} /\ RevsAt(0, s) = {0} /\ Read = 0
    BY <2>1 DEF Line, RevsAt, Read
  <2> HIDE DEF Init
  <2> QED BY <2>1, <2>2 DEF InOrder, Upto
<1> QED BY <1>1, <1>2, <1>3, <1>4 DEF IInv

\* Every step keeps the invariant.
LEMMA StepIInv == IInv /\ [Next]_vars => IInv'
<1> QED BY TypedStep, PhasesStep, EndedStep, ListsStep, SnapshotStep, ViewStep, LogStep, SnapshotRevsStep,
           OrderedStep DEF IInv

\* So it holds for ever.
LEMMA Invariant == Spec => []IInv
<1> QED BY InitIInv, StepIInv, PTL DEF Spec

\* The variables have their types, the channels never hold more than they can, and the
\* watcher never lists a subnet twice.
THEOREM TypeCorrect == Spec => []TypeOK
<1>1. IInv => TypeOK
  <2> SUFFICES ASSUME IInv PROVE TypeOK
    OBVIOUS
  <2>1. Typed /\ Distinct(leases)
    BY DEF IInv, Lists
  <2>2. Len(log) <= MaxRev /\ \A r \in DOMAIN log : log[r] \in Change
    BY <2>1, BoundsAssumption DEF Typed
  <2> QED BY <2>1, <2>2 DEF TypeOK, Typed, Distinct, Change
<1> QED BY <1>1, Invariant, PTL

\* What the backend will know of s is what the batches in the queue make of it.
LEMMA PromisedFacts ==
  ASSUME Typed, NEW s \in Subnet, NEW x, WillKnow(s, x)
  PROVE  Promised(s) = x
<1> DEFINE about == {i \in DOMAIN queue : About(queue[i], s) # {}}
<1>1. queue \in Seq(Seq(Events)) /\ Len(queue) \in Nat /\ DOMAIN queue = 1..Len(queue)
  BY DEF Typed
<1>2. Promised(s) = IF about = {} THEN view[s] ELSE ApplyAll(view, queue[Latest(about)])[s]
  BY DEF Promised
<1>3. CASE \E i \in DOMAIN queue :
             BatchSays(queue[i], s, x) /\ \A j \in DOMAIN queue : j > i => About(queue[j], s) = {}
  <2>1. PICK i \in DOMAIN queue : BatchSays(queue[i], s, x) /\ \A j \in DOMAIN queue : j > i => About(queue[j], s) = {}
    BY <1>3
  <2>2. i \in about /\ \A j \in about : j \in Nat /\ j <= i
    <3>1. About(queue[i], s) # {}
      BY <2>1 DEF BatchSays
    <3>2. ASSUME NEW j \in about PROVE j \in Nat /\ j <= i
      <4>1. j \in 1..Len(queue) /\ i \in 1..Len(queue) /\ ~(j > i)
        BY <1>1, <2>1
      <4> QED BY <4>1, <1>1
    <3> QED BY <3>1, <3>2
  <2>3. about \subseteq 0..Len(queue)
    BY <1>1
  <2>4. Latest(about) \in about /\ i <= Latest(about)
    <3> HIDE DEF about
    <3> QED BY <1>1, <2>2, <2>3, LatestFacts
  <2>5. Latest(about) = i
    <3> HIDE DEF about
    <3> QED BY <2>2, <2>4
  <2>6. PICK b \in Seq(Events) : b = queue[i]
    BY <1>1
  <2>7. ApplyAll(view, b)[s] = x
    BY <2>1, <2>6, ApplyFacts
  <2> QED BY <1>2, <2>2, <2>5, <2>6, <2>7
<1>4. CASE view[s] = x /\ \A j \in DOMAIN queue : About(queue[j], s) = {}
  BY <1>2, <1>4
<1> QED BY <1>3, <1>4 DEF WillKnow

\* A batch on its way is never out of step with the watcher that made it: when the batches
\* have been applied, the backend knows of just the leases the watcher lists, or has last
\* listed.
THEOREM BatchesAreInStep == Spec => []WatcherTracksView
<1>1. IInv => WatcherTracksView
  <2> SUFFICES ASSUME IInv, backend, NEW s \in Subnet \ {Own} PROVE Promised(s) = Listed(s)
    BY DEF WatcherTracksView
  <2>1. WillKnow(s, Listed(s)) /\ Typed
    BY DEF IInv, ViewTracked
  <2> QED BY <2>1, PromisedFacts
<1> QED BY <1>1, Invariant, PTL

\* Once nothing is under way between etcd and the backend, the backend knows of every other
\* subnet what the registry says, if it can: no interleaving of the snapshot, the watch, the
\* relay and the backend with renewals, moves and ends of leases loses or reverts a change.
THEOREM NothingIsLost == Spec => []ViewCatchesUp
<1>1. IInv => ViewCatchesUp
  <2> SUFFICES ASSUME IInv, Drained, backend, NEW s \in Subnet \ {Own}, Covered(s) PROVE view[s] = Entry(s)
    BY DEF ViewCatchesUp, InSync
  <2>1. Typed /\ Phases /\ fetch = "stream" /\ pos > Len(log) /\ DOMAIN wire = {} /\ DOMAIN queue = {}
    BY DEF IInv, Drained
  <2>2. relay
    BY <2>1 DEF Phases
  <2>3. InSnapshot(s) \/ InStream(s)
    <3> SUFFICES ASSUME Changes(s) # {}, Latest(Changes(s)) > readAt,
                        cursor = 0 => Latest(Changes(s)) >= since
                 PROVE  InStream(s)
      BY DEF Covered, InSnapshot
    <3>1. Latest(Changes(s)) \in 1..Len(log) /\ Len(log) \in Nat
      BY <2>1, ChangesFacts
    <3>2. Latest(Changes(s)) < pos
      BY <2>1, <3>1, StreamFacts
    <3>3. cursor # 0 => since = readAt
      BY <2>1 DEF Phases
    <3>4. Latest(Changes(s)) >= since
      BY <2>1, <3>1, <3>3, StreamFacts
    <3> QED BY <2>1, <3>2, <3>4 DEF InStream
  <2>4. WillList(s, Entry(s))
    BY <2>1, <2>2, <2>3 DEF IInv, LogTracked
  <2>5. Listed(s) = Entry(s)
    BY <2>1, <2>4 DEF WillList
  <2>6. WillKnow(s, Listed(s))
    BY <2>2 DEF IInv, ViewTracked
  <2> QED BY <2>1, <2>5, <2>6 DEF WillKnow
<1> QED BY <1>1, Invariant, PTL

\* The backend never goes back to an older registration of a subnet, and one it was told has
\* ended never comes back, not even for a moment.
THEOREM ViewMovesForward == Spec => NeverBackwards
<1> DEFINE Forward == \A s \in Subnet : view'[s] # NoLease =>
             view'[s].rev >= newest[s] /\ (view[s] = NoLease => view'[s].rev > newest[s])
<1>1. IInv /\ [Next]_vars => [Forward]_vars
  <2> SUFFICES ASSUME IInv, [Next]_vars, NEW s \in Subnet, view'[s] # NoLease
               PROVE  view'[s].rev >= newest[s] /\ (view[s] = NoLease => view'[s].rev > newest[s])
    OBVIOUS
  <2>1. Typed /\ Ordered /\ newest[s] \in Nat /\ (view[s] # NoLease => newest[s] = view[s].rev)
    <3>1. Typed /\ Ordered
      BY DEF IInv
    <3>2. newest[s] \in Nat
      <4>1. 0 \in Line /\ RevsAt(0, s) = {newest[s]}
        BY <3>1, LineFacts DEF Line, RevsAt
      <4> QED BY <4>1, <3>1, LineFacts
    <3>3. InOrder(s)
      BY <3>1 DEF Ordered
    <3> QED BY <3>1, <3>2, <3>3 DEF InOrder
  <2>2. CASE HandleBatch
    BY <2>1, <2>2, OrderedHandle
  <2>3. CASE view' = view
    BY <2>1, <2>3
  <2>4. HandleBatch \/ view' = view
    BY <2>1, Kinds, EnvironmentFacts DEF RangeRead, QueryTtl, TtlQueryFails, SendSnapshot, OpenWatch, ParseEvent,
         DropExpiredPut, EndFetch, Relay, RelayEnds, EndBackend, vars, downstream
  <2> QED BY <2>2, <2>3, <2>4
<1> QED BY <1>1, Invariant, PTL DEF NeverBackwards, Spec
==============================================================================
