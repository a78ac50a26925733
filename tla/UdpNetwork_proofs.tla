-------------------------- MODULE UdpNetwork_proofs ---------------------------
(***************************************************************************)
(* Proofs about the UDP backend's routes and the subnets hosts choose, for *)
(* any address width, configurations, subnets and hosts.                   *)
(***************************************************************************)
EXTENDS UdpNetwork, LeaseEvents_proofs, InductionFacts

(***************************************************************************)
(* Powers of two                                                           *)
(***************************************************************************)

\* Pow2 is what its definition says.
LEMMA Pow2Facts ==
  /\ Pow2 \in [0..Width -> Nat] /\ Pow2[0] = 1
  /\ \A n \in 1..Width : Pow2[n] = 2 * Pow2[n - 1]
<1> DEFINE F == [p \in (1..Width) \X Nat |-> 2 * p[2]]
           Def(g) == [n \in 0..Width |-> IF n = 0 THEN 1 ELSE 2 * g[n - 1]]
<1>1. Width \in Nat /\ 1 \in Nat /\ F \in [(1..Width) \X Nat -> Nat]
  BY WidthAssumption
<1>2. PICK g \in [0..Width -> Nat] : g[0] = 1 /\ \A i \in 1..Width : g[i] = F[<<i, g[i - 1]>>]
  <2> HIDE DEF F
  <2>1. \E g : Recurses(g, Nat, 1, Width, F)
    BY <1>1, Recursion
  <2> QED BY <2>1 DEF Recurses
<1>3. ASSUME NEW n \in 0..Width PROVE g[n] = IF n = 0 THEN 1 ELSE 2 * g[n - 1]
  <2>1. CASE n # 0
    <3>1. n \in 1..Width /\ n - 1 \in 0..Width
      BY <2>1, <1>1
    <3> QED BY <3>1, <2>1, <1>2
  <2> QED BY <2>1, <1>2
<1>4. g = Def(g)
  BY <1>2, <1>3
<1>5. Pow2 = Def(Pow2)
  BY <1>4 DEF Pow2
<1>6. ASSUME NEW f, f = Def(f)
      PROVE  f[0] = 1 /\ \A n \in 1..Width : f[n] = 2 * f[n - 1]
  BY <1>6, <1>1
<1>7. ASSUME NEW n \in 0..Width PROVE Pow2[n] \in Nat
  <2> DEFINE P == {i \in 0..Width : Pow2[i] \in Nat}
  <2>1. 0 \in P /\ \A i \in 1..Width : i - 1 \in P => i \in P
    BY <1>1, <1>5, <1>6
  <2>2. 0..Width \subseteq P
    <3> HIDE DEF P
    <3> QED BY <2>1, <1>1, UpTo
  <2> QED BY <2>2
<1> QED BY <1>5, <1>6, <1>7

\* The address space is as many subnets of a size as that size is of addresses.
LEMMA SpaceIsWhole ==
  ASSUME NEW len \in 0..Width
  PROVE  /\ Size(len) \in Nat \ {0} /\ Pow2[len] \in Nat \ {0}
         /\ Space = Size(len) * Pow2[len]
<1> DEFINE P == {n \in 0..Width : /\ Pow2[Width - n] \in Nat \ {0} /\ Pow2[n] \in Nat \ {0}
                                  /\ Pow2[Width] = Pow2[Width - n] * Pow2[n]}
           Q == {n \in 0..Width : Pow2[n] # 0}
<1>1. Width \in Nat
  BY WidthAssumption
<1>2. 0..Width \subseteq Q
  <2>1. 0 \in Q /\ \A n \in 1..Width : n - 1 \in Q => n \in Q
    BY <1>1, Pow2Facts
  <2> HIDE DEF Q
  <2> QED BY <2>1, <1>1, UpTo
<1>3. 0 \in P
  BY <1>1, <1>2, Pow2Facts
<1>4. ASSUME NEW n \in 1..Width, n - 1 \in P PROVE n \in P
  <2>1. /\ n \in 0..Width /\ n - 1 \in 0..Width /\ Width - n \in 0..Width /\ Width - (n - 1) \in 1..Width
        /\ (Width - (n - 1)) - 1 = Width - n
    BY <1>1
  <2>2. Pow2[Width - (n - 1)] = 2 * Pow2[Width - n] /\ Pow2[n] = 2 * Pow2[n - 1]
    BY <2>1, Pow2Facts
  <2>3. PICK a, b \in Nat : a = Pow2[Width - n] /\ b = Pow2[n - 1] /\ Pow2[n] = 2 * b
    BY <2>1, <2>2, Pow2Facts
  <2>4. Pow2[Width] = (2 * a) * b
    BY <1>4, <2>2, <2>3
  <2>5. (2 * a) * b = a * (2 * b)
    OBVIOUS
  <2> QED BY <2>1, <2>3, <2>4, <2>5, <1>2, Pow2Facts
<1>5. 0..Width \subseteq P
  <2> HIDE DEF P
  <2> QED BY <1>1, <1>3, <1>4, UpTo
<1> QED BY <1>5 DEF Space, Size

(***************************************************************************)
(* Subnets that may be chosen                                              *)
(***************************************************************************)

\* Wrapping at a multiple of the size keeps an address aligned.
LEMMA WrapKeepsAligned ==
  ASSUME NEW size \in Nat \ {0}, NEW count \in Nat \ {0}, NEW k \in Int,
         NEW ip \in Int, ip % size = 0
  PROVE  ((ip + k * size) % (size * count)) % size = 0
<1> DEFINE m == size * count
           x == ip + k * size
<1>1. m \in Nat \ {0} /\ x \in Int
  OBVIOUS
<1>2. PICK d \in Int : ip = d * size
  <2>1. ip = (ip \div size) * size /\ ip \div size \in Int
    OBVIOUS
  <2> QED BY <2>1
<1>3. PICK w \in Int : x % m = x - w * m
  <2> HIDE DEF x, m
  <2>1. x % m = x - (x \div m) * m /\ x \div m \in Int
    BY <1>1
  <2> QED BY <2>1
<1>4. x % m = (d + k - w * count) * size
  BY <1>2, <1>3
<1>5. \A y \in Int : (y * size) % size = 0
  OBVIOUS
<1>6. d + k - w * count \in Int
  OBVIOUS
<1> HIDE DEF x, m
<1> QED BY <1>4, <1>5, <1>6 DEF x, m

\* Of an accepted configuration the choice is among aligned subnets of one size that
\* overlap nothing taken.
LEMMA ChoiceFacts ==
  ASSUME NEW raw \in RawConfigs, Accepted(raw), NEW taken, NEW s \in Choosable(Config(raw), taken)
  PROVE  /\ s.len = Config(raw).len /\ s.len \in 0..Width
         /\ Aligned(s.ip, s.len)
         /\ \A t \in taken : ~Overlaps(s, t)
<1> DEFINE c == Config(raw)
<1>1. raw \in [net : Net, subnetLen : Nat, min : {None} \cup Address, max : {None} \cup Address]
  BY RawConfigsAssumption DEF RawConfig
<1>2. raw.subnetLen \in Nat /\ raw.net.len \in 0..Width /\ raw.net.ip \in Address
      /\ raw.min \in {None} \cup Address
  BY <1>1 DEF Net
<1>3. c.len \in 0..Width
  <2>1. LenFits(raw) /\ c.len = SubnetLen(raw)
    BY DEF Accepted, Config
  <2> QED BY <2>1, <1>2, WidthAssumption DEF LenFits, SubnetLen
<1>4. /\ Size(c.len) \in Nat \ {0} /\ Pow2[c.len] \in Nat \ {0}
      /\ Space = Size(c.len) * Pow2[c.len]
  BY <1>3, SpaceIsWhole
<1>5. Space \in Nat \ {0}
  BY <1>4
<1>6. c.min \in Int /\ c.min % Size(c.len) = 0
  <2>1. c.min = IF raw.min = None THEN (raw.net.ip + Size(c.len)) % Space ELSE raw.min
    BY DEF Config
  <2>2. (raw.net.ip + Size(c.len)) % Space \in Int
    BY <1>2, <1>4, <1>5 DEF Address
  <2>3. c.min \in Int
    BY <2>1, <2>2, <1>2 DEF Address
  <2> QED BY <2>3 DEF Accepted, Aligned
<1>7. PICK k \in 0..(Pow2[c.len] - 1) :
        /\ s = [ip |-> (c.min + k * Size(c.len)) % Space, len |-> c.len]
        /\ \A t \in taken : ~Overlaps(s, t)
  BY DEF Choosable
<1> HIDE DEF c
<1>8. s.ip % Size(c.len) = 0
  <2>1. PICK size \in Nat \ {0}, count \in Nat \ {0}, ip \in Int, j \in Int :
          size = Size(c.len) /\ count = Pow2[c.len] /\ ip = c.min /\ ip % size = 0 /\ j = k
    <3>1. k \in Int
      BY <1>4
    <3> QED BY <3>1, <1>4, <1>6
  <2>2. ip % size = 0
    BY <2>1
  <2>3. ((ip + j * size) % (size * count)) % size = 0
    BY ONLY <2>2, WrapKeepsAligned, size \in Nat \ {0}, count \in Nat \ {0}, ip \in Int, j \in Int, Zenon
  <2> QED BY <2>1, <2>3, <1>4, <1>7
<1> QED BY <1>3, <1>7, <1>8 DEF Aligned, c

\* Aligned subnets of one size overlap only if they are the same.
LEMMA AlignedOverlap ==
  ASSUME NEW s \in Net, NEW t \in Net, s.len = t.len,
         Aligned(s.ip, s.len), Aligned(t.ip, t.len), Overlaps(s, t)
  PROVE  s = t
<1>1. s.ip \in Int /\ t.ip \in Int
  BY SpaceIsWhole, WidthAssumption DEF Net, Address
<1>2. s.ip = t.ip
  BY <1>1 DEF Overlaps, HasAddress, NetworkOf, Aligned, Net
<1> QED BY <1>2 DEF Net

(***************************************************************************)
(* The routes                                                              *)
(***************************************************************************)

\* ws has just the entries of rs that are not to s.
Without(rs, s, ws) ==
  /\ ws \in Seq(Route)
  /\ \A k \in DOMAIN ws : ws[k].dst # s /\ \E j \in DOMAIN rs : rs[j] = ws[k]
  /\ \A j \in DOMAIN rs : rs[j].dst # s => \E k \in DOMAIN ws : ws[k] = rs[j]

\* What is left of the routes is just those to other subnets.
LEMMA DroppedFacts ==
  ASSUME NEW rs \in Seq(Route), NEW l
  PROVE  Without(rs, l.subnet, DropRoutes(rs, l))
<1> DEFINE n == Len(rs)
           F == [p \in (1..n) \X Seq(Route) |-> IF rs[p[1]].dst = l.subnet THEN p[2] ELSE Append(p[2], rs[p[1]])]
           Def(f) == [i \in 0..n |-> IF i = 0 THEN <<>>
                                     ELSE IF rs[i].dst = l.subnet THEN f[i - 1] ELSE Append(f[i - 1], rs[i])]
<1>1. n \in Nat /\ DOMAIN rs = 1..n /\ (\A i \in 1..n : rs[i] \in Route) /\ <<>> \in Seq(Route)
      /\ F \in [(1..n) \X Seq(Route) -> Seq(Route)]
  OBVIOUS
<1>2. PICK f : f = Def(f) /\ DropRoutes(rs, l) = f[n]
  <2>1. \E f : Recurses(f, Seq(Route), <<>>, n, F)
    <3> HIDE DEF F, n
    <3> QED BY <1>1, Recursion
  <2>2. PICK f \in [0..n -> Seq(Route)] : f[0] = <<>> /\ \A i \in 1..n : f[i] = F[<<i, f[i - 1]>>]
    BY <2>1 DEF Recurses
  <2>3. ASSUME NEW i \in 0..n PROVE f[i] = Def(f)[i]
    <3>1. CASE i # 0
      <4>1. i \in 1..n /\ i - 1 \in 0..n
        BY <3>1, <1>1
      <4> QED BY <4>1, <3>1, <2>2
    <3> QED BY <3>1, <2>2
  <2>4. f = Def(f)
    BY <2>2, <2>3
  <2>5. \E h : h = Def(h)
    BY <2>4
  <2> QED BY <2>5 DEF DropRoutes
<1>3. f[0] = <<>> /\ \A i \in 1..n : f[i] = IF rs[i].dst = l.subnet THEN f[i - 1] ELSE Append(f[i - 1], rs[i])
  <2>1. \A i \in 0..n : f[i] = IF i = 0 THEN <<>>
                               ELSE IF rs[i].dst = l.subnet THEN f[i - 1] ELSE Append(f[i - 1], rs[i])
    BY <1>2
  <2>2. 0 \in 0..n /\ \A i \in 1..n : i \in 0..n /\ i # 0
    BY <1>1
  <2> QED BY <2>1, <2>2
<1> HIDE DEF n, F, Def
<1> DEFINE Kept(i) ==
             /\ f[i] \in Seq(Route)
             /\ \A k \in DOMAIN f[i] : f[i][k].dst # l.subnet /\ \E j \in DOMAIN rs : rs[j] = f[i][k]
             /\ \A j \in 1..i : rs[j].dst # l.subnet => \E k \in DOMAIN f[i] : f[i][k] = rs[j]
           P == {i \in 0..n : Kept(i)}
<1>4. Kept(0)
  BY <1>1, <1>3
<1>5. ASSUME NEW i \in 1..n, Kept(i - 1) PROVE Kept(i)
  <2>1. i \in DOMAIN rs /\ rs[i] \in Route /\ \A j \in 1..i : j = i \/ j \in 1..(i - 1)
    BY <1>1
  <2>2. CASE rs[i].dst = l.subnet
    <3>1. f[i] = f[i - 1]
      BY <2>2, <1>3
    <3> QED BY <3>1, <2>1, <2>2, <1>5
  <2>3. CASE rs[i].dst # l.subnet
    <3>1. f[i] = Append(f[i - 1], rs[i]) /\ f[i - 1] \in Seq(Route)
      BY <2>3, <1>3, <1>5
    <3>2. PICK q \in Seq(Route) : q = f[i - 1]
      BY <3>1
    <3>3. /\ f[i] \in Seq(Route) /\ DOMAIN f[i] = 1..(Len(q) + 1) /\ Len(q) + 1 \in DOMAIN f[i]
          /\ DOMAIN q = 1..Len(q) /\ f[i][Len(q) + 1] = rs[i]
          /\ \A k \in DOMAIN q : k \in DOMAIN f[i] /\ f[i][k] = q[k]
          /\ \A k \in DOMAIN f[i] : k = Len(q) + 1 \/ k \in DOMAIN q
      BY <3>1, <3>2, <2>1
    <3>4. ASSUME NEW k \in DOMAIN f[i]
          PROVE  f[i][k].dst # l.subnet /\ \E j \in DOMAIN rs : rs[j] = f[i][k]
      <4>1. CASE k = Len(q) + 1
        BY <4>1, <3>3, <2>1, <2>3
      <4>2. CASE k \in DOMAIN q
        BY <4>2, <3>2, <3>3, <1>5
      <4> QED BY <4>1, <4>2, <3>3
    <3>5. ASSUME NEW j \in 1..i, rs[j].dst # l.subnet
          PROVE  \E k \in DOMAIN f[i] : f[i][k] = rs[j]
      <4>1. CASE j = i
        BY <4>1, <3>3
      <4>2. CASE j \in 1..(i - 1)
        <5>1. PICK k \in DOMAIN q : q[k] = rs[j]
          BY <4>2, <3>2, <3>5, <1>5
        <5> QED BY <5>1, <3>3
      <4> QED BY <4>1, <4>2, <2>1
    <3> QED BY <3>3, <3>4, <3>5
  <2> QED BY <2>2, <2>3
<1>6. 0..n \subseteq P
  <2>1. 0 \in P /\ \A i \in 1..n : i - 1 \in P => i \in P
    <3> HIDE DEF Kept
    <3> QED BY <1>1, <1>4, <1>5
  <2> HIDE DEF P
  <2> QED BY <2>1, <1>1, UpTo
<1>7. Kept(n)
  <2> HIDE DEF Kept
  <2> QED BY <1>1, <1>6
<1> QED BY <1>1, <1>2, <1>7 DEF Without

\* The routes to s are all through the host it is registered to, and there is one if
\* it is registered.
Routed(s) ==
  /\ \A i \in DOMAIN routes : routes[i].dst = s => reg[s] # NoLease /\ routes[i].hop = reg[s].ip
  /\ reg[s] # NoLease => \E i \in DOMAIN routes : routes[i].dst = s

RoutesInv ==
  /\ EventsInv
  /\ routes \in Seq(Route)
  /\ ~up => routes = <<>>
  /\ up => \A s \in Subnet : ~Pending(s) => Routed(s)

\* A step of another host leaves the routes alone.
LEMMA RoutesRegistry ==
  ASSUME RoutesInv, Registry, UNCHANGED routes
  PROVE  RoutesInv'
<1>1. RegistryStep
  BY RegistryKeeps DEF RoutesInv
<1>2. ASSUME up', NEW s \in Subnet, ~Pending(s)' PROVE Routed(s)'
  <2>1. reg'[s] = reg[s] /\ ~Pending(s) /\ up
    BY <1>1, <1>2 DEF RegistryStep
  <2> QED BY <2>1 DEF RoutesInv, Routed
<1> QED BY <1>1, <1>2 DEF RoutesInv, RegistryStep

\* A Put corrects every route to its subnet and adds one.
LEMMA RoutesPut ==
  ASSUME RoutesInv, NEW e \in Events, HandlePut(e)
  PROVE  RoutesInv'
<1>1. /\ EventsInv' /\ UNCHANGED <<reg, up>> /\ up
      /\ e.lease.subnet \in Subnet
      /\ \A s \in Subnet : s # e.lease.subnet => (Pending(s)' <=> Pending(s))
      /\ ~Pending(e.lease.subnet)' => Says(e, e.lease.subnet)
  BY HandledKeeps DEF HandlePut, RoutesInv
<1>2. e.type = "put" /\ e.lease \in Lease /\ RouteTo(e.lease) \in Route
  BY <1>1, EventFacts DEF HandlePut, RouteTo, Route
<1>3. PICK rs \in Seq(Route) :
        /\ rs = [i \in DOMAIN routes |-> IF routes[i].dst = e.lease.subnet THEN RouteTo(e.lease) ELSE routes[i]]
        /\ DOMAIN rs = DOMAIN routes
        /\ routes' = Append(rs, RouteTo(e.lease))
  <2>1. routes \in Seq(Route)
    BY DEF RoutesInv
  <2>2. [i \in DOMAIN routes |-> IF routes[i].dst = e.lease.subnet THEN RouteTo(e.lease) ELSE routes[i]]
          \in Seq(Route)
    BY <1>2, <2>1
  <2> QED BY <2>2 DEF HandlePut, AddRoute
<1>4. /\ routes' \in Seq(Route) /\ Len(rs) + 1 \in DOMAIN routes'
      /\ routes'[Len(rs) + 1] = RouteTo(e.lease)
      /\ \A i \in DOMAIN rs : i \in DOMAIN routes' /\ routes'[i] = rs[i]
      /\ \A i \in DOMAIN routes' : i = Len(rs) + 1 \/ i \in DOMAIN rs
  BY <1>2, <1>3
<1>5. /\ \A i \in DOMAIN routes : rs[i] = IF routes[i].dst = e.lease.subnet THEN RouteTo(e.lease) ELSE routes[i]
      /\ RouteTo(e.lease).dst = e.lease.subnet
  BY <1>3 DEF RouteTo
<1>6. ASSUME NEW s \in Subnet, ~Pending(s)' PROVE Routed(s)'
  <2>1. CASE s = e.lease.subnet
    <3>1. reg[s] # NoLease /\ e.lease = reg[s]
      BY <1>1, <1>2, <1>6, <2>1 DEF Says, Put
    <3>2. ASSUME NEW i \in DOMAIN routes', routes'[i].dst = s PROVE routes'[i].hop = reg[s].ip
      <4>1. CASE i = Len(rs) + 1
        BY <4>1, <3>1, <1>4 DEF RouteTo
      <4>2. CASE i \in DOMAIN rs
        <5>1. routes'[i] = IF routes[i].dst = s THEN RouteTo(e.lease) ELSE routes[i]
          BY <4>2, <2>1, <1>3, <1>4, <1>5
        <5> QED BY <5>1, <3>1, <3>2 DEF RouteTo
      <4> QED BY <4>1, <4>2, <3>2, <1>4
    <3>3. routes'[Len(rs) + 1].dst = s
      BY <1>4, <2>1 DEF RouteTo
    <3> QED BY <3>1, <3>2, <3>3, <1>1, <1>4 DEF Routed
  <2>2. CASE s # e.lease.subnet
    <3>1. Routed(s)
      BY <2>2, <1>1, <1>6 DEF RoutesInv
    <3>2. ASSUME NEW i \in DOMAIN routes', routes'[i].dst = s PROVE i \in DOMAIN routes /\ routes'[i] = routes[i]
      <4>1. i # Len(rs) + 1
        BY <3>2, <2>2, <1>4, <1>5
      <4>2. i \in DOMAIN rs /\ routes'[i] = rs[i]
        BY <4>1, <1>4
      <4>3. DOMAIN rs = DOMAIN routes
        BY <1>3
      <4> QED BY <4>2, <4>3, <3>2, <2>2, <1>5
    <3>3. ASSUME NEW i \in DOMAIN routes, routes[i].dst = s PROVE i \in DOMAIN routes' /\ routes'[i] = routes[i]
      <4>1. i \in DOMAIN rs
        BY <1>3
      <4> QED BY <4>1, <3>3, <2>2, <1>4, <1>5
    <3> QED BY <3>1, <3>2, <3>3, <1>1 DEF Routed
  <2> QED BY <2>1, <2>2
<1> QED BY <1>1, <1>4, <1>6 DEF RoutesInv

\* A Delete removes every route to its subnet.
LEMMA RoutesDelete ==
  ASSUME RoutesInv, NEW e \in Events, HandleDelete(e)
  PROVE  RoutesInv'
<1>1. /\ EventsInv' /\ UNCHANGED <<reg, up>> /\ up
      /\ e.lease.subnet \in Subnet
      /\ \A s \in Subnet : s # e.lease.subnet => (Pending(s)' <=> Pending(s))
      /\ ~Pending(e.lease.subnet)' => Says(e, e.lease.subnet)
  BY HandledKeeps DEF HandleDelete, RoutesInv
<1>2. Without(routes, e.lease.subnet, routes')
  <2>1. routes' = DropRoutes(routes, e.lease) /\ routes \in Seq(Route)
    BY DEF HandleDelete, RoutesInv
  <2>2. Without(routes, e.lease.subnet, DropRoutes(routes, e.lease))
    BY <2>1, DroppedFacts
  <2> QED BY <2>1, <2>2
<1>3. ASSUME NEW s \in Subnet, ~Pending(s)' PROVE Routed(s)'
  <2>1. CASE s = e.lease.subnet
    <3>1. reg[s] = NoLease
      BY <1>1, <1>3, <2>1 DEF Says, Put, HandleDelete
    <3> QED BY <3>1, <2>1, <1>1, <1>2 DEF Routed, Without
  <2>2. CASE s # e.lease.subnet
    <3>1. Routed(s)
      BY <2>2, <1>1, <1>3 DEF RoutesInv, Without
    <3> QED BY <3>1, <2>2, <1>1, <1>2 DEF Routed, Without
  <2> QED BY <2>1, <2>2
<1> QED BY <1>1, <1>2, <1>3 DEF RoutesInv, Without

\* Every step keeps what the routes say of the subnets without a pending event.
LEMMA RoutesKept == RoutesInv /\ [Next]_vars => RoutesInv'
<1> SUFFICES ASSUME RoutesInv, [Next]_vars PROVE RoutesInv'
  OBVIOUS
<1>1. CASE \E l \in Lease : Create(l) \/ Renewed(l) \/ CreateLate(l)
  BY <1>1, RoutesRegistry DEF Create, Renewed, CreateLate, Registry
<1>2. CASE \E s \in Subnet : Ended(s)
  BY <1>2, RoutesRegistry DEF Ended, Registry
<1>3. CASE UNCHANGED <<reg, queue, up, routes>>
  <2>1. EventsInv' /\ \A s \in Subnet : Pending(s)' <=> Pending(s)
    BY <1>3, EventsStutter DEF RoutesInv
  <2> QED BY <2>1, <1>3 DEF RoutesInv, Routed
<1>4. CASE Restart /\ UNCHANGED <<routes, overlay>>
  <2>1. /\ EventsInv' /\ UNCHANGED <<reg, routes>> /\ ~up
        /\ \A s \in Subnet : reg[s] # NoLease => Pending(s)'
    BY <1>4, RestartKeeps DEF RoutesInv
  <2>2. routes = <<>>
    BY <2>1 DEF RoutesInv
  <2>3. \A s \in Subnet : ~Pending(s)' => Routed(s)'
    BY <2>1, <2>2 DEF Routed
  <2> QED BY <2>1, <2>2, <2>3 DEF RoutesInv
<1>5. ASSUME NEW e \in Events, HandlePut(e) \/ HandleDelete(e) PROVE RoutesInv'
  BY <1>5, RoutesPut, RoutesDelete
<1>6. CASE Stop
  <2>1. EventsInv' /\ ~up' /\ routes' = <<>>
    BY <1>6, DieKeeps DEF Stop, RoutesInv
  <2>2. routes' \in Seq(Route)
    BY <2>1, EmptySeq
  <2> QED BY <2>1, <2>2 DEF RoutesInv
<1>7. CASE Choose \/ (\E raw \in RawConfigs : Reconfigure(raw)) \/ UNCHANGED vars
  BY <1>7, <1>3 DEF Choose, Reconfigure, vars
<1> QED BY <1>1, <1>2, <1>4, <1>5, <1>6, <1>7 DEF Next, Hosts

\* It holds at the start, and so always.
LEMMA RoutesAlways == Spec => []RoutesInv
<1>1. ASSUME Init PROVE RoutesInv
  <2>1. EventsInit
    BY <1>1 DEF Init, EventsInit
  <2>2. EventsInv /\ ~up /\ routes = <<>>
    BY <2>1, <1>1, EventsStart DEF Init
  <2>3. routes \in Seq(Route)
    BY <2>2, EmptySeq
  <2> QED BY <2>2, <2>3 DEF RoutesInv
<1> QED BY <1>1, RoutesKept, PTL DEF Spec

\* The first of the entries that match decides, and any of them would do.
LEMMA RoutesGiveExact ==
  ASSUME RoutesInv, up, NEW dst
  PROVE  ExactAt(dst)
<1> DEFINE at == {s \in Subnet : HasAddress(s, dst)}
           owners == {reg[s].ip : s \in at \cap Taken}
           I == {i \in 1..Len(routes) : HasAddress(routes[i].dst, dst)}
<1>1. FindRoute(routes, dst) =
        IF SelectInSeq(routes, LAMBDA r : HasAddress(r.dst, dst)) = 0 THEN NoHop
        ELSE routes[SelectInSeq(routes, LAMBDA r : HasAddress(r.dst, dst))].hop
  BY DEF FindRoute
<1>2. SelectInSeq(routes, LAMBDA r : HasAddress(r.dst, dst)) = IF I # {} THEN Min(I) ELSE 0
  BY DEF SelectInSeq
<1>3. /\ routes \in Seq(Route) /\ Len(routes) \in Nat
      /\ \A i \in 1..Len(routes) : routes[i].dst \in Subnet
      /\ DOMAIN routes = 1..Len(routes)
  <2>1. routes \in Seq(Route)
    BY DEF RoutesInv
  <2>2. \A i \in 1..Len(routes) : routes[i] \in Route
    BY <2>1
  <2> QED BY <2>1, <2>2 DEF Route
<1> SUFFICES ASSUME \A s \in at : ~Pending(s)
             PROVE  \/ FindRoute(routes, dst) \in owners
                    \/ owners = {} /\ FindRoute(routes, dst) = NoHop
  BY DEF ExactAt
<1>4. \A s \in at : Routed(s)
  BY DEF RoutesInv
<1>5. CASE I # {}
  <2>1. Min(I) \in I
    <3>1. I \subseteq Nat
      OBVIOUS
    <3> HIDE DEF I
    <3>2. \E m \in I : \A k \in I : m <= k
      BY <3>1, <1>5, Least
    <3> QED BY <3>2 DEF Min
  <2>2. PICK i \in 1..Len(routes) : i = Min(I) /\ HasAddress(routes[i].dst, dst)
    BY <2>1
  <2>3. FindRoute(routes, dst) = routes[i].hop
    BY <2>2, <1>1, <1>2, <1>5
  <2>4. PICK s \in at : s = routes[i].dst
    BY <2>2, <1>3
  <2>5. reg[s] # NoLease /\ routes[i].hop = reg[s].ip
    BY <2>2, <2>4, <1>3, <1>4 DEF Routed
  <2> QED BY <2>3, <2>5 DEF Taken
<1>6. CASE I = {}
  <2>1. FindRoute(routes, dst) = NoHop
    BY <1>1, <1>2, <1>6
  <2>2. ASSUME NEW s \in at \cap Taken PROVE FALSE
    <3>1. PICK i \in DOMAIN routes : routes[i].dst = s
      BY <2>2, <1>4 DEF Taken, Routed
    <3> QED BY <3>1, <1>3, <1>6
  <2> QED BY <2>1, <2>2
<1> QED BY <1>5, <1>6

(***************************************************************************)
(* The subnets                                                             *)
(***************************************************************************)

\* What is chosen and not yet created: aligned subnets of the size now configured, none
\* of which overlaps another that is registered and was chosen under it or found free.
ChosenOK ==
  /\ config \in RawConfigs /\ chosen \subseteq Subnet /\ stray \subseteq Taken
  /\ chosen # {} => Accepted(config)
  /\ \A s \in chosen :
       /\ s.len = Config(config).len /\ Aligned(s.ip, s.len)
       /\ \A t \in Taken \ stray : s # t => ~Overlaps(s, t)

ChosenInv == RoutesInv /\ ChosenOK /\ Disjoint

\* Overlapping is mutual.
LEMMA OverlapsMutual == ASSUME NEW s, NEW t PROVE Overlaps(s, t) <=> Overlaps(t, s)
<1> QED BY DEF Overlaps

\* A step of the registry changes the registration of l.subnet alone.
LEMMA RegisterTaken ==
  ASSUME RoutesInv, NEW l \in Lease, Register(l)
  PROVE  l.subnet \in Subnet /\ Taken' = Taken \cup {l.subnet}
<1>1. reg \in [Subnet -> Lease \cup {NoLease}] /\ l.subnet \in Subnet /\ l # NoLease
  BY LeaseAssumption DEF RoutesInv, EventsInv, EventsOK
<1>2. reg' = [reg EXCEPT ![l.subnet] = l]
  BY DEF Register
<1> QED BY <1>1, <1>2 DEF Taken

\* A host chooses: only from what is free;
LEMMA ChosenChoose ==
  ASSUME ChosenInv, Choose
  PROVE  ChosenOK' /\ Disjoint'
<1>1. PICK s \in Choosable(Config(config), Taken) : chosen' = chosen \cup {s}
  BY DEF Choose
<1>2. /\ Accepted(config) /\ config \in RawConfigs /\ UNCHANGED <<reg, config, stray>>
      /\ Taken \in SUBSET Subnet
  BY DEF Choose, ChosenInv, ChosenOK, Taken
<1>3. s \in Subnet
  BY <1>2, SubnetsAssumption
<1>4. /\ s.len = Config(config).len /\ Aligned(s.ip, s.len)
      /\ \A t \in Taken : ~Overlaps(s, t)
  BY <1>2, ChoiceFacts
<1>5. Taken' = Taken
  BY <1>2 DEF Taken
<1> QED BY <1>1, <1>2, <1>3, <1>4, <1>5 DEF ChosenInv, ChosenOK, Disjoint

\* it registers what it has chosen, which then is free to no other;
LEMMA ChosenCreate ==
  ASSUME ChosenInv, NEW l \in Lease, Create(l)
  PROVE  ChosenOK' /\ Disjoint'
<1>1. PICK s \in chosen : s = l.subnet /\ s \notin Taken /\ chosen' = chosen \ {s}
  BY DEF Create
<1>2. UNCHANGED <<config, stray>> /\ Taken' = Taken \cup {s} /\ s \in Subnet
  BY <1>1, RegisterTaken DEF Create, ChosenInv
<1>3. \A t \in Taken \ stray : ~Overlaps(s, t) /\ ~Overlaps(t, s)
  BY <1>1, OverlapsMutual DEF ChosenInv, ChosenOK
<1>4. \A t \in chosen' : ~Overlaps(t, s)
  BY <1>1, AlignedOverlap, SubnetsAssumption DEF ChosenInv, ChosenOK
<1> QED BY <1>1, <1>2, <1>3, <1>4 DEF ChosenInv, ChosenOK, Disjoint

\* a registration is renewed, or there is none of those that count;
LEMMA ChosenRegistered ==
  ASSUME ChosenInv, NEW l \in Lease, Renewed(l) \/ CreateLate(l)
  PROVE  ChosenOK' /\ Disjoint'
<1>1. /\ Taken' = Taken \cup {l.subnet} /\ UNCHANGED <<config, chosen>>
      /\ stray' = IF l.subnet \in Taken THEN stray ELSE stray \cup {l.subnet}
  BY RegisterTaken DEF Renewed, CreateLate, overlay, ChosenInv
<1>2. Taken' \ stray' \subseteq Taken \ stray /\ stray' \subseteq Taken'
  BY <1>1 DEF ChosenInv, ChosenOK
<1> QED BY <1>1, <1>2 DEF ChosenInv, ChosenOK, Disjoint

\* a registration ends.
LEMMA ChosenEnded ==
  ASSUME ChosenInv, NEW s \in Subnet, Ended(s)
  PROVE  ChosenOK' /\ Disjoint'
<1>1. stray' = stray \ {s} /\ UNCHANGED <<config, chosen>>
  BY DEF Ended
<1>2. Taken' = Taken \ {s}
  <2>1. reg \in [Subnet -> Lease \cup {NoLease}]
    BY DEF ChosenInv, RoutesInv, EventsInv, EventsOK
  <2>2. reg' = [reg EXCEPT ![s] = NoLease]
    BY <2>1 DEF Ended, Gone, Unregister, DeleteUnknown
  <2> QED BY <2>1, <2>2 DEF Taken
<1> QED BY <1>1, <1>2 DEF ChosenInv, ChosenOK, Disjoint

\* Every step keeps the invariant,
LEMMA ChosenKept == ChosenInv /\ [Next]_vars => ChosenInv'
<1> SUFFICES ASSUME ChosenInv, [Next]_vars PROVE ChosenInv'
  OBVIOUS
<1>1. RoutesInv'
  BY RoutesKept DEF ChosenInv
<1>2. CASE \E l \in Lease : Create(l) \/ Renewed(l) \/ CreateLate(l)
  BY <1>1, <1>2, ChosenCreate, ChosenRegistered DEF ChosenInv
<1>3. CASE Choose
  BY <1>1, <1>3, ChosenChoose DEF ChosenInv
<1>4. CASE \E s \in Subnet : Ended(s)
  BY <1>1, <1>4, ChosenEnded DEF ChosenInv
<1>5. CASE \E raw \in RawConfigs : Reconfigure(raw)
  BY <1>1, <1>5 DEF Reconfigure, ChosenInv, ChosenOK, Disjoint, Taken
<1>6. CASE UNCHANGED <<reg, overlay>>
  BY <1>1, <1>6 DEF overlay, ChosenInv, ChosenOK, Disjoint, Taken
<1>7. CASE Restart /\ UNCHANGED <<routes, overlay>>
  BY <1>6, <1>7 DEF Restart
<1>8. CASE (\E e \in Events : HandlePut(e) \/ HandleDelete(e)) \/ Stop \/ UNCHANGED vars
  BY <1>6, <1>8 DEF HandlePut, HandleDelete, Handled, Stop, Die, vars
<1> QED BY <1>2, <1>3, <1>4, <1>5, <1>7, <1>8 DEF Next, Hosts

\* and it always holds.
LEMMA ChosenAlways == Spec => []ChosenInv
<1>1. ASSUME Init, RoutesInv PROVE ChosenInv
  <2>1. Taken = {} /\ chosen = {} /\ stray = {} /\ config \in RawConfigs
    BY <1>1 DEF Init, Taken
  <2> QED BY <2>1, <1>1 DEF ChosenInv, ChosenOK, Disjoint
<1>2. Init /\ RoutesInv => ChosenInv
  BY <1>1
<1> QED BY <1>2, RoutesAlways, ChosenKept, PTL DEF Spec

(***************************************************************************)
(* Subnets within the network                                              *)
(***************************************************************************)

\* Powers multiply.
LEMMA Pow2Adds ==
  ASSUME NEW a \in 0..Width, NEW b \in 0..Width, a + b <= Width
  PROVE  Pow2[a + b] = Pow2[a] * Pow2[b] /\ Pow2[a] \in Nat \ {0}
<1> DEFINE P == {n \in 0..b : Pow2[a + n] = Pow2[a] * Pow2[n]}
<1>1. Width \in Nat /\ Pow2[a] \in Nat
  BY WidthAssumption, Pow2Facts
<1>2. 0 \in P
  BY <1>1, Pow2Facts
<1>3. ASSUME NEW n \in 1..b, n - 1 \in P PROVE n \in P
  <2>1. /\ n \in 1..Width /\ n - 1 \in 0..Width /\ a + n \in 1..Width /\ a + (n - 1) = (a + n) - 1
        /\ n \in 0..b
    BY <1>1
  <2>2. Pow2[a + n] = 2 * Pow2[(a + n) - 1] /\ Pow2[n] = 2 * Pow2[n - 1]
    BY <2>1, Pow2Facts
  <2>3. PICK x, y \in Nat : x = Pow2[a] /\ y = Pow2[n - 1]
    BY <2>1, <1>1, Pow2Facts
  <2>4. Pow2[(a + n) - 1] = x * y
    BY <1>3, <2>1, <2>3
  <2>5. 2 * (x * y) = x * (2 * y)
    BY <2>3
  <2> QED BY <2>1, <2>2, <2>3, <2>4, <2>5
<1>4. 0..b \subseteq P
  <2> HIDE DEF P
  <2> QED BY <1>2, <1>3, UpTo
<1>5. Pow2[a] # 0
  <2>1. Width - a \in 0..Width /\ Width - (Width - a) = a
    BY <1>1
  <2> QED BY <2>1, SpaceIsWhole
<1> QED BY <1>1, <1>4, <1>5

\* A larger size is a multiple of a smaller one.
LEMMA SizesDivide ==
  ASSUME NEW a \in 0..Width, NEW b \in 0..Width, a < b, b < Width
  PROVE  /\ Size(a) \in Nat /\ Size(b) \in Nat /\ Size(b) >= 2 /\ Size(b) < Size(a)
         /\ \E m \in Nat \ {0} : Size(a) = Size(b) * m
<1>1. Width \in Nat
  BY WidthAssumption
<1>2. /\ Width - b \in 1..Width /\ Width - b \in 0..Width /\ b - a \in 1..Width /\ b - a \in 0..Width
      /\ (Width - b) + (b - a) = Width - a /\ (Width - b) - 1 \in 0..Width /\ (b - a) - 1 \in 0..Width
  BY <1>1
<1>3. /\ Pow2[Width - b] = 2 * Pow2[(Width - b) - 1] /\ Pow2[b - a] = 2 * Pow2[(b - a) - 1]
      /\ Pow2[(Width - b) - 1] \in Nat /\ Pow2[(b - a) - 1] \in Nat
  BY <1>2, Pow2Facts
<1>4. /\ Pow2[Width - a] = Pow2[Width - b] * Pow2[b - a]
      /\ Pow2[Width - b] \in Nat \ {0} /\ Pow2[b - a] \in Nat \ {0}
  BY <1>1, <1>2, Pow2Adds
<1>5. PICK s, m \in Nat : s = Pow2[Width - b] /\ m = Pow2[b - a] /\ s >= 2 /\ m >= 2
  BY <1>3, <1>4
<1>6. s * m > s /\ s * m \in Nat
  BY <1>5
<1> QED BY <1>4, <1>5, <1>6 DEF Size

\* The multiples of a size are what it divides.
LEMMA Multiple ==
  ASSUME NEW z \in Nat \ {0}, NEW x \in Int
  PROVE  x % z = 0 <=> \E d \in Int : x = d * z
<1>1. x = (x \div z) * z + (x % z) /\ x \div z \in Int
  OBVIOUS
<1>2. \A d \in Int : (d * z) % z = 0
  OBVIOUS
<1>3. ASSUME x % z = 0 PROVE \E d \in Int : x = d * z
  <2>1. x = (x \div z) * z
    BY <1>1, <1>3
  <2> QED BY <2>1, <1>1
<1>4. ASSUME NEW d \in Int, x = d * z PROVE x % z = 0
  BY <1>2, <1>4
<1> QED BY <1>3, <1>4

\* The multiples of a size: a network's addresses begin at one and go on up to the next.
LEMMA Blocks ==
  ASSUME NEW N \in Nat \ {0}, NEW n \in Int, n % N = 0, NEW x \in Int
  PROVE  /\ x - (x % N) = n <=> n <= x /\ x < n + N
         /\ x % N = 0 /\ n < x => n + N <= x
<1>1. PICK p, q, r \in Int : n = p * N /\ x = q * N + r /\ 0 <= r /\ r < N /\ x % N = r
  <2>1. n = (n \div N) * N + (n % N) /\ n \div N \in Int
    OBVIOUS
  <2>2. x = (x \div N) * N + (x % N) /\ x \div N \in Int /\ x % N \in 0..(N - 1)
    OBVIOUS
  <2> QED BY <2>1, <2>2
<1>2. p < q => p * N + N <= q * N
  <2>1. p < q => (q - p - 1) * N >= 0
    BY <1>1
  <2>2. (q - p - 1) * N = q * N - p * N - N
    BY <1>1
  <2> QED BY <2>1, <2>2, <1>1
<1>3. q < p => q * N + N <= p * N
  <2>1. q < p => (p - q - 1) * N >= 0
    BY <1>1
  <2>2. (p - q - 1) * N = p * N - q * N - N
    BY <1>1
  <2> QED BY <2>1, <2>2, <1>1
<1>4. p * N \in Int /\ q * N \in Int
  BY <1>1
<1>5. p = q \/ p < q \/ q < p
  BY <1>1
<1> QED BY <1>1, <1>2, <1>3, <1>4, <1>5

\* An address between them is of the network that begins at the first.
LEMMA InBlock ==
  ASSUME NEW N \in Nat \ {0}, NEW n \in Int, n % N = 0, NEW x \in Int, n <= x, x < n + N
  PROVE  x - (x % N) = n
<1> QED BY Blocks

\* Wrapping by a space leaves what is in it alone.
LEMMA NoWrap == ASSUME NEW S \in Nat \ {0}, NEW x \in 0..(S - 1) PROVE x % S = x /\ (x - S) % S = x
<1>1. S \in Int /\ S > 0 /\ x \in Int /\ 0 <= x /\ x < S
  OBVIOUS
<1>2. x % S = x
  BY <1>1
<1>3. (x - S) % S = x
  <2>1. x - S = (0 - 1) * S + x
    BY <1>1
  <2> QED BY <2>1, <1>1
<1> QED BY <1>2, <1>3

\* The bounds of an accepted configuration lie in its network, if that is written without
\* bits beyond its prefix and the last subnet is not the last of the address space.
LEMMA BoundsWithin ==
  ASSUME NEW raw \in RawConfig, Accepted(raw), NetworkOf(raw.net) = raw.net.ip,
         Config(raw).max # Space - Size(Config(raw).len)
  PROVE  LET c == Config(raw)
             n == raw.net.ip
             N == Size(raw.net.len)
             S == Size(c.len)
         IN  /\ c.len \in 0..Width /\ raw.net.len < c.len /\ c.len < Width /\ raw.net.len \in 0..Width
             /\ n \in Nat /\ n % N = 0 /\ n + N <= Space
             /\ c.min \in n..(n + N - 1) /\ c.max \in n..(n + N - 1)
             /\ c.min % S = 0 /\ c.max % S = 0
<1> DEFINE c == Config(raw)
           len == c.len
           n == raw.net.ip
           N == Size(raw.net.len)
           S == Size(len)
<1>1. /\ raw.net \in Net /\ raw.subnetLen \in Nat /\ raw.min \in {None} \cup Address
      /\ raw.max \in {None} \cup Address /\ raw.net.len \in 0..Width /\ n \in Address
  BY DEF RawConfig, Net
<1>2. len \in 0..Width /\ raw.net.len < len /\ len < Width
  <2>1. LenFits(raw) /\ len = SubnetLen(raw)
    BY DEF Accepted, Config
  <2> QED BY <2>1, <1>1, WidthAssumption DEF LenFits, SubnetLen
<1>3. /\ N \in Nat \ {0} /\ S \in Nat /\ S >= 2 /\ S < N
      /\ Space \in Nat \ {0} /\ Space % N = 0 /\ N <= Space /\ Space % S = 0
      /\ raw.net.len = 0 => N = Space
  <2>1. /\ N \in Nat \ {0} /\ Pow2[raw.net.len] \in Nat \ {0} /\ Space = N * Pow2[raw.net.len]
    BY <1>1, SpaceIsWhole
  <2>2. S \in Nat /\ S >= 2 /\ S < N
    BY <1>1, <1>2, SizesDivide
  <2>3. PICK k, m \in Nat \ {0} : k = N /\ m = Pow2[raw.net.len] /\ Space = k * m
    BY <2>1
  <2>4. (k * m) % k = 0 /\ k <= k * m /\ k * m \in Nat \ {0}
    BY <2>3
  <2>5. raw.net.len = 0 => m = 1
    BY <2>3, Pow2Facts
  <2>6. Space % S = 0
    <3>1. PICK j, l \in Nat \ {0} : j = S /\ l = Pow2[len] /\ Space = j * l
      BY <1>2, SpaceIsWhole
    <3>2. (j * l) % j = 0
      BY <3>1
    <3> QED BY <3>1, <3>2
  <2> QED BY <2>1, <2>2, <2>3, <2>4, <2>5, <2>6
<1>4. n \in Nat /\ n < Space /\ n % N = 0 /\ n + N <= Space
  <2>1. n \in Nat /\ n < Space
    BY <1>1, <1>3 DEF Address
  <2>2. n % N = 0
    BY <2>1, <1>3 DEF NetworkOf
  <2> QED BY <2>1, <2>2, <1>3, Blocks
<1>5. ASSUME NEW ip \in Address, HasAddress(raw.net, ip)
      PROVE  ip \in n..(n + N - 1)
  <2>1. ip \in Nat /\ ip - (ip % N) = n
    BY <1>5, <1>1, <1>3 DEF HasAddress, NetworkOf, Net, Address
  <2>2. n <= ip /\ ip < n + N
    BY <2>1, <1>3, <1>4, Blocks
  <2> QED BY <2>1, <2>2, <1>3, <1>4
<1>6. c.min % S = 0 /\ c.max % S = 0
  BY DEF Accepted, Aligned
<1>7. c.min \in n..(n + N - 1)
  <2>1. CASE raw.min = None
    <3>1. c.min = (n + S) % Space
      BY <2>1 DEF Config
    <3>2. n + S \in 0..(Space - 1)
      BY <1>3, <1>4
    <3>3. c.min = n + S
      BY <3>1, <3>2, <1>3, NoWrap
    <3> QED BY <3>3, <1>3, <1>4
  <2>2. CASE raw.min # None
    BY <2>2, <1>1, <1>5 DEF Config, Accepted
  <2> QED BY <2>1, <2>2
<1>8. c.max \in n..(n + N - 1)
  <2>1. CASE raw.max # None
    BY <2>1, <1>1, <1>5 DEF Config, Accepted
  <2>2. CASE raw.max = None /\ raw.net.len = 0
    <3>1. N = Space /\ n = 0
      BY <2>2, <1>3, <1>4
    <3>2. NextNetwork(raw.net).ip = 1
      <4>1. NextNetwork(raw.net).ip = (n + 1) % Space
        BY <2>2, <1>1 DEF NextNetwork, Net
      <4> QED BY <4>1, <3>1, <1>3, NoWrap
    <3>3. c.max = (1 - S) % Space
      BY <2>2, <3>2 DEF Config
    <3>4. c.max = Space + 1 - S
      <4>1. Space + 1 - S \in 0..(Space - 1) /\ 1 - S = (Space + 1 - S) - Space
        BY <3>1, <1>3
      <4> QED BY <4>1, <3>3, <1>3, NoWrap
    <3>5. c.max + S <= Space
      <4>1. c.max \in Int /\ c.max < Space /\ c.max % S = 0
        BY <3>1, <3>4, <1>3, <1>6
      <4> QED BY <4>1, <1>3, Blocks
    <3> QED BY <3>4, <3>5, <1>3
  <2>3. CASE raw.max = None /\ raw.net.len # 0
    <3>1. c.max = (((n + N) % Space) - S) % Space
      BY <2>3, <1>1 DEF Config, NextNetwork, Net
    <3>2. CASE n + N = Space
      <4>1. c.max = (0 - S) % Space
        BY <3>1, <3>2, <1>3
      <4>2. c.max = Space - S
        <5>1. Space - S \in 0..(Space - 1) /\ 0 - S = (Space - S) - Space
          BY <1>3
        <5> QED BY <5>1, <4>1, <1>3, NoWrap
      <4> QED BY <4>2
    <3>3. CASE n + N < Space
      <4>1. n + N \in 0..(Space - 1) /\ (n + N) - S \in 0..(Space - 1)
        BY <3>3, <1>3, <1>4
      <4>2. (n + N) % Space = n + N
        BY <4>1, <1>3, NoWrap
      <4>3. c.max = ((n + N) - S) % Space
        BY <4>2, <3>1
      <4>4. ((n + N) - S) % Space = (n + N) - S
        BY <4>1, <1>3, NoWrap
      <4> QED BY <4>3, <4>4, <1>3, <1>4
    <3> QED BY <3>2, <3>3, <1>3, <1>4
  <2> QED BY <2>1, <2>2, <2>3
<1> QED BY <1>1, <1>2, <1>3, <1>4, <1>6, <1>7, <1>8

(***************************************************************************)
(* Theorems                                                                *)
(***************************************************************************)

\* The variables keep their types: a chosen subnet is one there is, and a registered
\* one stays with its lease.
THEOREM TypeCorrect == Spec => []TypeOK
<1>1. ChosenInv => TypeOK
  BY DEF ChosenInv, ChosenOK, RoutesInv, EventsInv, TypeOK
<1> QED BY <1>1, ChosenAlways, PTL

\* A packet goes where its address is registered, as soon as the events for the subnets
\* that have it are handled: for every address, not just those TLC tries.
THEOREM PacketsAreRouted == Spec => [](up => \A dst \in Address : ExactAt(dst))
<1>1. RoutesInv => (up => \A dst \in Address : ExactAt(dst))
  BY RoutesGiveExact
<1> QED BY <1>1, RoutesAlways, PTL

\* The same for the addresses TLC tries.
THEOREM EdgesAreRouted == Spec => []RoutesExact
<1>1. RoutesInv => RoutesExact
  BY RoutesGiveExact DEF RoutesExact
<1> QED BY <1>1, RoutesAlways, PTL

\* Whatever the configurations, the address width and the number of hosts, subnets do
\* not overlap unless one of them rests on what was so before.
THEOREM SubnetsAreDisjoint == Spec => []Disjoint
<1>1. ChosenInv => Disjoint
  BY DEF ChosenInv
<1> QED BY <1>1, ChosenAlways, PTL

\* No subnet outside the network is leased, for every address width and configuration, if
\* the Network is written without bits beyond its prefix and SubnetMax is not the last subnet
\* of the address space.
THEOREM SubnetsStayWithin ==
  ASSUME NEW raw \in RawConfig, Accepted(raw), NetworkOf(raw.net) = raw.net.ip,
         Config(raw).max # Space - Size(Config(raw).len),
         NEW taken, NEW s \in Choosable(Config(raw), taken),
         NEW ip \in Address, HasAddress(s, ip)
  PROVE  HasAddress(raw.net, ip)
<1> DEFINE c == Config(raw)
           n == raw.net.ip
           N == Size(raw.net.len)
           S == Size(c.len)
<1>1. /\ c.len \in 0..Width /\ raw.net.len < c.len /\ c.len < Width /\ raw.net.len \in 0..Width
      /\ n \in Nat /\ n % N = 0 /\ n + N <= Space
      /\ c.min \in n..(n + N - 1) /\ c.max \in n..(n + N - 1)
      /\ c.min % S = 0 /\ c.max % S = 0
  BY BoundsWithin
<1>2. /\ N \in Nat \ {0} /\ S \in Nat \ {0} /\ Pow2[c.len] \in Nat \ {0} /\ Space \in Nat \ {0}
      /\ Space % S = 0 /\ (n + N) % S = 0
  <2>1. /\ N \in Nat \ {0} /\ Pow2[raw.net.len] \in Nat \ {0} /\ Space = N * Pow2[raw.net.len]
        /\ S \in Nat \ {0} /\ Pow2[c.len] \in Nat \ {0} /\ Space = S * Pow2[c.len]
    BY <1>1, SpaceIsWhole
  <2>2. PICK m \in Nat \ {0} : N = S * m
    BY <1>1, SizesDivide
  <2>3. PICK k \in Int : n = k * N
    <3>1. PICK y \in Nat \ {0}, x \in Int : y = N /\ x = n /\ x % y = 0
      BY <1>1, <2>1
    <3>2. \E k \in Int : x = k * y
      BY <3>1, Multiple
    <3> QED BY <3>1, <3>2
  <2>4. PICK z \in Nat \ {0}, p \in Nat \ {0} : z = S /\ p = Pow2[c.len] /\ Space = z * p
    BY <2>1
  <2>5. n + N = (k * m + m) * z
    BY <2>2, <2>3, <2>4
  <2>6. Space = p * z /\ p \in Int /\ k * m + m \in Int
    BY <2>4, <2>2
  <2>7. (n + N) % z = 0 /\ Space % z = 0
    <3>1. n + N \in Int /\ Space \in Int
      BY <1>1, <2>1, <2>4
    <3> QED BY <3>1, <2>4, <2>5, <2>6, Multiple
  <2> QED BY <2>1, <2>4, <2>7
<1>3. c.max + S < Space
  <2>1. c.max \in Int /\ c.max < Space /\ c.max % S = 0
    BY <1>1, <1>2
  <2>2. c.max + S <= Space
    BY <2>1, <1>2, Blocks
  <2> QED BY <2>1, <2>2, <1>2
<1>4. PICK k \in 0..(Pow2[c.len] - 1) :
        /\ s = [ip |-> (c.min + k * S) % Space, len |-> c.len]
        /\ \A j \in 0..k : (c.min + j * S) % Space <= c.max
  BY DEF Choosable
<1>5. k \in Nat /\ c.min \in Nat /\ c.max \in Nat
  BY <1>1, <1>2, <1>4
<1> DEFINE P == {j \in 0..k : c.min + j * S <= c.max}
<1>6. 0 \in P
  <2>1. c.min \in 0..(Space - 1) /\ 0 \in 0..k /\ c.min + 0 * S = c.min
    BY <1>1, <1>2, <1>5
  <2>2. c.min % Space = c.min
    BY <2>1, <1>2, NoWrap
  <2> QED BY <2>1, <2>2, <1>4
<1>7. ASSUME NEW j \in 1..k, j - 1 \in P PROVE j \in P
  <2>1. c.min + j * S = (c.min + (j - 1) * S) + S /\ c.min + j * S \in Nat
    BY <1>2, <1>5
  <2>2. c.min + j * S \in 0..(Space - 1)
    BY <2>1, <1>2, <1>3, <1>5, <1>7
  <2>3. (c.min + j * S) % Space = c.min + j * S
    BY <2>2, <1>2, NoWrap
  <2> QED BY <2>3, <1>4, <1>5
<1>8. c.min + k * S <= c.max /\ c.min + k * S \in Nat
  <2>1. 0..k \subseteq P
    <3> HIDE DEF P
    <3> QED BY <1>5, <1>6, <1>7, UpTo
  <2>2. k \in P
    BY <2>1, <1>5
  <2> QED BY <2>2, <1>2, <1>5
<1>9. s.ip = c.min + k * S /\ s.len = c.len
  <2>1. c.min + k * S \in 0..(Space - 1)
    BY <1>1, <1>2, <1>8
  <2>2. (c.min + k * S) % Space = c.min + k * S
    BY <2>1, <1>2, NoWrap
  <2> QED BY <2>2, <1>4
<1>10. s.ip \in Nat /\ n <= s.ip /\ s.ip < n + N /\ s.ip % S = 0
  <2>1. s.ip \in Nat /\ n <= s.ip /\ s.ip < n + N
    BY <1>1, <1>2, <1>5, <1>8, <1>9
  <2>2. PICK z \in Nat \ {0} : z = S
    BY <1>2
  <2>3. PICK d \in Int : c.min = d * z
    <3>1. PICK x \in Int : x = c.min /\ x % z = 0
      BY <2>2, <1>1, <1>5
    <3>2. \E d \in Int : x = d * z
      BY <3>1, Multiple
    <3> QED BY <3>1, <3>2
  <2>4. s.ip = (d + k) * z /\ d + k \in Int
    BY <2>2, <2>3, <1>5, <1>9
  <2>5. s.ip % z = 0
    BY <2>1, <2>2, <2>4, Multiple
  <2> QED BY <2>1, <2>2, <2>5
<1>11. s.ip + S <= n + N
  <2>1. PICK z \in Nat \ {0}, x \in Int, y \in Int :
          z = S /\ x = s.ip /\ y = n + N /\ x % z = 0 /\ y % z = 0 /\ x < y
    <3>1. n + N \in Int
      BY <1>1, <1>2
    <3> QED BY <3>1, <1>2, <1>10
  <2>2. x + z <= y
    BY <2>1, Blocks
  <2> QED BY <2>1, <2>2
<1>12. ip \in Nat /\ s.ip <= ip /\ ip < s.ip + S
  <2>1. ip \in Nat /\ ip - (ip % S) = s.ip - (s.ip % S)
    BY <1>2, <1>4, <1>9 DEF HasAddress, NetworkOf, Address
  <2>2. ip - (ip % S) = s.ip
    BY <2>1, <1>10
  <2>3. PICK z \in Nat \ {0}, x \in Int : z = S /\ x = s.ip /\ x % z = 0 /\ ip - (ip % z) = x
    BY <2>2, <1>2, <1>10
  <2>4. x <= ip /\ ip < x + z
    BY <2>1, <2>3, Blocks
  <2> QED BY <2>1, <2>3, <2>4
<1>13. ip - (ip % N) = n
  <2>1. n <= ip /\ ip < n + N
    BY <1>1, <1>2, <1>10, <1>11, <1>12
  <2>2. PICK z \in Nat \ {0}, x \in Int : z = N /\ x = n /\ x % z = 0 /\ x <= ip /\ ip < x + z
    BY <2>1, <1>1, <1>2
  <2>3. PICK y \in Int : y = ip /\ x <= y /\ y < x + z
    BY <2>2, <1>12
  <2>4. y - (y % z) = x
    BY <2>2, <2>3, InBlock
  <2> QED BY <2>2, <2>3, <2>4
<1> QED BY <1>13 DEF HasAddress, NetworkOf, RawConfig, Net
==============================================================================
