-------------------------- MODULE VxlanNetwork_proofs --------------------------
(***************************************************************************)
(* Proofs about the VXLAN backend, for any subnets of any sizes, leases,   *)
(* MACs, configurations and setups of the device: its run loop             *)
(* (VxlanNetwork), and what it tells of its device (VxlanHost). The two    *)
(* specifications have no variable in common.                              *)
(***************************************************************************)
EXTENDS VxlanNetwork, VxlanHost, LeaseEvents_proofs, InductionFacts

(***************************************************************************)
(* What is told of the device                                              *)
(***************************************************************************)

Device == [setup : Setup, mac : OwnMac, addrs : SUBSET OwnSubnet]

\* Nobody but this daemon, as it has its device, says the MAC of this host.
True(d) == d \in {device.mac, Nothing, Stranger}

\* From its registration on the daemon has told etcd of the device it has, and its lease
\* and its own watch say the same, until it has renewed too early.
HostInv ==
  /\ HostOK
  /\ ~early =>
       /\ phase \in {"leased", "run"} => True(data[own])
       /\ phase \in {"found", "chosen", "leased", "run"} /\ fresh => True(mac)
       /\ \A i \in DOMAIN told : True(told[i])
  /\ AddressTrue

\* The invariant at the start.
LEMMA HostStart == HostInit => HostInv
<1> SUFFICES ASSUME HostInit PROVE HostInv
  OBVIOUS
<1>1. told = <<>> /\ told \in Seq(OwnMac \cup {Nothing, Stranger})
  BY DEF HostInit
<1>2. data \in [OwnSubnet -> OwnMac \cup {Nothing, Stranger}]
  BY DEF HostInit
<1>3. HostOK
  BY <1>1, <1>2 DEF HostInit, HostOK
<1> QED BY <1>1, <1>3 DEF HostInit, HostInv, AddressTrue

\* What a device that is there is.
LEMMA DeviceFacts ==
  ASSUME HostOK, device # NoDevice
  PROVE  device \in Device /\ device.mac \in OwnMac /\ device.addrs \subseteq OwnSubnet
BY DEF HostOK, Device

\* A change of a registration that says nothing false of the device keeps the invariant,
\* whatever becomes of the phase, the lease and the history that is not told of here.
LEMMA ChangeKeeps ==
  ASSUME HostOK, NEW s \in OwnSubnet, NEW d \in OwnMac \cup {Nothing, Stranger}, Change(s, d)
  PROVE  /\ data' \in [OwnSubnet -> OwnMac \cup {Nothing, Stranger}]
         /\ data'[s] = d /\ \A t \in OwnSubnet : t # s => data'[t] = data[t]
         /\ told' \in Seq(OwnMac \cup {Nothing, Stranger})
         /\ watch # "on" => told' = told
         /\ \A i \in DOMAIN told' : told'[i] = d \/ (i \in DOMAIN told /\ told'[i] = told[i])
<1>1. /\ data' \in [OwnSubnet -> OwnMac \cup {Nothing, Stranger}]
      /\ data'[s] = d /\ \A t \in OwnSubnet : t # s => data'[t] = data[t]
  BY DEF Change, HostOK
<1>2. told \in Seq(OwnMac \cup {Nothing, Stranger})
  BY DEF HostOK
<1>3. CASE told' = told
  BY <1>1, <1>2, <1>3
<1>4. CASE watch = "on" /\ told' = Append(told, d)
  <2>1. /\ told' \in Seq(OwnMac \cup {Nothing, Stranger})
        /\ \A i \in DOMAIN told' : told'[i] = d \/ (i \in DOMAIN told /\ told'[i] = told[i])
    BY <1>2, <1>4
  <2> QED BY <1>1, <1>4, <2>1
<1> QED BY <1>3, <1>4 DEF Change

\* The steps of etcd and of other hosts.
LEMMA HostEtcd ==
  ASSUME HostInv, EtcdStep
  PROVE  HostInv'
<1>1. ASSUME NEW c \in Conf, Reconfigure(c) PROVE HostInv'
  BY <1>1 DEF HostInv, HostOK, AddressTrue, True, Reconfigure, lease, ownWatch
<1>2. ASSUME NEW s \in OwnSubnet, NEW d \in {Nothing, Stranger}, Change(s, d),
             UNCHANGED <<conf, device, phase, main, lease, watch, early>>
      PROVE  HostInv'
  <2>1. /\ data' \in [OwnSubnet -> OwnMac \cup {Nothing, Stranger}]
        /\ data'[s] = d /\ \A t \in OwnSubnet : t # s => data'[t] = data[t]
        /\ told' \in Seq(OwnMac \cup {Nothing, Stranger})
        /\ watch # "on" => told' = told
        /\ \A i \in DOMAIN told' : told'[i] = d \/ (i \in DOMAIN told /\ told'[i] = told[i])
    BY <1>2, ChangeKeeps DEF HostInv
  <2>2. HostOK'
    BY <1>2, <2>1 DEF HostInv, HostOK, lease
  <2>3. own \in OwnSubnet /\ UNCHANGED <<device, phase, own, mac, fresh, early, main>>
    BY <1>2 DEF HostInv, HostOK, lease
  <2>4. AddressTrue'
    BY <2>3 DEF HostInv, AddressTrue
  <2>5. ASSUME ~early PROVE phase \in {"leased", "run"} => True(data[own])'
    BY <2>1, <2>3, <2>5 DEF HostInv, True
  <2>6. ASSUME ~early PROVE \A i \in DOMAIN told' : True(told[i])'
    BY <2>1, <2>3, <2>6 DEF HostInv, True
  <2>7. ASSUME ~early PROVE phase \in {"found", "chosen", "leased", "run"} /\ fresh => True(mac)'
    BY <2>3, <2>7 DEF HostInv, True
  <2> QED BY <2>2, <2>3, <2>4, <2>5, <2>6, <2>7 DEF HostInv
<1>3. ASSUME NEW s \in OwnSubnet, Expire(s) \/ Usurp(s) PROVE HostInv'
  BY <1>2, <1>3 DEF Expire, Usurp
<1> QED BY <1>1, <1>3 DEF EtcdStep

\* The steps of the start.
LEMMA HostStarts ==
  ASSUME HostInv, StartStep
  PROVE  HostInv'
<1>1. CASE ReadMain
  BY <1>1 DEF HostInv, HostOK, AddressTrue, True, ReadMain, etcd, lease, ownWatch
<1>2. CASE KeepLink
  BY <1>2 DEF HostInv, HostOK, AddressTrue, True, KeepLink, etcd, lease, ownWatch
<1>3. CASE DeleteLink
  BY <1>3 DEF HostInv, HostOK, AddressTrue, True, DeleteLink, etcd, lease, ownWatch
<1>4. ASSUME NEW m \in OwnMac, AddLink(m) PROVE HostInv'
  <2>1. main.setup \in Setup
    BY ConfAssumption DEF HostInv, HostOK
  <2>2. device' \in Device /\ device' # NoDevice
    BY <1>4, <2>1, DeviceAssumption DEF AddLink, Device
  <2> QED BY <1>4, <2>2 DEF HostInv, HostOK, AddressTrue, True, AddLink, Device, etcd, lease, ownWatch
<1>5. ASSUME NEW s \in OwnSubnet, Reuse(s) PROVE HostInv'
  BY <1>5 DEF HostInv, HostOK, AddressTrue, True, Reuse, Mine, etcd, ownWatch
<1>6. ASSUME NEW s \in OwnSubnet, Choose(s) PROVE HostInv'
  <2>1. device \in Device /\ device.mac \in OwnMac
    BY <1>6, DeviceFacts DEF HostInv, HostOK, Choose
  <2> QED BY <1>6, <2>1 DEF HostInv, HostOK, AddressTrue, True, Choose, etcd, ownWatch
<1>7. CASE PutLease
  <2>1. device \in Device /\ device.mac \in OwnMac /\ own \in OwnSubnet
    BY <1>7, DeviceFacts DEF HostInv, HostOK, PutLease
  <2>2. /\ data' \in [OwnSubnet -> OwnMac \cup {Nothing, Stranger}]
        /\ data'[own] = device.mac
        /\ watch = "none" /\ told' = told
    BY <1>7, <2>1, ChangeKeeps DEF PutLease, HostInv, HostOK
  <2> QED BY <1>7, <2>1, <2>2 DEF HostInv, HostOK, AddressTrue, True, PutLease, lease
<1>8. ASSUME NEW s \in OwnSubnet, DropAddress(s) PROVE HostInv'
  <2>1. device \in Device
    BY <1>8, DeviceFacts DEF HostInv, HostOK, DropAddress
  <2>2. device' \in Device /\ device' # NoDevice /\ device'.mac = device.mac
    BY <1>8, <2>1, DeviceAssumption DEF DropAddress, Device
  <2> QED BY <1>8, <2>2 DEF HostInv, HostOK, AddressTrue, True, DropAddress, Device, etcd, lease, ownWatch
<1>9. CASE AddAddress
  <2>1. device \in Device /\ own \in OwnSubnet
    BY <1>9, DeviceFacts DEF HostInv, HostOK, AddAddress
  <2>2. /\ device' \in Device /\ device' # NoDevice /\ device'.mac = device.mac
        /\ device'.addrs = device.addrs \cup {own}
    BY <1>9, <2>1, DeviceAssumption DEF AddAddress, Device
  <2>3. AddressTrue'
    BY <1>9, <2>2 DEF AddAddress, AddressTrue, lease
  <2>4. HostOK'
    BY <1>9, <2>2 DEF HostInv, HostOK, AddAddress, Device, etcd, lease
  <2> QED BY <1>9, <2>2, <2>3, <2>4 DEF HostInv, True, AddAddress, etcd, lease
<1> QED BY <1>1, <1>2, <1>3, <1>4, <1>5, <1>6, <1>7, <1>8, <1>9 DEF StartStep

\* The steps of the running daemon.
LEMMA HostRuns ==
  ASSUME HostInv, RunStep
  PROVE  HostInv'
<1> DEFINE Word == OwnMac \cup {Nothing, Stranger}
<1>1. CASE Renew
  <2>1. own \in OwnSubnet /\ mac \in Word
    BY DEF HostInv, HostOK
  <2>2. /\ data' \in [OwnSubnet -> Word] /\ data'[own] = mac
        /\ told' \in Seq(Word)
        /\ \A i \in DOMAIN told' : told'[i] = mac \/ (i \in DOMAIN told /\ told'[i] = told[i])
    BY <1>1, <2>1, ChangeKeeps DEF Renew, HostInv
  <2>3. HostOK' /\ AddressTrue'
    BY <1>1, <2>2 DEF Renew, HostInv, HostOK, AddressTrue, lease
  <2>4. ASSUME ~early' PROVE ~early /\ True(mac)
    BY <1>1, <2>4 DEF Renew, HostInv, HostOK
  <2> QED BY <1>1, <2>2, <2>3, <2>4 DEF Renew, HostInv, True, lease
<1>2. CASE WatchGet
  <2>1. phase = "run" /\ own \in OwnSubnet /\ data[own] \in Word
    BY <1>2 DEF WatchGet, HostInv, HostOK
  <2>2. /\ told' \in Seq(Word) /\ watch' \in {"on", "off"}
        /\ \A i \in DOMAIN told' : told'[i] = data[own] \/ (i \in DOMAIN told /\ told'[i] = told[i])
    <3>1. CASE data[own] = Nothing
      BY <1>2, <3>1 DEF WatchGet, HostInv, HostOK
    <3>2. CASE data[own] # Nothing
      <4>1. told' = <<data[own]>> /\ watch' = "on"
        BY <1>2, <3>2 DEF WatchGet
      <4>2. told' \in Seq(Word) /\ DOMAIN told' = {1} /\ told'[1] = data[own]
        BY <2>1, <4>1
      <4> QED BY <4>1, <4>2
    <3> QED BY <3>1, <3>2
  <2>3. HostOK' /\ AddressTrue'
    BY <1>2, <2>1, <2>2 DEF WatchGet, HostInv, HostOK, AddressTrue, etcd, lease
  <2> QED BY <1>2, <2>1, <2>2, <2>3 DEF WatchGet, HostInv, True, etcd, lease
<1>3. CASE WatchFails
  BY <1>3 DEF HostInv, HostOK, AddressTrue, True, WatchFails, etcd, lease
<1>4. CASE Hear \/ DropExpiredPut
  <2>1. told \in Seq(Word) /\ told # <<>>
    BY <1>4 DEF HostInv, HostOK, Hear, DropExpiredPut
  <2>2. /\ told' \in Seq(Word) /\ 1 \in DOMAIN told /\ Head(told) = told[1] /\ Head(told) \in Word
        /\ \A i \in DOMAIN told' : i + 1 \in DOMAIN told /\ told'[i] = told[i + 1]
    BY <1>4, <2>1 DEF Hear, DropExpiredPut
  <2>3. UNCHANGED <<conf, data, device, phase, main, own, watch, early>>
    BY <1>4 DEF Hear, DropExpiredPut, etcd, lease
  <2>4. phase = "run"
    BY <2>1 DEF HostInv, HostOK
  <2>5. HostOK' /\ AddressTrue'
    BY <1>4, <2>2, <2>3, <2>4 DEF HostInv, HostOK, AddressTrue, Hear, DropExpiredPut, lease
  <2>6. ASSUME ~early PROVE fresh' => True(mac)'
    BY <1>4, <2>2, <2>3, <2>4, <2>6 DEF HostInv, True, Hear, DropExpiredPut, lease
  <2>7. ASSUME ~early PROVE \A i \in DOMAIN told' : True(told[i])'
    BY <2>2, <2>3, <2>7 DEF HostInv, True
  <2> QED BY <2>3, <2>5, <2>6, <2>7 DEF HostInv, True
<1> QED BY <1>1, <1>2, <1>3, <1>4 DEF RunStep

\* Every step keeps the invariant,
LEMMA HostKept == HostInv /\ [HostNext]_host => HostInv'
<1>1. ASSUME HostInv, Exit PROVE HostInv'
  <2>1. told' = <<>> /\ told' \in Seq(OwnMac \cup {Nothing, Stranger})
    BY <1>1 DEF Exit
  <2>2. HostOK'
    BY <1>1, <2>1 DEF HostInv, HostOK, Exit, etcd, lease
  <2> QED BY <1>1, <2>1, <2>2 DEF HostInv, AddressTrue, Exit
<1>2. ASSUME HostInv, UNCHANGED host PROVE HostInv'
  BY <1>2 DEF HostInv, HostOK, AddressTrue, True, host, etcd, lease, ownWatch
<1> QED BY <1>1, <1>2, HostEtcd, HostStarts, HostRuns DEF HostNext

\* and it always holds.
LEMMA HostAlways == HostSpec => []HostInv
<1> QED BY HostStart, HostKept, PTL DEF HostSpec

(***************************************************************************)
(* The tables                                                              *)
(***************************************************************************)

\* A change under way is that of the event at the head of the queue, and each table
\* that is done says what its lease says.
StepOK ==
  step # "idle" =>
    /\ up /\ queue # <<>> /\ Head(queue).type = "put" /\ Ours(Head(queue).lease)
    /\ arp[Head(queue).lease.subnet.ip] = Head(queue).lease.mac
    /\ step = "route" => fdb[Head(queue).lease.mac] = Head(queue).lease.ip

\* The tables say of a subnet what its registration says: its hop, if no other subnet
\* has taken it since.
Installed(s) ==
  /\ s \in route /\ fdb[reg[s].mac] = reg[s].ip
  /\ s \in last => arp[s.ip] = reg[s].mac

Follows ==
  up => \A s \in Subnet : reg[s] # NoLease /\ Ours(reg[s]) /\ ~Pending(s) => Installed(s)

VxlanInv == EventsInv /\ TypeOK /\ StepOK /\ Follows

\* A lease of this backend's is one of Lease, with a MAC.
LEMMA OursFacts ==
  ASSUME NEW e \in Events, Ours(e.lease)
  PROVE  /\ e.lease \in Lease /\ e.lease.mac \in Mac /\ e.lease.mac # NoMac
         /\ e.lease.ip \in Hosts /\ e.lease.ip # NoHost
         /\ e.lease.subnet \in Subnet /\ e.lease.subnet.ip \in Hop
<1>1. e.lease \in Lease
  <2>1. ASSUME e.lease = [subnet |-> e.lease.subnet] PROVE FALSE
    <3>1. DOMAIN e.lease = {"subnet"}
      BY <2>1
    <3> QED BY <3>1 DEF Ours
  <2> QED BY <2>1, EventFacts
<1>2. e.lease.subnet \in Subnet
  BY <1>1, LeaseAssumption
<1> QED BY <1>1, <1>2, TableAssumption DEF Ours, Hosts, Hop

\* The invariant of the tables at the start.
LEMMA VxlanStart == Init => VxlanInv
<1> SUFFICES ASSUME Init PROVE VxlanInv
  OBVIOUS
<1>1. EventsInv /\ ~up /\ step = "idle"
  BY EventsStart DEF Init, EventsInit
<1>2. TypeOK
  BY <1>1 DEF Init, TypeOK, EventsInv, NoArp, NoFdb
<1> QED BY <1>1, <1>2 DEF VxlanInv, StepOK, Follows

\* Each action keeps the invariant; the other hosts' steps:
LEMMA VxlanRegistry ==
  ASSUME VxlanInv, Registry, UNCHANGED <<tables, step, last>>
  PROVE  VxlanInv'
<1>1. RegistryStep
  BY RegistryKeeps DEF VxlanInv
<1>2. TypeOK' /\ StepOK'
  BY <1>1 DEF RegistryStep, VxlanInv, TypeOK, StepOK, EventsInv, tables, Hosts, Ours
<1>3. Follows'
  BY <1>1 DEF RegistryStep, VxlanInv, Follows, Installed, Ours, tables
<1> QED BY <1>1, <1>2, <1>3 DEF VxlanInv, RegistryStep

\* An event that the loop passes over.
LEMMA VxlanPass ==
  ASSUME VxlanInv, NEW e \in Events, Ignore(e) \/ HandleDelete(e)
  PROVE  VxlanInv'
<1>1. /\ Handling(e) /\ Handled /\ UNCHANGED <<tables, step, last>> /\ step = "idle"
      /\ ~(e.type = "put" /\ Ours(e.lease))
  BY DEF Ignore, HandleDelete
<1>2. /\ EventsInv' /\ UNCHANGED <<reg, up>>
      /\ \A s \in Subnet : s # e.lease.subnet => (Pending(s)' <=> Pending(s))
      /\ ~Pending(e.lease.subnet)' => Says(e, e.lease.subnet)
  BY <1>1, HandledKeeps DEF VxlanInv
<1>3. TypeOK' /\ StepOK'
  BY <1>1, <1>2 DEF VxlanInv, TypeOK, StepOK, EventsInv, tables
<1>4. Follows'
  <2> SUFFICES ASSUME up, NEW s \in Subnet, reg[s] # NoLease, Ours(reg[s]), ~Pending(s)'
               PROVE  Installed(s)
    BY <1>1, <1>2 DEF Follows, Ours, Installed, tables
  <2>1. CASE s # e.lease.subnet
    BY <2>1, <1>2 DEF VxlanInv, Follows
  <2>2. CASE s = e.lease.subnet
    BY <2>2, <1>1, <1>2 DEF Says, Put
  <2> QED BY <2>1, <2>2
<1> QED BY <1>2, <1>3, <1>4 DEF VxlanInv

\* The first request of a Put takes the hop.
LEMMA VxlanArp ==
  ASSUME VxlanInv, NEW e \in Events, AddArp(e)
  PROVE  VxlanInv'
<1>1. /\ Handling(e) /\ UNCHANGED <<events, route, fdb>> /\ step' = "fdb"
      /\ up /\ queue # <<>> /\ e = Head(queue) /\ e.type = "put" /\ Ours(e.lease)
      /\ last' = {t \in last : t.ip # e.lease.subnet.ip} \cup {e.lease.subnet}
  BY DEF AddArp, Handling, SetsHop
<1>2. e.lease \in Lease /\ e.lease.mac \in Mac /\ e.lease.subnet \in Subnet /\ e.lease.subnet.ip \in Hop
  BY <1>1, OursFacts
<1>3. EventsInv' /\ \A s \in Subnet : Pending(s)' <=> Pending(s)
  BY <1>1, EventsStutter DEF VxlanInv, events
<1>4. /\ arp' \in [Hop -> Mac \cup {NoMac}] /\ arp'[e.lease.subnet.ip] = e.lease.mac
      /\ \A h \in Hop : h # e.lease.subnet.ip => arp'[h] = arp[h]
  BY <1>2 DEF AddArp, VxlanInv, TypeOK
<1>5. TypeOK' /\ StepOK'
  BY <1>1, <1>2, <1>3, <1>4 DEF VxlanInv, TypeOK, StepOK, EventsInv, events, Ours
<1>6. Pending(e.lease.subnet)
  <2>1. queue \in Seq(Events)
    BY DEF VxlanInv, EventsInv, EventsOK
  <2>2. 1 \in DOMAIN queue /\ queue[1] = e
    BY <2>1, <1>1
  <2> QED BY <2>2 DEF Pending
<1>7. ASSUME up, NEW s \in Subnet, reg[s] # NoLease, Ours(reg[s]), ~Pending(s) PROVE Installed(s)'
  <2>1. Installed(s) /\ s # e.lease.subnet /\ s.ip \in Hop
    BY <1>6, <1>7 DEF VxlanInv, Follows, Hop
  <2>2. s \in last' => s \in last /\ s.ip # e.lease.subnet.ip
    BY <1>1, <2>1
  <2> QED BY <2>1, <2>2, <1>1, <1>4 DEF Installed, events
<1>8. Follows'
  BY <1>1, <1>3, <1>7 DEF Follows, Ours, events
<1> QED BY <1>3, <1>5, <1>8 DEF VxlanInv

\* The second tells the host behind the MAC.
LEMMA VxlanFdb ==
  ASSUME VxlanInv, NEW e \in Events, AddFdb(e)
  PROVE  VxlanInv'
<1>1. /\ Handling(e) /\ UNCHANGED <<events, route, arp, last>> /\ step = "fdb" /\ step' = "route"
      /\ up /\ queue # <<>> /\ e = Head(queue) /\ e.type = "put" /\ Ours(e.lease)
  BY DEF AddFdb, Handling, VxlanInv, StepOK
<1>2. /\ e.lease \in Lease /\ e.lease.mac \in Mac /\ e.lease.mac # NoMac
      /\ e.lease.subnet \in Subnet /\ e.lease.ip \in Hosts
  BY <1>1, OursFacts
<1>3. EventsInv' /\ \A s \in Subnet : Pending(s)' <=> Pending(s)
  BY <1>1, EventsStutter DEF VxlanInv, events
<1>4. /\ fdb' \in [Mac -> Hosts \cup {NoHost}] /\ fdb'[e.lease.mac] = e.lease.ip
      /\ \A m \in Mac : m # e.lease.mac => fdb'[m] = fdb[m]
  BY <1>2 DEF AddFdb, VxlanInv, TypeOK
<1>5. TypeOK' /\ StepOK'
  BY <1>1, <1>3, <1>4 DEF VxlanInv, TypeOK, StepOK, EventsInv, events, Ours
<1>6. ASSUME up, NEW s \in Subnet, reg[s] # NoLease, Ours(reg[s]), ~Pending(s) PROVE Installed(s)'
  <2>1. Installed(s) /\ reg[s] \in Lease /\ reg[s].mac # NoMac /\ reg[s].mac \in Mac /\ reg' = reg
    BY <1>1, <1>6, TableAssumption DEF VxlanInv, Follows, EventsInv, EventsOK, Ours, events
  <2>2. CASE reg[s].mac = e.lease.mac
    <3>1. reg[s].ip = e.lease.ip
      BY <2>1, <2>2, <1>2, MacAssumption
    <3> QED BY <3>1, <2>1, <2>2, <1>1, <1>4 DEF Installed
  <2>3. CASE reg[s].mac # e.lease.mac
    BY <2>1, <2>3, <1>1, <1>4 DEF Installed
  <2> QED BY <2>2, <2>3
<1>7. Follows'
  BY <1>1, <1>3, <1>6 DEF Follows, Ours, events
<1> QED BY <1>3, <1>5, <1>7 DEF VxlanInv

\* After the third the subnet's tables are all as its lease says.
LEMMA VxlanRoute ==
  ASSUME VxlanInv, NEW e \in Events, ReplaceRoute(e)
  PROVE  VxlanInv'
<1>1. /\ Handling(e) /\ Handled /\ UNCHANGED <<arp, fdb, last>> /\ step = "route" /\ step' = "idle"
      /\ e = Head(queue) /\ Ours(e.lease) /\ route' = route \cup {e.lease.subnet}
      /\ arp[e.lease.subnet.ip] = e.lease.mac /\ fdb[e.lease.mac] = e.lease.ip
  BY DEF ReplaceRoute, Handling, VxlanInv, StepOK
<1>2. /\ EventsInv' /\ UNCHANGED <<reg, up>> /\ e.lease.subnet \in Subnet
      /\ \A s \in Subnet : s # e.lease.subnet => (Pending(s)' <=> Pending(s))
      /\ ~Pending(e.lease.subnet)' => Says(e, e.lease.subnet)
  BY <1>1, HandledKeeps DEF VxlanInv
<1>3. TypeOK' /\ StepOK'
  BY <1>1, <1>2 DEF VxlanInv, TypeOK, StepOK, EventsInv
<1>4. ASSUME up, NEW s \in Subnet, reg[s] # NoLease, Ours(reg[s]), ~Pending(s)' PROVE Installed(s)'
  <2>1. CASE s # e.lease.subnet
    BY <2>1, <1>1, <1>2, <1>4 DEF VxlanInv, Follows, Installed
  <2>2. CASE s = e.lease.subnet
    <3>1. e.type = "put"
      BY <1>1 DEF VxlanInv, StepOK
    <3>2. e.lease = reg[s]
      BY <2>2, <3>1, <1>2, <1>4 DEF Says, Put
    <3> QED BY <2>2, <3>2, <1>1, <1>2 DEF Installed
  <2> QED BY <2>1, <2>2
<1>5. Follows'
  BY <1>2, <1>4 DEF Follows, Ours
<1> QED BY <1>2, <1>3, <1>5 DEF VxlanInv

\* The start of the loop, with a Put for every registered subnet.
LEMMA VxlanRestart ==
  ASSUME VxlanInv, Restart, UNCHANGED <<tables, step, last>>
  PROVE  VxlanInv'
<1>1. EventsInv' /\ up' /\ ~up /\ \A s \in Subnet : reg'[s] # NoLease => Pending(s)'
  BY RestartKeeps DEF VxlanInv
<1> QED BY <1>1 DEF VxlanInv, TypeOK, StepOK, Follows, EventsInv, tables

\* The end of the daemon, in mid-change or not, and of the device.
LEMMA VxlanDown ==
  ASSUME VxlanInv, Stop \/ ReplaceDevice
  PROVE  VxlanInv'
<1>1. CASE Stop
  <2>1. EventsInv' /\ ~up'
    BY <1>1, DieKeeps DEF Stop, VxlanInv
  <2> QED BY <1>1, <2>1 DEF VxlanInv, TypeOK, StepOK, Follows, EventsInv, Stop, tables
<1>2. CASE ReplaceDevice
  <2>1. EventsInv' /\ ~up' /\ step' = "idle"
    BY <1>2, EventsStutter DEF ReplaceDevice, VxlanInv, TypeOK, StepOK, events
  <2> QED BY <1>2, <2>1 DEF VxlanInv, TypeOK, StepOK, Follows, EventsInv, ReplaceDevice, NoArp, NoFdb
<1> QED BY <1>1, <1>2

\* Every step keeps the invariant,
LEMMA VxlanKept == VxlanInv /\ [Next]_vars => VxlanInv'
<1> SUFFICES ASSUME VxlanInv, [Next]_vars PROVE VxlanInv'
  OBVIOUS
<1>1. CASE (Registry \/ Restart) /\ UNCHANGED <<tables, step, last>>
  BY <1>1, VxlanRegistry, VxlanRestart
<1>2. ASSUME NEW e \in Events, Handle(e) PROVE VxlanInv'
  BY <1>2, VxlanPass, VxlanArp, VxlanFdb, VxlanRoute DEF Handle
<1>3. CASE ReplaceDevice \/ Stop
  BY <1>3, VxlanDown
<1>4. CASE UNCHANGED vars
  <2>1. EventsInv' /\ \A s \in Subnet : Pending(s)' <=> Pending(s)
    BY <1>4, EventsStutter DEF vars, events, VxlanInv
  <2> QED BY <1>4, <2>1 DEF vars, events, tables, VxlanInv, TypeOK, StepOK, Follows, Installed, Ours, EventsInv
<1> QED BY <1>1, <1>2, <1>3, <1>4 DEF Next

\* and it always holds.
LEMMA VxlanAlways == Spec => []VxlanInv
<1> QED BY VxlanStart, VxlanKept, PTL DEF Spec

(***************************************************************************)
(* The route that counts                                                   *)
(***************************************************************************)

\* Of two subnets of one size that have an address in common the hop is the same.
LEMMA SameHop ==
  ASSUME NEW s \in Subnet, NEW t \in Subnet, s.len = t.len, NEW ip \in Address,
         HasAddress(s, ip), HasAddress(t, ip)
  PROVE  s.ip = t.ip
<1>1. s \in Net /\ t \in Net /\ Aligned(s.ip, s.len) /\ Aligned(t.ip, t.len)
  BY AlignedAssumption
<1>2. [s EXCEPT !.ip = ip] = [t EXCEPT !.ip = ip]
  BY <1>1 DEF Net
<1>3. NetworkOf(s) = NetworkOf(t)
  BY <1>2 DEF HasAddress
<1>4. s.ip \in Int /\ t.ip \in Int
  BY <1>1 DEF Net, Address
<1> QED BY <1>1, <1>3, <1>4 DEF NetworkOf, Aligned

\* Among routes there is a longest one.
LEMMA LongestFacts ==
  ASSUME NEW R, R \subseteq Subnet, R # {}
  PROVE  Longest(R) \in R /\ \A u \in R : u.len <= Longest(R).len
<1> DEFINE T == {t.len : t \in R}
<1>1. Width \in Nat /\ T \subseteq 0..Width /\ T # {}
  BY AlignedAssumption, WidthAssumption DEF Net
<1>2. PICK m \in T : \A k \in T : k <= m
  <2> HIDE DEF T
  <2> QED BY <1>1, Greatest
<1>3. \E t \in R : \A u \in R : u.len <= t.len
  BY <1>2
<1> QED BY <1>3 DEF Longest

(***************************************************************************)
(* Theorems                                                                *)
(***************************************************************************)

\* The variables keep their types.
THEOREM TypeCorrect == Spec => []TypeOK
<1>1. VxlanInv => TypeOK
  BY DEF VxlanInv
<1> QED BY <1>1, VxlanAlways, PTL

\* Once its events are handled each address of a subnet of a vxlan host is reached
\* through all three tables, whatever earlier lives of the daemon left in them, but for
\* what a subnet of another size takes from it.
THEOREM SubnetsAreReached == Spec => []Reachable
<1>1. VxlanInv => Reachable
  <2> SUFFICES ASSUME VxlanInv, up, NEW s \in Subnet, reg[s] # NoLease, Ours(reg[s]), ~Pending(s),
                      s \in last, NEW ip \in Undiverted(s)
               PROVE  Destination(ip) = reg[s].ip
    BY DEF Reachable
  <2> DEFINE R == Matching(ip)
             t == Longest(R)
  <2>1. Installed(s) /\ reg[s].mac # NoMac
    BY DEF VxlanInv, Follows, Ours
  <2>2. ip \in Addresses[s] /\ \A u \in route : u.len > s.len /\ ip \in Addresses[u] => u.ip = s.ip
    BY DEF Undiverted
  <2>3. s \in R /\ R \subseteq Subnet
    BY <2>1, <2>2 DEF Installed, Matching, VxlanInv, TypeOK
  <2>4. t \in R /\ s.len <= t.len
    BY <2>3, LongestFacts
  <2>5. t \in route /\ t \in Subnet /\ ip \in Addresses[t]
    BY <2>3, <2>4 DEF Matching
  <2>6. s.len \in Int /\ t.len \in Int
    BY <2>5, AlignedAssumption, WidthAssumption DEF Net
  <2>7. t.ip = s.ip
    <3>1. ip \in Address /\ HasAddress(s, ip) /\ HasAddress(t, ip)
      BY <2>2, <2>5 DEF Addresses
    <3> QED BY <2>2, <2>4, <2>5, <2>6, <3>1, SameHop
  <2>8. HostBehind(t.ip) = reg[s].ip
    BY <2>1, <2>7 DEF Installed, HostBehind
  <2> QED BY <2>3, <2>8 DEF Destination
<1> QED BY <1>1, VxlanAlways, PTL

\* No subnet is newly routed into nothing.
THEOREM RouteComesLast == Spec => RoutedLast
<1>1. VxlanInv /\ [Next]_vars => [\A s \in route' \ route : HostBehind(s.ip)' # NoHost]_vars
  <2> SUFFICES ASSUME VxlanInv, Next, NEW s \in route' \ route PROVE HostBehind(s.ip)' # NoHost
    OBVIOUS
  <2>1. PICK e \in Events : ReplaceRoute(e)
    BY DEF Next, tables, Handle, Ignore, AddArp, AddFdb, HandleDelete, ReplaceDevice, Stop
  <2>2. /\ s = e.lease.subnet /\ UNCHANGED <<arp, fdb>> /\ Ours(e.lease)
        /\ arp[s.ip] = e.lease.mac /\ fdb[e.lease.mac] = e.lease.ip
    BY <2>1 DEF ReplaceRoute, Handling, VxlanInv, StepOK
  <2>3. e.lease.mac # NoMac /\ e.lease.ip # NoHost
    BY <2>2, OursFacts
  <2> QED BY <2>2, <2>3 DEF HostBehind
<1> QED BY <1>1, VxlanAlways, PTL DEF Spec, RoutedLast

\* What the daemon has told of its device is true, unless it renewed too early.
THEOREM DeviceIsAnnounced == HostSpec => []DeviceAnnounced
<1>1. HostInv => DeviceAnnounced
  BY DataAssumption DEF HostInv, HostOK, True, DeviceAnnounced
<1> QED BY <1>1, HostAlways, PTL

\* The variables of the start and the renewals keep their types, and the device has the
\* address of the subnet, and no other of the Network.
THEOREM AddressIsTrue == HostSpec => [](HostOK /\ AddressTrue)
<1>1. HostInv => HostOK /\ AddressTrue
  BY DEF HostInv
<1> QED BY <1>1, HostAlways, PTL
==============================================================================
