------------------------------- MODULE VxlanHost -------------------------------
(***************************************************************************)
(* What a VXLAN daemon tells the others of its device (src/backend/vxlan/  *)
(* vxlan.rs, device.rs, src/ip/iface.rs, subnet.rs). Its start finds,      *)
(* replaces or makes the device, acquires a lease that carries the MAC to  *)
(* the other hosts, and puts the address of the subnet on the device. Then *)
(* it renews with the attributes of the lease main has, which its own      *)
(* watch replaces by those it reads. The device, with its MAC and its      *)
(* addresses, and the registrations outlive the daemon.                    *)
(*                                                                         *)
(* The registrations of this host are any number, one for each             *)
(* configuration it has lived under.                                       *)
(***************************************************************************)
EXTENDS Naturals, Sequences

CONSTANTS
  Conf,       \* the configurations: [setup, leasable, inside]
  Setup,      \* what of a device cannot be changed: external interface and address, GBP
  OwnSubnet,  \* the subnets this host may get
  OwnMac,     \* the random MACs
  MaxTold,    \* bound: events of the own watch that are under way
  NoDevice,
  Nothing,    \* no registration
  Stranger    \* the registration of another host

\* A configuration leases some subnets, and others lie inside its Network.
ASSUME ConfAssumption ==
  Conf \subseteq [setup : Setup, leasable : SUBSET OwnSubnet, inside : SUBSET OwnSubnet]
ASSUME DeviceAssumption == NoDevice \notin [setup : Setup, mac : OwnMac, addrs : SUBSET OwnSubnet]
ASSUME DataAssumption == Nothing \notin OwnMac /\ Stranger \notin OwnMac /\ Nothing # Stranger
ASSUME ToldAssumption == MaxTold \in Nat

VARIABLES
  conf,    \* etcd: the configuration
  data,    \* etcd: for each subnet the MAC this host has registered, if it has
  device,  \* the kernel's device flannel.<VNI>
  phase,   \* "down", "link", "relink", "linked", "found", "chosen", "leased" or "run"
  main,    \* the configuration main has read
  own,     \* lease.subnet
  mac,     \* the MAC in lease.attrs
  watch,   \* the task of watch_lease: "none", "get", "on" or "off"
  told,    \* what it tells main of: the registration after each change
  fresh,   \* history: lease.attrs are of this life, made in it or told by the own watch
  early    \* history: it has renewed when they were not

etcd == <<conf, data>>
lease == <<own, mac, fresh>>
ownWatch == <<watch, told>>
host == <<etcd, device, phase, main, lease, ownWatch, early>>

Mine == {s \in OwnSubnet : data[s] \in OwnMac}

\* The registration of s becomes d. The own watch hears of it.
Change(s, d) ==
  /\ data' = [data EXCEPT ![s] = d]
  /\ IF watch = "on" /\ s = own
       THEN Len(told) < MaxTold /\ told' = Append(told, d)
       ELSE UNCHANGED told

(***************************************************************************)
(* etcd                                                                    *)
(***************************************************************************)

Reconfigure(c) ==
  /\ c # conf /\ conf' = c
  /\ UNCHANGED <<data, device, phase, main, lease, ownWatch, early>>

\* A registration ends, by its TTL or an operator, also under a daemon that starts or runs.
Expire(s) ==
  /\ data[s] # Nothing /\ Change(s, Nothing)
  /\ UNCHANGED <<conf, device, phase, main, lease, watch, early>>

\* Another host registers a subnet that is free.
Usurp(s) ==
  /\ data[s] = Nothing /\ Change(s, Stranger)
  /\ UNCHANGED <<conf, device, phase, main, lease, watch, early>>

(***************************************************************************)
(* The start                                                               *)
(***************************************************************************)

ReadMain ==
  /\ phase = "down" /\ phase' = "link"
  /\ main' = conf
  /\ UNCHANGED <<etcd, device, lease, ownWatch, early>>

\* Mutant of KeepLink: the device link_by_name does not find is used all the same.
MutKeepMissing ==
  /\ phase = "link" /\ phase' = "linked"
  /\ UNCHANGED <<etcd, device, main, lease, ownWatch, early>>

\* ensure_vxlan_link: a device that is there and suits is taken as it is; and so is any
\* that is there, if link_add fails otherwise than by AlreadyExists.
KeepLink ==
  /\ phase = "link" /\ phase' = "linked"
  /\ device # NoDevice
  /\ UNCHANGED <<etcd, device, main, lease, ownWatch, early>>

\* One that does not suit is deleted, and made anew.
DeleteLink ==
  /\ phase = "link" /\ phase' = "relink"
  /\ device # NoDevice /\ device.setup # main.setup
  /\ device' = NoDevice
  /\ UNCHANGED <<etcd, main, lease, ownWatch, early>>

AddLink(m) ==
  /\ phase \in {"link", "relink"} /\ phase' = "linked"
  /\ device = NoDevice
  /\ device' = [setup |-> main.setup, mac |-> m, addrs |-> {}]
  /\ UNCHANGED <<etcd, main, lease, ownWatch, early>>

\* acquire_lease reads the configuration again, and what is registered. The first of this
\* host's registrations counts: which one that is the text of the keys decides. The lease
\* that is returned will be the one found, with the MAC it had.
Reuse(s) ==
  /\ phase = "linked" /\ phase' = "found"
  /\ s \in Mine \cap conf.leasable
  /\ own' = s /\ mac' = data[s] /\ fresh' = FALSE
  /\ UNCHANGED <<etcd, device, main, ownWatch, early>>

\* If it has none, or the first is not one the configuration leases, or what is left of
\* it cannot be asked for, another is chosen, and that one stands.
Choose(s) ==
  /\ phase = "linked" /\ phase' = "chosen"
  /\ s \in conf.leasable /\ data[s] = Nothing
  /\ own' = s /\ mac' = device.mac /\ fresh' = TRUE
  /\ UNCHANGED <<etcd, device, main, ownWatch, early>>

\* update_subnet puts whatever is there by now, create_subnet only if nothing is. What is
\* put is always the MAC of the device.
PutLease ==
  /\ phase = "found" \/ (phase = "chosen" /\ data[own] = Nothing)
  /\ phase' = "leased"
  /\ Change(own, device.mac)
  /\ UNCHANGED <<conf, device, main, lease, watch, early>>

\* ensure_v4_addr_on_link deletes the addresses inside the Network main has read that are
\* not the subnet's. It may not know that one again, by its label, and delete it too.
DropAddress(s) ==
  /\ phase = "leased" /\ s \in device.addrs \cap main.inside
  /\ device' = [device EXCEPT !.addrs = @ \ {s}]
  /\ UNCHANGED <<etcd, phase, main, lease, ownWatch, early>>

\* Mutant of AddAddress: addresses of earlier subnets stay.
MutAddressesStay ==
  /\ phase = "leased" /\ phase' = "run"
  /\ device' = [device EXCEPT !.addrs = @ \cup {own}]
  /\ watch' = "get"
  /\ UNCHANGED <<etcd, main, lease, told, early>>

\* Then it is added, if it is not there, and main runs the backend and its own watch.
AddAddress ==
  /\ phase = "leased" /\ phase' = "run"
  /\ device.addrs \cap main.inside \subseteq {own}
  /\ device' = [device EXCEPT !.addrs = @ \cup {own}]
  /\ watch' = "get"
  /\ UNCHANGED <<etcd, main, lease, told, early>>

(***************************************************************************)
(* renew_lease_if_needed                                                   *)
(***************************************************************************)

\* The timer fires, at once if the lease found had just the margin left.
Renew ==
  /\ phase = "run"
  /\ Change(own, mac)
  /\ early' = (early \/ ~fresh)
  /\ UNCHANGED <<conf, device, phase, main, lease, watch>>

\* watch_lease reads the key, tells what it read, and watches.
WatchGet ==
  /\ watch = "get"
  /\ IF data[own] = Nothing
       THEN watch' = "off" /\ UNCHANGED told
       ELSE watch' = "on" /\ told' = <<data[own]>>
  /\ UNCHANGED <<etcd, device, phase, main, lease, early>>

\* The task ends, with what it has not told.
WatchFails ==
  /\ watch \in {"get", "on"}
  /\ watch' = "off" /\ told' = <<>>
  /\ UNCHANGED <<etcd, device, phase, main, lease, early>>

\* Mutant of Hear: of the lease only the expiration is taken over.
MutHearTime ==
  /\ told # <<>> /\ Head(told) # Nothing
  /\ told' = Tail(told) /\ fresh' = TRUE
  /\ UNCHANGED <<etcd, device, phase, main, own, mac, watch, early>>

\* A Put replaces the lease.
Hear ==
  /\ told # <<>> /\ Head(told) # Nothing
  /\ mac' = Head(told) /\ fresh' = TRUE
  /\ told' = Tail(told)
  /\ UNCHANGED <<etcd, device, phase, main, own, watch, early>>

\* A Put whose lease is gone is dropped; what ended or replaced it is told after it.
DropExpiredPut ==
  /\ Len(told) > 1 /\ Head(told) # Nothing
  /\ told' = Tail(told)
  /\ UNCHANGED <<etcd, device, phase, main, lease, watch, early>>

\* The daemon is killed, a request of the start fails with ?, a subtraction of the
\* renewals panics, or a Delete is told.
Exit ==
  /\ phase # "down" /\ phase' = "down"
  /\ watch' = "none" /\ told' = <<>> /\ early' = FALSE
  /\ UNCHANGED <<etcd, device, main, lease>>

(***************************************************************************)
(* Specification                                                           *)
(***************************************************************************)

HostInit ==
  /\ conf \in Conf /\ main = conf
  /\ data = [s \in OwnSubnet |-> Nothing]
  /\ device = NoDevice /\ phase = "down"
  /\ own \in OwnSubnet /\ mac = Nothing /\ fresh = FALSE /\ early = FALSE
  /\ watch = "none" /\ told = <<>>

EtcdStep ==
  \/ \E c \in Conf : Reconfigure(c)
  \/ \E s \in OwnSubnet : Expire(s) \/ Usurp(s)

StartStep ==
  \/ ReadMain \/ KeepLink \/ DeleteLink \/ PutLease \/ AddAddress
  \/ \E m \in OwnMac : AddLink(m)
  \/ \E s \in OwnSubnet : Reuse(s) \/ Choose(s) \/ DropAddress(s)

RunStep == Renew \/ WatchGet \/ WatchFails \/ Hear \/ DropExpiredPut

HostNext == EtcdStep \/ StartStep \/ RunStep \/ Exit

HostSpec == HostInit /\ [][HostNext]_host

(***************************************************************************)
(* Properties                                                              *)
(***************************************************************************)

\* The types of the variables.
HostOK ==
  /\ conf \in Conf /\ main \in Conf
  /\ data \in [OwnSubnet -> OwnMac \cup {Nothing, Stranger}]
  /\ device \in {NoDevice} \cup [setup : Setup, mac : OwnMac, addrs : SUBSET OwnSubnet]
  /\ phase \in {"down", "link", "relink", "linked", "found", "chosen", "leased", "run"}
  /\ phase \in {"linked", "found", "chosen", "leased", "run"} => device # NoDevice
  /\ own \in OwnSubnet /\ mac \in OwnMac \cup {Nothing, Stranger}
  /\ watch \in {"none", "get", "on", "off"}
  /\ phase # "run" => watch = "none" /\ told = <<>>
  /\ told \in Seq(OwnMac \cup {Nothing, Stranger})
  /\ fresh \in BOOLEAN /\ early \in BOOLEAN

\* The MAC by which the other hosts reach this one is that of its device, though the
\* device may be one of an earlier life, or have been replaced since the subnet was
\* registered, and though each renewal writes the lease main has. The exception: a reused
\* lease has the MAC as it was found, and a renewal before the first event of the own
\* watch registers that one again, for good.
DeviceAnnounced ==
  phase \in {"leased", "run"} /\ data[own] \in OwnMac /\ ~early => data[own] = device.mac

\* Through changes of its subnet and of the configuration, the device of a running
\* daemon has the address of its subnet; every other one that earlier lives left on it
\* is outside the Network main has read.
AddressTrue ==
  phase = "run" => own \in device.addrs /\ device.addrs \cap main.inside \subseteq {own}
==============================================================================
