--------------------------- MODULE MCNetworkConfig ---------------------------
(***************************************************************************)
(* What NetworkConfig promises, over all configurations of a few bits.     *)
(***************************************************************************)
EXTENDS NetworkConfig

Even == {ip \in 0..(Space - 1) : ip % 2 = 0}
AllConfigs ==
  [net : [ip : Even, len : 0..Width], subnetLen : 0..Width,
   min : {None} \cup {ip \in Even : ip % 4 = 0}, max : {None} \cup Even]

Masked(raw) == raw.net.ip = NetworkOf(raw.net)
AtEnd(c) == c.max = Space - Size(c.len)

\* The subnets between SubnetMin and SubnetMax, without a walk.
Between(c) == {s \in [ip : Even, len : {c.len}] : Aligned(s.ip, s.len) /\ Reusable(c, s)}

Usable == {raw \in AllConfigs : Accepted(raw)}

\* The walk finds what lies between the bounds and is free, all of it if that is not
\* too much; a host may keep whatever it was once given.
ASSUME WalkFindsFree ==
  \A raw \in Usable :
    LET c == Config(raw) IN
    ~AtEnd(c) =>
      \A taken \in {{}, {[ip |-> 20, len |-> 4]}, {[ip |-> 22, len |-> 5], [ip |-> 8, len |-> 3]}} :
        LET free == {s \in Between(c) : \A t \in taken : ~Overlaps(s, t)}
            found == Choosable(c, taken)
        IN  /\ found \subseteq free
            /\ Cardinality(free) <= MaxChoices => found = free
            /\ Cardinality(free) > MaxChoices => Cardinality(found) = MaxChoices

\* No subnet outside the network is leased, if the Network is written without bits
\* beyond its prefix and the address space goes on after it.
ASSUME WithinNetwork ==
  \A raw \in Usable :
    LET c == Config(raw) IN
    Masked(raw) /\ ~AtEnd(c) => \A s \in Choosable(c, {}) : HasAddress(raw.net, s.ip)

\* Otherwise some are: the default of SubnetMax counts from the address that is given,
\* and the walk from the last subnet of the address space goes round it.
ASSUME BeyondNetwork ==
  \A masked \in BOOLEAN :
    \E raw \in Usable :
      /\ Masked(raw) = masked /\ raw.min = None
      /\ \E s \in Choosable(Config(raw), {}) : ~HasAddress(raw.net, s.ip)
==============================================================================
