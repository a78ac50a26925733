----------------------------- MODULE Daemon_proofs -----------------------------
(***************************************************************************)
(* What holds of Daemon for any TTL, margin, latency and configurations.   *)
(***************************************************************************)
EXTENDS Daemon, TLAPS, SequenceTheorems

(***************************************************************************)
(* The steps, with those that end the process taken together, and so the   *)
(* two ways in which time passes.                                          *)
(***************************************************************************)
LEMMA StepCases ==
  ASSUME Next
  PROVE  \/ \E there \in {"down", "failed"} : End(there)
         \/ Start \/ ReadConfig \/ Reuse \/ Allocate \/ SendUpdate
         \/ UpdateSubnet \/ CreateSubnet \/ Answered \/ RenameFile \/ Begin
         \/ TimerFires \/ RenewPut \/ RenewDone \/ RenewFails
         \/ WatchGet \/ WatchFails \/ Adopt \/ DropExpiredPut
         \/ (Tick \/ Stall)
         \/ \E c \in Net : Reconfigure(c)
  BY DEF Next, Step, Disturbance, Acquire, Settle, Renew, HandleEvent, Crash, RefuseConfig,
         RpcFails, NoneAvailable, BeginPanics, AdoptPanics, OwnLeaseDeleted

Ticks == Tick \/ Stall

\* Both ways in which time passes are Pass, whatever event waits for its answer.
LEMMA TicksPass ==
  ASSUME Ticks
  PROVE  ~Urgent /\ \E j \in 0..Len(told) : Pass(j)
  BY DEF Ticks, Tick, Stall

(***************************************************************************)
(* Type correctness. It needs to know what a daemon has at which step.     *)
(***************************************************************************)

Message == [type : {"put", "delete"}, left : 0..TTL, held : 0..Latency]

PhaseOK ==
  /\ pc \in Asking => age <= Latency
  /\ pc = "failed" => age <= 1
  /\ pc \notin Asking \cup {"failed"} => age = 0
  /\ watch = "none" <=> pc \notin Running
  /\ watch # "on" => told = <<>>

\* A tick lowers a number by one down to zero, and keeps the order of two.
LEMMA LessFacts ==
  ASSUME NEW n \in Nat, NEW t \in 0..n
  PROVE  /\ Less(t) \in 0..n
         /\ Less(t) <= t
         /\ t > 0 => Less(t) = t - 1
         /\ \A u \in 0..n : u <= t => Less(u) <= Less(t)
  BY DEF Less

\* A sequence of one.
LEMMA Singleton ==
  ASSUME NEW S, NEW m \in S
  PROVE  <<m>> \in Seq(S) /\ <<m>> # <<>> /\ Len(<<m>>) = 1 /\ <<m>>[1] = m
  OBVIOUS

\* What a tick makes of an event: either its lease runs out, or its answer takes longer.
LEMMA AgedFacts ==
  ASSUME NEW j \in 0..Len(told), told \in Seq(Message), Waits(j), NEW i \in 1..Len(told)
  PROVE  /\ Aged(i, j) \in Message
         /\ Aged(i, j).type = told[i].type
         /\ \/ Aged(i, j).left = Less(told[i].left) /\ Aged(i, j).held = told[i].held
            \/ /\ told[i].type = "put"
               /\ Aged(i, j).left = told[i].left /\ Aged(i, j).held = told[i].held + 1
<1>1. told[i] \in Message /\ TTL \in Nat /\ Latency \in Nat
  BY TimingAssumption
<1>2. CASE i = j
  <2>1. told[i].type = "put" /\ told[i].held < Latency
    BY <1>2 DEF Waits
  <2>2. /\ Aged(i, j) = [type |-> told[i].type, left |-> told[i].left, held |-> told[i].held + 1]
        /\ told[i].held + 1 \in 0..Latency
    BY <1>1, <1>2, <2>1 DEF Aged, Message
  <2> QED
    BY <1>1, <2>1, <2>2 DEF Message
<1>3. CASE i # j
  <2>1. Aged(i, j) = [type |-> told[i].type, left |-> Less(told[i].left), held |-> told[i].held]
    BY <1>1, <1>3 DEF Aged, Message
  <2>2. Less(told[i].left) \in 0..TTL
    BY <1>1, LessFacts DEF Message
  <2> QED
    BY <1>1, <2>1, <2>2 DEF Message
<1> QED
  BY <1>2, <1>3

\* A tick adds to the queue only the Delete of a registration that ends with it.
LEMMA PassTold ==
  ASSUME TypeOK, NEW j \in 0..Len(told), Pass(j)
  PROVE  /\ told' \in Seq(Message)
         /\ watch = "on" /\ ttl[subnet] = 1 =>
              /\ Len(told') = Len(told) + 1
              /\ told'[Len(told')] = Delete
         /\ ~(watch = "on" /\ ttl[subnet] = 1) => Len(told') = Len(told)
         /\ \A i \in 1..Len(told) : told'[i] = Aged(i, j)
<1> DEFINE late == [i \in DOMAIN told |-> Aged(i, j)]
<1>1. told \in Seq(Message) /\ TTL \in Nat /\ Latency \in Nat
  BY TimingAssumption DEF TypeOK, Message
<1>2. \A i \in 1..Len(told) : Aged(i, j) \in Message
  BY <1>1, AgedFacts DEF Pass
<1>4. /\ late \in Seq(Message) /\ Len(late) = Len(told)
      /\ \A i \in 1..Len(told) : late[i] = Aged(i, j)
  <2>1. DOMAIN told = 1..Len(told) /\ Len(told) \in Nat
    BY <1>1
  <2>2. \A i \in 1..Len(told) : late[i] = Aged(i, j)
    BY <2>1
  <2>3. late \in [1..Len(told) -> Message]
    BY <1>2, <2>1
  <2> HIDE DEF late
  <2> QED
    BY <2>1, <2>2, <2>3
<1>5. Delete \in Message
  BY <1>1 DEF Delete, Message
<1>6. CASE watch = "on" /\ ttl[subnet] = 1
  <2>1. told' = Append(late, Delete)
    BY <1>6 DEF Pass
  <2> HIDE DEF late
  <2> QED
    BY <1>1, <1>4, <1>5, <1>6, <2>1
<1>7. CASE ~(watch = "on" /\ ttl[subnet] = 1)
  <2>1. told' = late
    BY <1>7 DEF Pass
  <2> HIDE DEF late
  <2> QED
    BY <1>1, <1>4, <1>7, <2>1
<1> QED
  BY <1>6, <1>7

\* A put gives the registration a lease of at most the time its request took less
\* than TTL, and the own watch hears of what it has left.
LEMMA PutFacts ==
  ASSUME TypeOK, PhaseOK, PutReaches, pc \in Asking
  PROVE  \E left \in 0..TTL :
           /\ left + age >= TTL /\ left + Latency >= TTL /\ left > 0
           /\ ttl' = [ttl EXCEPT ![subnet] = left] /\ ttl'[subnet'] = left
           /\ told' = IF watch = "on" THEN Append(told, Put(left)) ELSE told
           /\ Put(left) \in Message
           /\ age' = 0 /\ UNCHANGED <<net, main, subnet, exp, timer, watch, fails, file>>
<1>1. /\ TTL \in Nat /\ Latency \in Nat /\ Margin \in Nat /\ Latency < TTL
      /\ age \in 0..Latency /\ subnet \in Subnet /\ ttl \in [Subnet -> 0..TTL]
  BY TimingAssumption DEF TypeOK, PhaseOK
<1>2. PICK left \in (TTL - age)..TTL :
        /\ ttl' = [ttl EXCEPT ![subnet] = left]
        /\ told' = IF watch = "on" THEN Append(told, Put(left)) ELSE told
  BY DEF PutReaches
<1>3. left \in 0..TTL /\ left + age >= TTL /\ left + Latency >= TTL /\ left > 0
  BY <1>1
<1>4. Put(left) \in Message
  BY <1>1, <1>3 DEF Put, Message
<1>5. age' = 0 /\ UNCHANGED <<net, main, subnet, exp, timer, watch, fails, file>>
  BY DEF PutReaches
<1>6. ttl'[subnet'] = left
  BY <1>1, <1>2, <1>5
<1> QED
  BY <1>2, <1>3, <1>4, <1>5, <1>6

\* The types at the start.
LEMMA TypeInit ==
  ASSUME Init
  PROVE  TypeOK /\ PhaseOK
  BY TimingAssumption DEF Init, TypeOK, PhaseOK, Asking, Running

\* Every step keeps the types.
LEMMA TypeStep ==
  ASSUME TypeOK, PhaseOK, [Next]_vars
  PROVE  TypeOK' /\ PhaseOK'
<1>a. told \in Seq(Message)
  BY DEF TypeOK, Message
<1>b. ASSUME PutReaches, pc \in Asking
      PROVE  /\ ttl' \in [Subnet -> 0..TTL] /\ age' = 0
             /\ told' \in Seq(Message) /\ (watch # "on" => told' = told)
             /\ UNCHANGED <<net, main, subnet, exp, timer, watch, fails, file>>
  <2>1. PICK left \in 0..TTL :
          /\ ttl' = [ttl EXCEPT ![subnet] = left] /\ Put(left) \in Message
          /\ told' = IF watch = "on" THEN Append(told, Put(left)) ELSE told
          /\ age' = 0 /\ UNCHANGED <<net, main, subnet, exp, timer, watch, fails, file>>
    BY <1>b, PutFacts
  <2>2. ttl' \in [Subnet -> 0..TTL]
    BY <2>1 DEF TypeOK
  <2>3. told' \in Seq(Message)
    BY <1>a, <2>1
  <2> QED
    BY <2>1, <2>2, <2>3
<1> USE TimingAssumption, LeasableAssumption DEF TypeOK, PhaseOK, Asking, Running, etcd, task, At
<1>0. told \in Seq(Message)
  BY <1>a
<1>1. ASSUME NEW there \in {"down", "failed"}, End(there) PROVE TypeOK' /\ PhaseOK'
  BY <1>1 DEF End
<1>2. CASE Start
  BY <1>2 DEF Start
<1>3. CASE ReadConfig
  BY <1>3 DEF ReadConfig
<1>4. CASE Reuse
  BY <1>4 DEF Reuse, AimAt, IsOwn, Registered
<1>5. CASE Allocate
  BY <1>5 DEF Allocate, AimAt
<1>6. CASE SendUpdate
  BY <1>6 DEF SendUpdate
<1>7. CASE UpdateSubnet
  BY <1>7, <1>b DEF UpdateSubnet, Message
<1>8. CASE CreateSubnet
  BY <1>8, <1>b DEF CreateSubnet, Message
<1>9. CASE Answered
  BY <1>9 DEF Answered
<1>10. CASE RenameFile
  BY <1>10 DEF RenameFile
<1>11. CASE Begin
  BY <1>11 DEF Begin
<1>12. CASE TimerFires
  BY <1>12 DEF TimerFires
<1>13. CASE RenewPut
  BY <1>13, <1>b DEF RenewPut, Message
<1>14. CASE RenewDone
  BY <1>14 DEF RenewDone
<1>15. CASE RenewFails
  <2>1. fails' \in 0..TTL /\ Retry \in 0..TTL
    BY <1>15 DEF RenewFails
  <2> QED
    BY <1>15, <2>1 DEF RenewFails
<1>16. CASE WatchGet
  <2>1. Put(ttl[subnet]) \in Message
    BY DEF Put, Message
  <2>2. told' = told \/ told' = <<Put(ttl[subnet])>>
    BY <1>16 DEF WatchGet
  <2> DEFINE first == <<Put(ttl[subnet])>>
  <2>a. first \in Seq(Message)
    BY <2>1, Singleton
  <2>b. told' = told \/ told' = first
    BY <2>2
  <2>3. told' \in Seq(Message)
    <3> HIDE DEF first
    <3> QED
      BY <1>0, <2>a, <2>b
  <2>4. watch' # "on" => told' = told
    BY <1>16 DEF WatchGet
  <2> QED
    BY <1>16, <2>3, <2>4 DEF WatchGet, Message
<1>17. CASE WatchFails
  BY <1>17 DEF WatchFails
<1>18. CASE Adopt
  <2>1. told # <<>> /\ Head(told) \in Message /\ Tail(told) \in Seq(Message)
    BY <1>0, <1>18 DEF Adopt, EventIs
  <2>2. Head(told).left \in 0..TTL
    BY <2>1 DEF Message
  <2>3. timer' \in 0..TTL
    BY <1>18, <2>2 DEF Adopt
  <2> QED
    BY <1>18, <2>1, <2>3 DEF Adopt, EventIs, Message
<1>19. CASE DropExpiredPut
  <2>1. Tail(told) \in Seq(Message)
    BY <1>0, <1>19 DEF DropExpiredPut, EventIs
  <2> QED
    BY <1>19, <2>1 DEF DropExpiredPut, EventIs, Message
<1>20. CASE Ticks
  <2>0. ~Urgent /\ \E j \in 0..Len(told) : Pass(j)
    BY <1>20, TicksPass
  <2>1. PICK j \in 0..Len(told) : Pass(j) /\ ~Urgent
    BY <2>0
  <2>2. told' \in Seq(Message)
    BY <2>1, PassTold
  <2>3. ASSUME watch # "on" PROVE told' = <<>>
    <3>1. told = <<>> /\ Len(told') = Len(told)
      BY <2>1, <2>3, PassTold
    <3> QED
      BY <2>2, <3>1
  <2>4. ttl' \in [Subnet -> 0..TTL] /\ exp' \in 0..TTL /\ timer' \in 0..TTL
    BY <2>1, LessFacts DEF Pass
  <2>5. /\ age' = IF pc \in Asking \cup {"failed"} THEN age + 1 ELSE 0
        /\ UNCHANGED <<net, pc, main, subnet, watch, fails, file>>
    BY <2>1 DEF Pass
  <2>6. pc \in Asking => age' \in 0..Latency
    BY <2>1, <2>5 DEF Urgent
  <2>7. pc = "failed" => age' = 1
    BY <2>1, <2>5 DEF Urgent
  <2>8. TypeOK'
    BY <2>2, <2>4, <2>5, <2>6, <2>7 DEF Message
  <2>9. PhaseOK'
    BY <2>3, <2>5, <2>6, <2>7
  <2> QED
    BY <2>8, <2>9
<1>21. ASSUME NEW c \in Net, Reconfigure(c) PROVE TypeOK' /\ PhaseOK'
  BY <1>21 DEF Reconfigure
<1>22. CASE UNCHANGED vars
  BY <1>22 DEF vars
<1> QED
  BY <1>1, <1>2, <1>3, <1>4, <1>5, <1>6, <1>7, <1>8, <1>9, <1>10, <1>11, <1>12, <1>13, <1>14,
     <1>15, <1>16, <1>17, <1>18, <1>19, <1>20, <1>21, <1>22, StepCases DEF Ticks

\* No step of the daemon leaves the ranges of its variables: its timer and expiration
\* are never below zero (src/subnet/subnet.rs, the subtractions of the margin).
THEOREM TypeCorrect == Spec => []TypeOK
<1>1. Init => TypeOK /\ PhaseOK
  BY TypeInit
<1>2. TypeOK /\ PhaseOK /\ [Next]_vars => TypeOK' /\ PhaseOK'
  BY TypeStep
<1> QED
  BY <1>1, <1>2, PTL DEF Spec

(***************************************************************************)
(* The own watch: the last event under way speaks of the key as it is.     *)
(***************************************************************************)

\* The event says what is left of the lease, as far as its answer was not under way.
Says(m, left) ==
  IF left = 0 THEN m.type = "delete" /\ m.left = 0 ELSE m.type = "put" /\ m.left = left + m.held

LastWord ==
  watch = "on" =>
    /\ told = <<>> => pc # "renewed" /\ ttl[subnet] > 0
    /\ told # <<>> => Says(told[Len(told)], ttl[subnet])

\* No event speaks of a lease that has more left than the key has, but for what the
\* answer about it took, and the put that came after it.
NoneLater == \A i \in 1..Len(told) : told[i].left <= ttl[subnet] + Latency + told[i].held

WatchOK == LastWord /\ NoneLater /\ TimerTrue

\* What an appended message leaves of a queue.
LEMMA AppendFacts ==
  ASSUME NEW S, NEW q \in Seq(S), NEW m \in S
  PROVE  /\ Append(q, m) \in Seq(S) /\ Len(Append(q, m)) = Len(q) + 1 /\ Append(q, m) # <<>>
         /\ Append(q, m)[Len(Append(q, m))] = m
         /\ \A i \in 1..Len(Append(q, m)) :
              Append(q, m)[i] = m \/ (i \in 1..Len(q) /\ Append(q, m)[i] = q[i])
<1>1. Append(q, m) \in Seq(S) /\ Len(Append(q, m)) = Len(q) + 1 /\ Len(q) \in Nat
  OBVIOUS
<1>2. Append(q, m)[Len(q) + 1] = m /\ \A i \in 1..Len(q) : Append(q, m)[i] = q[i]
  OBVIOUS
<1>3. \A i \in 1..(Len(q) + 1) : i = Len(q) + 1 \/ i \in 1..Len(q)
  BY <1>1
<1> DEFINE r == Append(q, m)
<1>4. r # <<>>
  <2>1. Len(<<>>) = 0
    OBVIOUS
  <2>2. Len(r) # 0
    BY <1>1
  <2> HIDE DEF r
  <2> QED
    BY <2>1, <2>2, Zenon
<1>5. /\ r \in Seq(S) /\ Len(r) = Len(q) + 1 /\ Len(q) \in Nat
      /\ r[Len(q) + 1] = m /\ \A i \in 1..Len(q) : r[i] = q[i]
  BY <1>1, <1>2
<1> HIDE DEF r
<1>6. r \in Seq(S) /\ Len(r) = Len(q) + 1 /\ r # <<>> /\ r[Len(r)] = m
  BY <1>4, <1>5
<1>7. ASSUME NEW i \in 1..Len(r) PROVE r[i] = m \/ (i \in 1..Len(q) /\ r[i] = q[i])
  <2>1. CASE i = Len(q) + 1
    <3>1. r[Len(q) + 1] = m
      BY <1>5
    <3> QED
      BY <2>1, <3>1, Zenon
  <2>2. CASE i \in 1..Len(q)
    BY <1>5, <2>2
  <2> QED
    BY <1>3, <1>5, <2>1, <2>2
<1> QED
  BY <1>6, <1>7 DEF r

\* What taking the first message leaves of a queue.
LEMMA TailFacts ==
  ASSUME NEW S, NEW q \in Seq(S), q # <<>>
  PROVE  /\ Tail(q) \in Seq(S) /\ Len(Tail(q)) = Len(q) - 1
         /\ \A i \in 1..Len(Tail(q)) : Tail(q)[i] = q[i + 1]
         /\ Head(q) = q[1] /\ Head(q) \in S /\ Len(q) \in Nat \ {0}
         /\ Tail(q) = <<>> => Len(q) = 1
         /\ Tail(q) # <<>> => Tail(q)[Len(Tail(q))] = q[Len(q)]
<1>1. Len(q) \in Nat \ {0} /\ Tail(q) \in Seq(S) /\ Len(Tail(q)) = Len(q) - 1
  OBVIOUS
<1>2. \A i \in 1..Len(Tail(q)) : Tail(q)[i] = q[i + 1]
  OBVIOUS
<1>3. Head(q) = q[1] /\ q[1] \in S
  BY <1>1
<1>4. Tail(q) = <<>> => Len(q) = 1
  <2>1. ASSUME Tail(q) = <<>> PROVE Len(Tail(q)) = 0
    <3>1. Len(<<>>) = 0
      OBVIOUS
    <3> QED
      BY <2>1, <3>1, Zenon
  <2>2. Len(q) \in Int /\ (Len(Tail(q)) = 0 => Len(q) = 1)
    BY <1>1
  <2> QED
    BY <2>1, <2>2
<1>5. Tail(q) # <<>> => Len(Tail(q)) \in 1..Len(Tail(q))
  BY <1>1
<1> QED
  BY <1>1, <1>2, <1>3, <1>4, <1>5

\* An event is taken from the queue and the timer set by it, if it is a Put.
LEMMA Taken ==
  ASSUME TypeOK, PhaseOK, WatchOK, pc = "run", told # <<>>, told' = Tail(told),
         UNCHANGED <<ttl, pc, subnet, watch, fails>>,
         \/ Head(told).left > 0 /\ timer' = Head(told).left - Margin
         \/ Head(told).type = "put" /\ Head(told).left = 0
  PROVE  WatchOK'
<1>0. told \in Seq(Message)
  BY DEF TypeOK, Message
<1>1. ttl[subnet] \in 0..TTL /\ watch = "on"
  BY DEF TypeOK, PhaseOK
<1>2. NoneLater'
  <2>1. \A i \in 1..Len(Tail(told)) : Tail(told)[i] = told[i + 1] /\ i + 1 \in 1..Len(told)
    BY <1>0, TailFacts
  <2> QED
    BY <2>1 DEF WatchOK, NoneLater
<1>3. CASE Tail(told) = <<>>
  <2>1. Says(Head(told), ttl[subnet]) /\ Head(told) \in Message
    BY <1>0, <1>1, <1>3, TailFacts DEF WatchOK, LastWord
  <2>2. Head(told).held \in 0..Latency /\ Head(told).left \in 0..TTL
    BY <2>1 DEF Message
  <2>3. ttl[subnet] > 0 /\ Head(told).left = ttl[subnet] + Head(told).held
    BY <1>1, <2>1, <2>2 DEF Says
  <2>4. timer' = Head(told).left - Margin
    BY <2>2, <2>3, TimingAssumption, <1>1
  <2>5. timer' + Margin \in ttl[subnet]..(ttl[subnet] + Latency)
    BY <1>1, <2>2, <2>3, <2>4, TimingAssumption
  <2>6. LastWord' /\ TimerTrue'
    BY <1>1, <1>3, <2>3, <2>5 DEF LastWord, TimerTrue
  <2> QED
    BY <1>2, <2>6 DEF WatchOK
<1>4. CASE Tail(told) # <<>>
  <2>1. LastWord' /\ TimerTrue'
    BY <1>0, <1>1, <1>4, TailFacts DEF WatchOK, LastWord, TimerTrue
  <2> QED
    BY <1>2, <2>1 DEF WatchOK
<1> QED
  BY <1>3, <1>4
\* Every step keeps the queue in step with the key, and the timer with both.
LEMMA WatchStep ==
  ASSUME TypeOK, PhaseOK, WatchOK, [Next]_vars
  PROVE  WatchOK'
<1> DEFINE Kept == UNCHANGED <<ttl, subnet, watch, told>>
<1>0. /\ told \in Seq(Message) /\ Len(told) \in Nat
      /\ ttl \in [Subnet -> 0..TTL] /\ subnet \in Subnet /\ ttl[subnet] \in 0..TTL
      /\ timer \in Nat /\ TTL \in Nat /\ Latency \in Nat /\ Margin \in Nat
  BY TimingAssumption DEF TypeOK, Message
<1>1. ASSUME Kept, pc # "run" /\ pc # "renewed", pc' # "run" /\ pc' # "renewed" PROVE WatchOK'
  BY <1>1 DEF WatchOK, LastWord, NoneLater, TimerTrue
<1>2. ASSUME told' = <<>>, watch' # "on" PROVE WatchOK'
  BY <1>2 DEF WatchOK, LastWord, NoneLater, TimerTrue
<1>3. ASSUME NEW there \in {"down", "failed"}, End(there) PROVE WatchOK'
  BY <1>2, <1>3 DEF End
<1>4. CASE Start \/ ReadConfig \/ SendUpdate \/ Answered \/ RenameFile
  BY <1>1, <1>4 DEF Start, ReadConfig, SendUpdate, Answered, RenameFile, At, etcd, task
<1>5. CASE Reuse \/ Allocate \/ UpdateSubnet \/ CreateSubnet \/ Begin
  <2>1. told' = <<>> /\ watch' # "on"
    BY <1>5 DEF Reuse, Allocate, AimAt, UpdateSubnet, CreateSubnet, PutReaches, Begin, At, task,
                PhaseOK, Running
  <2> QED
    BY <2>1, <1>2
<1>6. CASE TimerFires
  BY <1>6 DEF TimerFires, At, etcd, task, WatchOK, LastWord, NoneLater, TimerTrue
<1>7. CASE RenewPut
  <2>0. PutReaches /\ pc \in Asking /\ pc' = "renewed"
    BY <1>7 DEF RenewPut, At, Asking
  <2>1. PICK left \in 0..TTL :
          /\ left + Latency >= TTL /\ left > 0 /\ ttl'[subnet'] = left /\ Put(left) \in Message
          /\ subnet' = subnet /\ watch' = watch
          /\ told' = IF watch = "on" THEN Append(told, Put(left)) ELSE told
    BY <2>0, PutFacts
  <2>2. Put(left).type = "put" /\ Put(left).left = left /\ Put(left).held = 0
    BY DEF Put
  <2>3. CASE watch = "on"
    <3>1. /\ Len(told') = Len(told) + 1 /\ told'[Len(told')] = Put(left) /\ told' # <<>>
          /\ \A i \in 1..Len(told') : told'[i] = Put(left) \/ (i \in 1..Len(told) /\ told'[i] = told[i])
      BY <1>0, <2>1, <2>3, AppendFacts
    <3>2. \A i \in 1..Len(told) : told[i].left <= TTL /\ told[i].held >= 0 /\ told[i].left \in Nat /\ told[i].held \in Nat
      <4>1. \A i \in 1..Len(told) : told[i] \in Message
        BY <1>0
      <4>2. \A m \in Message : m.left <= TTL /\ m.held >= 0 /\ m.left \in Nat /\ m.held \in Nat
        BY <1>0 DEF Message
      <4> QED
        BY <4>1, <4>2
    <3>3. Says(told'[Len(told')], ttl'[subnet'])
      BY <1>0, <2>1, <2>2, <3>1 DEF Says
    <3>4. LastWord' /\ TimerTrue'
      BY <2>0, <2>1, <3>1, <3>3 DEF LastWord, TimerTrue
    <3>5. ASSUME NEW i \in 1..Len(told') PROVE told'[i].left <= left + Latency + told'[i].held
      <4>1. CASE told'[i] = Put(left)
        BY <1>0, <2>2, <4>1
      <4>2. CASE i \in 1..Len(told) /\ told'[i] = told[i]
        BY <1>0, <2>1, <3>2, <4>2
      <4> QED
        BY <3>1, <4>1, <4>2
    <3>6. NoneLater'
      BY <2>1, <3>5 DEF NoneLater
    <3> QED
      BY <3>4, <3>6 DEF WatchOK
  <2>4. CASE watch # "on"
    BY <1>2, <2>1, <2>4 DEF PhaseOK
  <2> QED
    BY <2>3, <2>4
<1>8. CASE RenewDone
  <2>1. Kept /\ pc = "renewed" /\ pc' = "run"
    BY <1>8 DEF RenewDone, At, etcd, task
  <2> QED
    BY <2>1 DEF WatchOK, LastWord, NoneLater, TimerTrue
<1>9. CASE RenewFails
  <2>1. Kept /\ pc = "renew" /\ pc' = "run" /\ fails' # 0
    BY <1>9, TimingAssumption DEF RenewFails, At, etcd, task, TypeOK
  <2> QED
    BY <2>1 DEF WatchOK, LastWord, NoneLater, TimerTrue
<1>10. CASE WatchGet
  <2>1. CASE ttl[subnet] = 0
    <3>1. told' = <<>> /\ watch' # "on"
      BY <1>10, <2>1 DEF WatchGet, PhaseOK
    <3> QED
      BY <3>1, <1>2
  <2>2. CASE ttl[subnet] # 0
    <3>1. told' = <<Put(ttl[subnet])>> /\ UNCHANGED <<ttl, subnet>>
      BY <1>10, <2>2 DEF WatchGet, etcd
    <3>2. /\ told' # <<>> /\ Len(told') = 1 /\ told'[1] = Put(ttl[subnet])
      BY <3>1, Singleton
    <3>3. /\ Put(ttl[subnet]).left = ttl[subnet] /\ Put(ttl[subnet]).held = 0
          /\ Put(ttl[subnet]).type = "put"
      BY DEF Put
    <3>4. Says(told'[Len(told')], ttl'[subnet'])
      BY <1>0, <2>2, <3>1, <3>2, <3>3 DEF Says
    <3>5. LastWord' /\ TimerTrue'
      BY <1>0, <2>2, <3>1, <3>2, <3>4 DEF LastWord, TimerTrue
    <3>6. NoneLater'
      BY <1>0, <3>1, <3>2, <3>3 DEF NoneLater
    <3> QED
      BY <3>5, <3>6 DEF WatchOK
  <2> QED
    BY <2>1, <2>2
<1>11. CASE WatchFails
  BY <1>2, <1>11 DEF WatchFails
<1>12. CASE Adopt
  <2>1. /\ pc = "run" /\ told # <<>> /\ told' = Tail(told)
        /\ Head(told).left >= Margin /\ timer' = Head(told).left - Margin
        /\ UNCHANGED <<ttl, pc, subnet, watch, fails>>
    BY <1>12 DEF Adopt, EventIs, etcd
  <2>2. Head(told).left \in Nat
    <3>1. Head(told) \in Message
      BY <1>0, <2>1
    <3> QED
      BY <3>1 DEF Message
  <2> QED
    BY <2>1, <2>2, Taken, TimingAssumption
<1>13. CASE DropExpiredPut
  BY <1>13, Taken DEF DropExpiredPut, EventIs, etcd
<1>14. CASE Ticks
  <2>0. ~Urgent /\ \E j \in 0..Len(told) : Pass(j)
    BY <1>14, TicksPass
  <2>1. PICK j \in 0..Len(told) : Pass(j)
    BY <2>0
  <2>2. /\ ttl'[subnet] = Less(ttl[subnet]) /\ UNCHANGED <<pc, subnet, watch, fails>>
        /\ pc = "run" => timer' = Less(timer)
    BY <1>0, <2>1 DEF Pass
  <2>3. CASE watch # "on"
    <3>1. told = <<>> /\ told' \in Seq(Message) /\ Len(told') = Len(told)
      BY <2>1, <2>3, PassTold DEF PhaseOK
    <3> QED
      BY <1>2, <2>2, <2>3, <3>1
  <2>4. CASE watch = "on"
    <3>1. ASSUME NEW i \in 1..Len(told)
          PROVE  /\ told'[i] \in Message /\ told[i] \in Message /\ told'[i].type = told[i].type
                 /\ \/ told'[i].left = Less(told[i].left) /\ told'[i].held = told[i].held
                    \/ /\ told[i].type = "put"
                       /\ told'[i].left = told[i].left /\ told'[i].held = told[i].held + 1
      <4>1. told'[i] = Aged(i, j) /\ Waits(j)
        BY <2>1, PassTold DEF Pass
      <4> QED
        BY <1>0, <4>1, AgedFacts
    <3>2. ASSUME NEW i \in 1..Len(told)
          PROVE  told'[i].left <= Less(ttl[subnet]) + Latency + told'[i].held
      <4>1. told[i].left \in Nat /\ told[i].held \in Nat
        BY <3>1 DEF Message
      <4>2. told[i].left <= ttl[subnet] + Latency + told[i].held
        BY DEF WatchOK, NoneLater
      <4>3. \/ told'[i].left = Less(told[i].left) /\ told'[i].held = told[i].held
            \/ told'[i].left = told[i].left /\ told'[i].held = told[i].held + 1
        BY <3>1
      <4>4. \A l, n, h, k \in Nat :
              l <= n + k + h => /\ Less(l) <= Less(n) + k + h
                                /\ l <= Less(n) + k + (h + 1)
        BY DEF Less
      <4>5. /\ Less(told[i].left) <= Less(ttl[subnet]) + Latency + told[i].held
            /\ told[i].left <= Less(ttl[subnet]) + Latency + (told[i].held + 1)
        <5> DEFINE l == told[i].left
                   h == told[i].held
                   n == ttl[subnet]
        <5>1. l \in Nat /\ h \in Nat /\ n \in Nat /\ l <= n + Latency + h
          BY <1>0, <4>1, <4>2
        <5> HIDE DEF l, h, n
        <5>2. Less(l) <= Less(n) + Latency + h /\ l <= Less(n) + Latency + (h + 1)
          BY <1>0, <4>4, <5>1
        <5> QED
          BY <5>2 DEF l, h, n
      <4>6. CASE told'[i].left = Less(told[i].left) /\ told'[i].held = told[i].held
        <5>1. Less(told[i].left) <= Less(ttl[subnet]) + Latency + told[i].held
          BY <4>5
        <5> QED
          BY <4>6, <5>1, Zenon
      <4>7. CASE told'[i].left = told[i].left /\ told'[i].held = told[i].held + 1
        <5>1. told[i].left <= Less(ttl[subnet]) + Latency + (told[i].held + 1)
          BY <4>5
        <5> QED
          BY <4>7, <5>1, Zenon
      <4> QED
        BY <4>3, <4>6, <4>7
    <3>3. CASE ttl[subnet] = 1
      <4>1. Len(told') = Len(told) + 1 /\ told'[Len(told')] = Delete /\ told' \in Seq(Message)
        BY <2>1, <2>4, <3>3, PassTold
      <4>2. ttl'[subnet'] = 0 /\ told' # <<>> /\ Less(ttl[subnet]) = 0
        BY <1>0, <2>2, <3>3, <4>1 DEF Less
      <4>3. Delete.left = 0 /\ Delete.held = 0 /\ Delete.type = "delete"
        BY DEF Delete
      <4>4. ASSUME NEW i \in 1..Len(told') PROVE told'[i].left <= Latency + told'[i].held
        <5>1. CASE i \in 1..Len(told)
          BY <1>0, <3>1, <3>2, <4>2, <5>1 DEF Message
        <5>2. CASE i = Len(told')
          BY <1>0, <4>1, <4>3, <5>2
        <5> QED
          BY <1>0, <4>1, <5>1, <5>2
      <4>5. NoneLater'
        <5>1. \A i \in 1..Len(told') : told'[i].held \in Nat
          <6>1. \A i \in 1..Len(told') : told'[i] \in Message
            BY <4>1
          <6> QED
            BY <6>1 DEF Message
        <5> QED
          BY <1>0, <4>2, <4>4, <5>1 DEF NoneLater
      <4>6. Says(told'[Len(told')], ttl'[subnet'])
        BY <4>1, <4>2, <4>3 DEF Says
      <4> QED
        BY <2>2, <4>2, <4>5, <4>6 DEF WatchOK, LastWord, TimerTrue
    <3>4. CASE ttl[subnet] # 1
      <4>1. Len(told') = Len(told) /\ told' \in Seq(Message)
        BY <2>1, <2>4, <3>4, PassTold
      <4>2. NoneLater'
        BY <1>0, <2>2, <3>2, <4>1 DEF NoneLater
      <4>3. CASE told = <<>>
        <5>1. told' = <<>> /\ ttl[subnet] > 1 /\ pc # "renewed"
          BY <1>0, <2>4, <3>4, <4>1, <4>3 DEF WatchOK, LastWord
        <5>2. ttl'[subnet'] = ttl[subnet] - 1
          BY <1>0, <2>2, <5>1 DEF Less
        <5>3. ASSUME pc = "run" PROVE timer' = timer - 1
          BY <1>0, <2>0, <2>2, <4>3, <5>3 DEF Urgent, Less
        <5> QED
          BY <1>0, <2>2, <2>4, <4>2, <4>3, <5>1, <5>2, <5>3, TimingAssumption
             DEF WatchOK, LastWord, TimerTrue
      <4>4. CASE told # <<>>
        <5>1. told' # <<>> /\ Len(told) \in 1..Len(told)
          BY <1>0, <4>1, <4>4
        <5>2. Says(told[Len(told)], ttl[subnet])
          BY <2>4, <4>4 DEF WatchOK, LastWord
        <5> DEFINE old == told[Len(told)]
                   new == told'[Len(told)]
        <5>3. /\ new.type = old.type /\ old.left \in Nat /\ old.held \in Nat
              /\ \/ new.left = Less(old.left) /\ new.held = old.held
                 \/ old.type = "put" /\ new.left = old.left /\ new.held = old.held + 1
          BY <3>1, <5>1 DEF Message
        <5> HIDE DEF old, new
        <5>4. Says(old, ttl[subnet]) => Says(new, Less(ttl[subnet]))
          <6>1. CASE ttl[subnet] = 0
            BY <5>3, <6>1 DEF Says, Less
          <6>2. CASE ttl[subnet] > 1
            BY <1>0, <5>3, <6>2 DEF Says, Less
          <6> QED
            BY <1>0, <3>4, <6>1, <6>2
        <5>5. Says(told'[Len(told')], ttl'[subnet])
          BY <2>2, <4>1, <5>2, <5>4 DEF old, new
        <5> QED
          BY <2>2, <4>2, <5>1, <5>5 DEF WatchOK, LastWord, TimerTrue
      <4> QED
        BY <4>3, <4>4
    <3> QED
      BY <3>3, <3>4
  <2> QED
    BY <2>3, <2>4
<1>15. ASSUME NEW c \in Net, Reconfigure(c) PROVE WatchOK'
  BY <1>15 DEF Reconfigure, task, WatchOK, LastWord, NoneLater, TimerTrue
<1>16. CASE UNCHANGED vars
  BY <1>16 DEF vars, WatchOK, LastWord, NoneLater, TimerTrue
<1> QED
  BY <1>3, <1>4, <1>5, <1>6, <1>7, <1>8, <1>9, <1>10, <1>11, <1>12, <1>13, <1>14, <1>15, <1>16,
     StepCases DEF Ticks

\* Whatever the length of a lease, the margin and the pace of etcd: once the events
\* are handled, the timer of the renewal is set by what etcd holds, within the time
\* the answer to one request takes.
THEOREM TimerArmed == Spec => []TimerTrue
<1>1. Init => TypeOK /\ PhaseOK /\ WatchOK
  BY TypeInit DEF Init, WatchOK, LastWord, NoneLater, TimerTrue
<1>2. TypeOK /\ PhaseOK /\ WatchOK /\ [Next]_vars => TypeOK' /\ PhaseOK' /\ WatchOK'
  BY TypeStep, WatchStep
<1>3. WatchOK => TimerTrue
  BY DEF WatchOK
<1> QED
  BY <1>1, <1>2, <1>3, PTL DEF Spec
(***************************************************************************)
(* What is left of the registration: never less than the timer counts on,  *)
(* but for what an answer, and the renewals that failed, have cost.        *)
(***************************************************************************)

Spent == fails * (Retry + Latency)

Enough ==
  /\ pc \notin Running => fails = 0
  /\ pc \in {"updated", "created", "renewed"} => ttl[subnet] + Latency + age >= TTL
  /\ pc = "updated" => exp <= ttl[subnet] + Latency
  /\ pc \in {"rename", "begin"} => exp <= ttl[subnet] + 2 * Latency
  /\ pc = "run" /\ fails < TTL => timer + Margin <= ttl[subnet] + 2 * Latency + Spent
  /\ pc = "renew" /\ fails < TTL => Margin <= ttl[subnet] + 2 * Latency + Spent + age

\* What the renewals that failed have cost, and one more would.
LEMMA SpentFacts ==
  ASSUME TypeOK
  PROVE  /\ Spent \in Nat /\ fails <= Spent
         /\ \A n \in Nat : n = fails + 1 => n * (Retry + Latency) = Spent + Retry + Latency
<1>1. fails \in Nat /\ Retry + Latency \in Nat \ {0} /\ Retry \in Nat /\ Latency \in Nat
  BY TimingAssumption DEF TypeOK
<1>2. \A n, k \in Nat : n * k \in Nat /\ (k # 0 => n <= n * k) /\ (n + 1) * k = n * k + k
  OBVIOUS
<1> QED
  BY <1>1, <1>2 DEF Spent

\* Every step keeps enough of the registration for what the daemon is at.
LEMMA EnoughStep ==
  ASSUME TypeOK, PhaseOK, NoneLater, Enough, [Next]_vars
  PROVE  Enough'
<1> DEFINE left == ttl[subnet]
<1>0. /\ TTL \in Nat /\ Margin \in Nat /\ Latency \in Nat /\ Retry \in Nat \ {0}
      /\ ttl \in [Subnet -> 0..TTL] /\ subnet \in Subnet /\ left \in 0..TTL
      /\ timer \in 0..TTL /\ exp \in 0..TTL /\ age \in Nat /\ fails \in 0..TTL
      /\ Spent \in Nat /\ told \in Seq(Message)
  BY TimingAssumption, SpentFacts DEF TypeOK, Message
<1>1. ASSUME UNCHANGED <<ttl, pc, age, subnet, exp, timer, fails>> PROVE Enough'
  BY <1>1 DEF Enough, Spent
<1>2. ASSUME fails' = fails, pc \notin Running, pc' \in {"down", "failed", "read", "acquire", "found", "update", "create"}
      PROVE  Enough'
  BY <1>2 DEF Enough, Running
<1>3. ASSUME NEW there \in {"down", "failed"}, End(there) PROVE Enough'
  BY <1>3 DEF End, Enough, Running
<1>4. CASE Start \/ ReadConfig \/ Reuse \/ Allocate \/ SendUpdate
  BY <1>2, <1>4 DEF Start, ReadConfig, Reuse, Allocate, AimAt, SendUpdate, At, Running
<1>5. CASE UpdateSubnet \/ CreateSubnet \/ RenewPut
  <2>0. /\ PutReaches /\ pc \in Asking
        /\ \/ pc = "update" /\ pc' = "updated"
           \/ pc = "create" /\ pc' = "created"
           \/ pc = "renew" /\ pc' = "renewed"
    BY <1>5 DEF UpdateSubnet, CreateSubnet, RenewPut, At, Asking
  <2>1. PICK l \in 0..TTL :
          l + Latency >= TTL /\ ttl'[subnet'] = l /\ age' = 0 /\ exp' = exp /\ fails' = fails
    BY <2>0, PutFacts
  <2> QED
    BY <1>0, <2>0, <2>1 DEF Enough, Running
<1>6. CASE Answered
  <2>1. /\ pc \in {"updated", "created"} /\ pc' = "rename" /\ left' = left /\ fails' = fails
        /\ exp' = IF pc = "created" THEN TTL ELSE exp
    BY <1>6 DEF Answered, etcd
  <2>2. age <= Latency
    BY <2>1 DEF PhaseOK, Asking
  <2> QED
    BY <1>0, <2>1, <2>2 DEF Enough, Running
<1>7. CASE RenameFile
  BY <1>7 DEF RenameFile, At, etcd, Enough, Running
<1>8. CASE Begin
  <2>1. /\ pc = "begin" /\ pc' = "run" /\ left' = left /\ fails' = fails /\ fails = 0
        /\ timer' = exp - Margin /\ exp <= left + 2 * Latency
    BY <1>8 DEF Begin, At, etcd, Enough, Running
  <2> HIDE DEF left
  <2>2. timer' + Margin <= left' + 2 * Latency + 0
    BY <1>0, <2>1
  <2>3. Spent' = 0
    BY <1>0, <2>1 DEF Spent
  <2> QED
    BY <2>1, <2>2, <2>3 DEF Enough, Running, left
<1>9. CASE TimerFires
  <2>1. /\ pc = "run" /\ pc' = "renew" /\ timer = 0 /\ age' = 0
        /\ left' = left /\ fails' = fails /\ Spent' = Spent
    BY <1>9 DEF TimerFires, At, etcd, Spent
  <2> QED
    BY <1>0, <2>1 DEF Enough, Running
<1>10. CASE RenewDone
  <2>1. /\ pc = "renewed" /\ pc' = "run" /\ timer' = TTL - Margin /\ fails' = 0 /\ left' = left
        /\ left + Latency + age >= TTL
    BY <1>10 DEF RenewDone, At, etcd, Enough
  <2>2. Spent' = 0 /\ age <= Latency
    BY <1>0, <2>1 DEF Spent, PhaseOK, Asking
  <2> QED
    BY <1>0, <2>1, <2>2 DEF Enough, Running
<1>11. CASE RenewFails
  <2>1. /\ pc = "renew" /\ pc' = "run" /\ timer' = Retry /\ left' = left
        /\ fails' = IF fails < TTL THEN fails + 1 ELSE fails
    BY <1>11 DEF RenewFails, At, etcd
  <2>2. age <= Latency
    BY <2>1 DEF PhaseOK, Asking
  <2>3. CASE fails < TTL
    <3>1. Spent' = Spent + Retry + Latency
      BY <1>0, <2>1, <2>3, SpentFacts DEF Spent
    <3>2. Margin <= left + 2 * Latency + Spent + age
      BY <2>1, <2>3 DEF Enough
    <3> HIDE DEF left
    <3>3. timer' + Margin <= left' + 2 * Latency + Spent'
      BY <1>0, <2>1, <2>2, <3>1, <3>2
    <3> QED
      BY <2>1, <3>3 DEF Enough, Running, left
  <2>4. CASE fails = TTL
    BY <1>0, <2>1, <2>4 DEF Enough, Running
  <2> QED
    BY <1>0, <2>3, <2>4
<1>12. CASE WatchGet \/ WatchFails \/ DropExpiredPut \/ (\E c \in Net : Reconfigure(c)) \/ UNCHANGED vars
  BY <1>1, <1>12 DEF WatchGet, WatchFails, DropExpiredPut, Reconfigure, vars, etcd
<1>13. CASE Adopt
  <2>1. /\ pc = "run" /\ pc' = "run" /\ told # <<>> /\ timer' = Head(told).left - Margin
        /\ left' = left /\ fails' = fails /\ Spent' = Spent
    BY <1>13 DEF Adopt, EventIs, etcd, Spent
  <2>2. Head(told).left \in Nat /\ Head(told).left <= left + 2 * Latency
    <3>1. Head(told) = told[1] /\ Head(told) \in Message /\ 1 \in 1..Len(told)
      BY <1>0, <2>1, TailFacts
    <3>2. Head(told).left \in Nat /\ Head(told).held \in 0..Latency
      BY <3>1 DEF Message
    <3>3. Head(told).left <= left + Latency + Head(told).held
      BY <3>1 DEF NoneLater
    <3> HIDE DEF left
    <3> QED
      BY <1>0, <3>2, <3>3
  <2> HIDE DEF left
  <2>3. timer' + Margin <= left' + 2 * Latency + Spent'
    BY <1>0, <2>1, <2>2
  <2> QED
    BY <2>1, <2>3 DEF Enough, Running, left
<1>14. CASE Ticks
  <2>0. ~Urgent /\ \E j \in 0..Len(told) : Pass(j)
    BY <1>14, TicksPass
  <2>1. PICK j \in 0..Len(told) : Pass(j) /\ ~Urgent
    BY <2>0
  <2>2. /\ left' = Less(left) /\ UNCHANGED <<pc, subnet, fails>> /\ Spent' = Spent
        /\ pc \in Asking => age' = age + 1
        /\ exp' = IF pc = "found" THEN exp ELSE Less(exp)
        /\ pc = "run" => timer > 0 /\ timer' = Less(timer)
        /\ pc \notin {"rename", "begin"}
    BY <1>0, <2>1 DEF Pass, Urgent, Spent
  <2> HIDE DEF left
  <2>3. /\ Less(left) \in 0..TTL /\ Less(left) >= left - 1
        /\ \A k \in Nat : exp <= left + k => Less(exp) <= Less(left) + k
        /\ timer > 0 => Less(timer) = timer - 1
    BY <1>0 DEF Less
  <2>4. (pc \notin Running => fails = 0)'
    BY <2>2 DEF Enough, Running
  <2>5. (pc \in {"updated", "created", "renewed"} => left + Latency + age >= TTL)'
    BY <1>0, <2>2, <2>3 DEF Enough, Asking, left
  <2>6. (pc = "updated" => exp <= left + Latency)'
    BY <1>0, <2>2, <2>3 DEF Enough, left
  <2>7. (pc = "run" /\ fails < TTL => timer + Margin <= left + 2 * Latency + Spent)'
    BY <1>0, <2>2, <2>3 DEF Enough, left
  <2>8. (pc = "renew" /\ fails < TTL => Margin <= left + 2 * Latency + Spent + age)'
    <3>1. SUFFICES ASSUME pc = "renew", fails < TTL
                   PROVE  Margin <= Less(left) + 2 * Latency + Spent + (age + 1)
      BY <2>2 DEF Asking, left
    <3>2. Margin <= left + 2 * Latency + Spent + age
      BY <3>1 DEF Enough, left
    <3> QED
      BY <1>0, <2>3, <3>2
  <2> QED
    BY <2>2, <2>4, <2>5, <2>6, <2>7, <2>8 DEF Enough, left
<1> QED
  BY <1>3, <1>4, <1>5, <1>6, <1>7, <1>8, <1>9, <1>10, <1>11, <1>12, <1>13, <1>14,
     StepCases DEF Ticks

\* Enough is more than nothing while the failures fit into the margin.
LEMMA EnoughKeeps ==
  ASSUME TypeOK, PhaseOK, Enough
  PROVE  KeptRegistered
<1> DEFINE left == ttl[subnet]
<1>1. /\ TTL \in Nat /\ Margin \in Nat /\ Latency \in Nat /\ left \in Nat /\ timer \in Nat
      /\ age \in Nat /\ fails \in Nat /\ Spent \in Nat /\ fails <= Spent
      /\ 3 * Latency < Margin /\ Margin + 5 * Latency + 1 <= TTL
  BY TimingAssumption, SpentFacts DEF TypeOK
<1>2. SUFFICES ASSUME pc \in Running, Spent + 3 * Latency < Margin PROVE left > 0
  BY DEF KeptRegistered, Spent
<1>3. fails < TTL /\ (pc \in Asking => age <= Latency)
  BY <1>1, <1>2 DEF PhaseOK
<1>4. /\ pc = "run" => timer + Margin <= left + 2 * Latency + Spent
      /\ pc = "renew" => Margin <= left + 2 * Latency + Spent + age
      /\ pc = "renewed" => left + Latency + age >= TTL
  BY <1>3 DEF Enough
<1> HIDE DEF left
<1> QED
  BY <1>1, <1>2, <1>3, <1>4 DEF Running, Asking

\* The registration does not end under a running daemon while the renewals that
\* failed in a row, each with its retry, fit into the margin.
THEOREM LeaseKept == Spec => []KeptRegistered
<1>1. Init => TypeOK /\ PhaseOK /\ WatchOK /\ Enough
  BY TypeInit DEF Init, WatchOK, LastWord, NoneLater, TimerTrue, Enough, Running
<1>2. TypeOK /\ PhaseOK /\ WatchOK /\ Enough /\ [Next]_vars
        => TypeOK' /\ PhaseOK' /\ WatchOK' /\ Enough'
  BY TypeStep, WatchStep, EnoughStep DEF WatchOK
<1>3. TypeOK /\ PhaseOK /\ Enough => KeptRegistered
  BY EnoughKeeps
<1> QED
  BY <1>1, <1>2, <1>3, PTL DEF Spec

(***************************************************************************)
(* The subnet file                                                         *)
(***************************************************************************)

FileOK ==
  /\ file # Partial
  /\ pc \in {"begin"} \cup Running => file = [net |-> main, subnet |-> subnet]

\* Every step keeps the file whole and that of the daemon's subnet.
LEMMA FileStep ==
  ASSUME TypeOK, FileOK, [Next]_vars
  PROVE  FileOK'
<1>1. ASSUME NEW there \in {"down", "failed"}, End(there) PROVE FileOK'
  BY <1>1 DEF End, FileOK, Running
<1>2. CASE RenameFile
  <2>1. [net |-> main, subnet |-> subnet] \in [net : Net, subnet : Subnet]
    BY DEF TypeOK
  <2> QED
    BY <1>2, <2>1, FileAssumption DEF RenameFile, At, FileOK
<1>3. CASE Start \/ ReadConfig \/ Reuse \/ Allocate \/ SendUpdate \/ UpdateSubnet \/ CreateSubnet \/ Answered
  BY <1>3 DEF Start, ReadConfig, Reuse, Allocate, AimAt, SendUpdate, UpdateSubnet, CreateSubnet,
              PutReaches, Answered, At, FileOK, Running
<1>4. CASE Begin \/ TimerFires \/ RenewPut \/ RenewDone \/ RenewFails
  BY <1>4 DEF Begin, TimerFires, RenewPut, PutReaches, RenewDone, RenewFails, At, FileOK, Running
<1>5. CASE WatchGet \/ WatchFails \/ Adopt \/ DropExpiredPut \/ (\E c \in Net : Reconfigure(c))
  BY <1>5 DEF WatchGet, WatchFails, Adopt, DropExpiredPut, Reconfigure, FileOK
<1>6. CASE Ticks
  BY <1>6, TicksPass DEF Pass, FileOK
<1>7. CASE UNCHANGED vars
  BY <1>7 DEF vars, FileOK
<1> QED
  BY <1>1, <1>2, <1>3, <1>4, <1>5, <1>6, <1>7, StepCases DEF Ticks

\* Whenever the daemon is killed, the subnet file is whole, and it is the file of the
\* subnet of the daemon that runs.
THEOREM FileWhole == Spec => []FileTrue
<1>1. Init => TypeOK /\ PhaseOK /\ FileOK
  BY TypeInit, FileAssumption DEF Init, FileOK, Running
<1>2. TypeOK /\ PhaseOK /\ FileOK /\ [Next]_vars => TypeOK' /\ PhaseOK' /\ FileOK'
  BY TypeStep, FileStep
<1>3. FileOK => FileTrue
  BY DEF FileOK, FileTrue
<1> QED
  BY <1>1, <1>2, <1>3, PTL DEF Spec
==============================================================================
