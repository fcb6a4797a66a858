------------------------ MODULE SubnetMaster_proofs -------------------------
(***************************************************************************)
(* The allocators of SubnetMaster, and what every step keeps of the types  *)
(* of its variables and of the subnets that occur in them, for every set   *)
(* of nodes, number and size of networks, and bound on what happens.       *)
(***************************************************************************)
EXTENDS SubnetMaster, TLAPS

\* Time enough for a leaf on a slow or busy machine.
USE SMTT(60)

-----------------------------------------------------------------------------
(***************************************************************************)
(* The list of allocators, for every number of networks of every size.     *)
(***************************************************************************)
\* What is needed of Min.
MinFact == \A I \in SUBSET Nat : I # {} => Min(I) \in I /\ \A i \in I : Min(I) <= i

Allocator == [base : Nat, netBits : Nat, hostBits : Nat, next : Nat, allocMap : SUBSET Nat]

\* The networks of the list have subnets, which are in no other of them, and
\* each allocator has marked only subnets of its own network.
Sound(list, k) ==
  /\ numSubnets(list[k]) \in Nat \ {0}
  /\ list[k].allocMap \subseteq Subnets(list[k])
  /\ \A x \in Subnets(list[k]) :
       x \in Nat /\ \A j \in DOMAIN list : InNetwork(list[j], x) <=> j = k

ListOK(list) ==
  /\ list \in Seq(Allocator) /\ list # <<>>
  /\ \A k \in DOMAIN list : Sound(list, k)

\* The subnets of all the networks.
Owned(list) == UNION {Subnets(list[k]) : k \in DOMAIN list}

SameShape(a, b) == a.base = b.base /\ a.netBits = b.netBits /\ a.hostBits = b.hostBits

\* What an allocator computes from its network depends on nothing else of it.
LEMMA ShapeDetermines ==
  ASSUME NEW a, NEW b, SameShape(a, b)
  PROVE  /\ numSubnets(a) = numSubnets(b)
         /\ \A x : InNetwork(a, x) <=> InNetwork(b, x)
         /\ \A n : genSubnet(a, n) = genSubnet(b, n)
         /\ Subnets(a) = Subnets(b)
<1>1. numSubnets(a) = numSubnets(b)
  BY Zenon DEF numSubnets, SameShape
<1>2. \A x : InNetwork(a, x) <=> InNetwork(b, x)
  BY Zenon DEF InNetwork, SameShape
<1>3. \A n : genSubnet(a, n) = genSubnet(b, n)
  BY Zenon DEF genSubnet, Rotates, SameShape
<1>4. Subnets(a) = Subnets(b)
  BY <1>1, <1>3 DEF Subnets
<1> QED
  BY <1>1, <1>2, <1>3, <1>4

\* A list that differs from a good one in what is marked, and in where the next
\* searches start, is good and has the same subnets.
LEMMA Remarked ==
  ASSUME NEW list, NEW new, ListOK(list), new \in [DOMAIN list -> Allocator],
         \A k \in DOMAIN list : SameShape(new[k], list[k])
                                /\ new[k].allocMap \subseteq Subnets(list[k])
  PROVE  ListOK(new) /\ Owned(new) = Owned(list)
<1>1. new \in Seq(Allocator) /\ DOMAIN new = DOMAIN list /\ new # <<>>
  BY DEF ListOK
<1>2. \A k \in DOMAIN list : /\ numSubnets(new[k]) = numSubnets(list[k])
                             /\ Subnets(new[k]) = Subnets(list[k])
                             /\ \A x : InNetwork(new[k], x) <=> InNetwork(list[k], x)
  BY ShapeDetermines, Zenon
<1>3. \A k \in DOMAIN new : Sound(new, k)
  BY <1>1, <1>2 DEF ListOK, Sound
<1> QED
  BY <1>1, <1>2, <1>3 DEF ListOK, Owned

\* releaseNetwork frees the subnet in whichever allocator has it.
LEMMA Released ==
  ASSUME NEW list, ListOK(list), NEW subnet
  PROVE  /\ ListOK(releaseNetwork(list, subnet))
         /\ Owned(releaseNetwork(list, subnet)) = Owned(list)
         /\ Taken(releaseNetwork(list, subnet)) = Taken(list) \ {subnet}
<1> DEFINE new == releaseNetwork(list, subnet)
<1>1. \A k \in DOMAIN list : /\ list[k] \in Allocator
                             /\ list[k].allocMap \subseteq Subnets(list[k])
  BY DEF ListOK, Sound
<1>2. /\ new \in [DOMAIN list -> Allocator]
      /\ \A k \in DOMAIN list : SameShape(new[k], list[k])
                                /\ new[k].allocMap = list[k].allocMap \ {subnet}
  BY <1>1 DEF releaseNetwork, Allocator, SameShape
<1> HIDE DEF new
<1>3. Taken(new) = Taken(list) \ {subnet}
  BY <1>2 DEF Taken
<1>4. \A k \in DOMAIN list : new[k].allocMap \subseteq Subnets(list[k])
  BY <1>1, <1>2
<1> QED
  BY <1>2, <1>3, <1>4, Remarked, Zenon DEF new

\* New allocators for the networks of a list, with the subnets in use marked.
LEMMA Marked ==
  ASSUME NEW list, ListOK(list), NEW subnets \in SUBSET (Owned(list) \cup {NoSubnet})
  PROVE  LET fresh == [k \in DOMAIN list |-> newSubnetAllocator(list[k])]
             new == markAllocatedNetworks(fresh, subnets)
         IN  /\ ListOK(fresh) /\ Owned(fresh) = Owned(list)
             /\ ListOK(new) /\ Owned(new) = Owned(list)
             /\ Taken(new) = subnets \ {NoSubnet}
<1> DEFINE fresh == [k \in DOMAIN list |-> newSubnetAllocator(list[k])]
           new == markAllocatedNetworks(fresh, subnets)
           mine(k) == {x \in subnets : InNetwork(list[k], x)}
<1>1. \A k \in DOMAIN list : list[k] \in Allocator
  BY DEF ListOK
<1>2. /\ fresh \in [DOMAIN list -> Allocator]
      /\ \A k \in DOMAIN list : SameShape(fresh[k], list[k]) /\ fresh[k].allocMap = {}
  BY <1>1 DEF newSubnetAllocator, Allocator, SameShape
<1>3. ListOK(fresh) /\ Owned(fresh) = Owned(list)
  BY <1>2, Remarked, Zenon
<1> HIDE DEF fresh
<1>4. \A k \in DOMAIN list : mine(k) \subseteq Subnets(list[k])
  <2> SUFFICES ASSUME NEW k \in DOMAIN list, NEW x \in subnets, InNetwork(list[k], x)
               PROVE  x \in Subnets(list[k])
    OBVIOUS
  <2>1. x # NoSubnet
    BY <1>1 DEF InNetwork, NoSubnet, Allocator
  <2>2. PICK j \in DOMAIN list : x \in Subnets(list[j])
    BY <2>1 DEF Owned
  <2>3. j = k
    BY <2>2 DEF ListOK, Sound
  <2> QED
    BY <2>2, <2>3
<1>5. \A k \in DOMAIN list : mine(k) \subseteq Nat
  BY <1>4 DEF ListOK, Sound
<1>6. /\ new \in [DOMAIN list -> Allocator]
      /\ \A k \in DOMAIN list : SameShape(new[k], list[k]) /\ new[k].allocMap = mine(k)
  <2>1. \A k \in DOMAIN list : \A x : InNetwork(fresh[k], x) <=> InNetwork(list[k], x)
    BY <1>2, ShapeDetermines, Zenon
  <2>2. new = [k \in DOMAIN list |-> [fresh[k] EXCEPT !.allocMap = @ \cup mine(k)]]
    BY <1>2, <2>1 DEF markAllocatedNetworks
  <2> HIDE DEF new
  <2> QED
    BY <1>2, <1>5, <2>2 DEF Allocator, SameShape
<1> HIDE DEF new
<1>7. ListOK(new) /\ Owned(new) = Owned(list)
  BY <1>4, <1>6, Remarked, ZenonT(40)
<1>8. Taken(new) = subnets \ {NoSubnet}
  <2>1. \A x \in subnets \ {NoSubnet} : \E k \in DOMAIN list : x \in mine(k)
    BY DEF Owned, ListOK, Sound
  <2>2. \A k \in DOMAIN list : NoSubnet \notin mine(k)
    BY <1>5 DEF NoSubnet
  <2>3. Taken(new) = UNION {mine(k) : k \in DOMAIN list}
    BY <1>6 DEF Taken
  <2> QED
    BY <2>1, <2>2, <2>3
<1> QED
  BY <1>3, <1>7, <1>8 DEF fresh, new

\* An allocator that has room hands out a free subnet of its network and marks
\* it; a full one hands out none and marks none.
LEMMA AllocatedByOne ==
  ASSUME MinFact, NEW list, ListOK(list), NEW k \in DOMAIN list
  PROVE  LET a == list[k]
             b == afterAllocate(a)
         IN  /\ b \in Allocator /\ SameShape(b, a)
             /\ Available(a) = {} => allocated(a) = NoSubnet /\ b.allocMap = a.allocMap
             /\ Available(a) # {} => /\ allocated(a) \in Subnets(a) \ a.allocMap
                                     /\ b.allocMap = a.allocMap \cup {allocated(a)}
<1> DEFINE a == list[k]
           b == afterAllocate(a)
<1>1. a \in Allocator /\ numSubnets(a) \in Nat \ {0} /\ Subnets(a) \subseteq Nat
  BY DEF ListOK, Sound
<1> HIDE DEF a
<1>2. CASE Available(a) = {}
  <2>1. allocated(a) = NoSubnet /\ b = [a EXCEPT !.next = 0]
    BY <1>2 DEF allocated, afterAllocate
  <2> HIDE DEF b
  <2>2. b \in Allocator /\ SameShape(b, a) /\ b.allocMap = a.allocMap
    BY <1>1, <2>1 DEF Allocator, SameShape
  <2> QED
    BY <1>2, <2>1, <2>2 DEF a, b
<1>3. CASE Available(a) # {}
  <2> DEFINE i == Min(Available(a))
             n == FirstAvailable(a)
             x == allocated(a)
  <2>1. i \in Available(a)
    <3>1. Available(a) \in SUBSET Nat
      BY <1>1 DEF Available
    <3> QED
      BY <1>3, <3>1, Zenon DEF MinFact
  <2>2. x = genSubnet(a, n) /\ x \notin a.allocMap
    <3>1. genSubnet(a, (i + a.next) % numSubnets(a)) \notin a.allocMap
      BY <2>1, Zenon DEF Available
    <3>2. x = genSubnet(a, n)
      BY <1>3, Zenon DEF allocated
    <3> QED
      BY <3>1, <3>2, Zenon DEF FirstAvailable
  <2>3. i \in Nat /\ a.next \in Nat
    BY <1>1, <2>1 DEF Available, Allocator
  <2>4. n \in 0 .. numSubnets(a) - 1
    <3> HIDE DEF i
    <3>1. n = (i + a.next) % numSubnets(a)
      BY DEF i, FirstAvailable
    <3> QED
      BY <1>1, <2>3, <3>1
  <2>5. x \in Subnets(a)
    BY <2>2, <2>4 DEF Subnets
  <2>6. b = [a EXCEPT !.next = n + 1, !.allocMap = @ \cup {x}]
    BY <1>3 DEF afterAllocate
  <2>7. x \in Nat /\ n + 1 \in Nat
    BY <1>1, <2>4, <2>5
  <2> HIDE DEF b, n, x
  <2>8. b \in Allocator /\ SameShape(b, a) /\ b.allocMap = a.allocMap \cup {x}
    <3> DEFINE c == [a EXCEPT !.next = n + 1]
    <3>1. c \in Allocator /\ SameShape(c, a) /\ c.allocMap = a.allocMap
      BY <1>1, <2>7 DEF Allocator, SameShape
    <3>2. b = [c EXCEPT !.allocMap = a.allocMap \cup {x}]
      BY <2>6, Zenon
    <3>3. a.allocMap \cup {x} \in SUBSET Nat
      BY <1>1, <2>7 DEF Allocator
    <3> HIDE DEF c
    <3> QED
      BY <3>1, <3>2, <3>3 DEF Allocator, SameShape
  <2> QED
    BY <1>3, <2>2, <2>5, <2>8 DEF a, b, x
<1> QED
  BY <1>2, <1>3

\* allocateNetwork returns a subnet that no allocator has marked and marks it,
\* or returns none and marks none.
LEMMA Allocated ==
  ASSUME MinFact, NEW list, ListOK(list)
  PROVE  LET r == allocateNetwork(list)
         IN  /\ ListOK(r.list) /\ Owned(r.list) = Owned(list)
             /\ \/ r.subnet = NoSubnet /\ Taken(r.list) = Taken(list)
                \/ /\ r.subnet \in Owned(list) \ Taken(list)
                   /\ Taken(r.list) = Taken(list) \cup {r.subnet}
<1> DEFINE room == WithRoom(list)
           last == IF room = {} THEN Len(list) ELSE Min(room)
           new == [k \in DOMAIN list |-> IF k <= last THEN afterAllocate(list[k]) ELSE list[k]]
           x == allocated(list[last])
<1>1. allocateNetwork(list).list = new /\ allocateNetwork(list).subnet = x
  BY DEF allocateNetwork
<1>2. /\ DOMAIN list = 1 .. Len(list) /\ Len(list) \in Nat \ {0}
      /\ \A k \in DOMAIN list : /\ list[k] \in Allocator
                                /\ list[k].allocMap \subseteq Subnets(list[k])
  BY DEF ListOK, Sound
<1>3. room \subseteq DOMAIN list /\ \A k \in DOMAIN list : k \in room <=> Available(list[k]) # {}
  BY DEF WithRoom
<1>4. room # {} => last \in room /\ \A k \in room : last <= k
  <2>1. room \in SUBSET Nat
    BY <1>2, <1>3
  <2> QED
    BY <2>1, Zenon DEF MinFact
<1>5. last \in DOMAIN list /\ \A k \in DOMAIN list : k < last => k \notin room
  <2>1. CASE room = {}
    BY <1>2, <2>1
  <2>2. CASE room # {}
    <3> HIDE DEF last
    <3> QED
      BY <1>2, <1>3, <1>4, <2>2
  <2> QED
    BY <2>1, <2>2
<1>6. \A k \in DOMAIN list : k <= last /\ k # last => Available(list[k]) = {}
  BY <1>2, <1>3, <1>5
<1> HIDE DEF last, room
<1>7. \A k \in DOMAIN list :
        /\ new[k] \in Allocator /\ SameShape(new[k], list[k])
        /\ k # last => new[k].allocMap = list[k].allocMap
  <2> SUFFICES ASSUME NEW k \in DOMAIN list
               PROVE  /\ new[k] \in Allocator /\ SameShape(new[k], list[k])
                      /\ k # last => new[k].allocMap = list[k].allocMap
    OBVIOUS
  <2>1. CASE k <= last
    <3>1. new[k] = afterAllocate(list[k])
      BY <2>1
    <3>2. new[k] \in Allocator /\ SameShape(new[k], list[k])
      BY <3>1, AllocatedByOne, Zenon
    <3>3. k # last => new[k].allocMap = list[k].allocMap
      BY <1>6, <2>1, <3>1, AllocatedByOne, Zenon
    <3> QED
      BY <3>2, <3>3
  <2>2. CASE ~(k <= last)
    BY <1>2, <2>2 DEF SameShape
  <2> QED
    BY <2>1, <2>2
<1>8. new[last] = afterAllocate(list[last])
  BY <1>2, <1>5
<1>9. CASE Available(list[last]) = {}
  <2>1. x = NoSubnet /\ new[last].allocMap = list[last].allocMap
    BY <1>5, <1>8, <1>9, AllocatedByOne, Zenon
  <2>2. \A k \in DOMAIN list : new[k].allocMap = list[k].allocMap
    BY <1>7, <2>1
  <2> HIDE DEF new, x
  <2>3. new \in [DOMAIN list -> Allocator]
    BY <1>7 DEF new
  <2>4. Taken(new) = Taken(list)
    BY <2>2, <2>3 DEF Taken
  <2>5. ListOK(new) /\ Owned(new) = Owned(list)
    BY <1>2, <1>7, <2>2, <2>3, Remarked, Zenon
  <2> QED
    BY <1>1, <2>1, <2>4, <2>5
<1>10. CASE Available(list[last]) # {}
  <2>1. /\ x \in Subnets(list[last]) \ list[last].allocMap
        /\ new[last].allocMap = list[last].allocMap \cup {x}
    BY <1>5, <1>8, <1>10, AllocatedByOne, Zenon
  <2> HIDE DEF new, x
  <2>2. \A k \in DOMAIN list : new[k].allocMap \subseteq Subnets(list[k])
    BY <1>2, <1>7, <2>1
  <2>3. new \in [DOMAIN list -> Allocator]
    BY <1>7 DEF new
  <2>4. Taken(new) = Taken(list) \cup {x}
    BY <1>5, <1>7, <2>1, <2>3 DEF Taken
  <2>5. ListOK(new) /\ Owned(new) = Owned(list)
    BY <1>7, <2>2, <2>3, Remarked, Zenon
  <2>6. x \in Owned(list) /\ x \notin Taken(list)
    <3>1. \A k \in DOMAIN list : x \in Subnets(list[k]) => k = last
      BY <1>5, <2>1 DEF ListOK, Sound
    <3> QED
      BY <1>2, <1>5, <2>1, <3>1 DEF Owned, Taken
  <2> QED
    BY <1>1, <2>4, <2>5, <2>6
<1> QED
  BY <1>9, <1>10

-----------------------------------------------------------------------------
USE NamesAssumption, BoundsAssumption

\* What is needed of the library: finite sets have a size.
Facts == MinFact /\ \A names \in SUBSET Names : Cardinality(names) \in Nat

-----------------------------------------------------------------------------
(***************************************************************************)
(* The invariant, where own is the set of all subnets of the networks.     *)
(***************************************************************************)
\* A HostSubnet that does not exist has no subnet, nor has one that asks for it.
Objs(own) ==
  {hs \in HostSubnet : /\ hs.subnet \in own \cup {NoSubnet}
                       /\ ~Exists(hs) \/ hs.assign => hs.subnet = NoSubnet}

Events(own) == [name : Names, obj : Objs(own)]

\* A goroutine that is busy is so for somebody, with an address while it is in
\* addNode, and with a subnet when and only when it is about to create a
\* HostSubnet.
AddSteps == {"get", "deleteInvalid", "update", "allocate", "create"}
Workers(own) ==
  {w \in Worker : /\ w.subnet \in own \cup {NoSubnet}
                  /\ w.step # "idle" => w.name \in Names
                  /\ w.step \in AddSteps => w.ip # NoIP
                  /\ w.step = "create" => w.subnet \in own
                  /\ w.step # "create" => w.subnet = NoSubnet}

NodesInv ==
  /\ nodes \in [Names -> Node] /\ births \in [Names -> 0 .. MaxBirths]
  /\ nodeCache \in [Names -> Node] /\ nodeEvents \in Seq(NodeEvent)
  /\ nodePending \in Seq(PendingNode)
HostInv(own) ==
  /\ hostSubnets \in [Names -> Objs(own)] /\ subnetCache \in [Names -> Objs(own)]
  /\ subnetEvents \in Seq(Events(own))
AllocInv(own) == ListOK(allocators) /\ Owned(allocators) = own
WorkInv(own) == worker \in [Goroutines -> Workers(own)]
MemoryInv ==
  /\ hostSubnetNodeIPs \in [Names \X UIDs -> NodeIPs \cup {NoIP}]
  /\ phase \in {"synced", "listed", "watchingNodes", "running"}
  /\ loose \subseteq Nat /\ budget \in Budget

\* The handlers run only once the allocators have been told what is in use.
Started == phase = "synced" => \A g \in Goroutines : worker[g].step = "idle"

Static(own) ==
  NodesInv /\ HostInv(own) /\ AllocInv(own) /\ WorkInv(own) /\ MemoryInv /\ Started

-----------------------------------------------------------------------------
(***************************************************************************)
(* The parts that steps are made of.                                       *)
(***************************************************************************)
\* The subnets of the allocators are addresses.
LEMMA OwnedNat ==
  ASSUME NEW own, AllocInv(own)
  PROVE  own \subseteq Nat
BY DEF AllocInv, ListOK, Sound, Owned

\* Spending leaves a budget.
LEMMA Spent ==
  ASSUME budget \in Budget, NEW field \in {"users", "admins", "faults", "gaps", "restarts"},
         Spend(field)
  PROVE  budget' \in Budget
<1>1. budget[field] \in Nat /\ budget[field] > 0
  BY DEF Budget, Spend
<1>2. budget[field] - 1 \in Nat
  BY <1>1
<1> QED
  BY <1>2 DEF Budget, Spend

\* A call whose outcome is chosen spends the budget of faults within its range.
LEMMA OutcomeSpent ==
  ASSUME budget \in Budget, NEW o, Outcome(o)
  PROVE  budget' \in Budget
BY Spent, Zenon DEF Outcome

Stores(n, obj) ==
  /\ hostSubnets' = [hostSubnets EXCEPT ![n] = obj]
  /\ subnetEvents' = Append(subnetEvents, [name |-> n, obj |-> obj])

\* Write stores the HostSubnet, with a new version, and makes an event of it.
LEMMA WriteShape ==
  ASSUME NEW own, HostInv(own), NEW n \in Names, NEW hs \in Objs(own), Write(n, hs)
  PROVE  \E obj \in Objs(own) :
           obj.subnet = hs.subnet /\ obj.ip = hs.ip /\ Stores(n, obj)
<1> DEFINE v == hostSubnets[n].version + 1
           obj == [hs EXCEPT !.version = v]
<1>1. v \in Nat
  BY DEF HostInv, Objs, HostSubnet
<1>2. hs \in HostSubnet
  BY DEF Objs
<1> HIDE DEF v
<1>3. /\ obj \in HostSubnet /\ obj.subnet = hs.subnet /\ obj.ip = hs.ip
      /\ obj.assign = hs.assign
  BY <1>1, <1>2 DEF HostSubnet
<1> HIDE DEF obj
<1>4. obj \in Objs(own)
  BY <1>3 DEF Objs, Exists
<1> QED
  BY <1>3, <1>4, Zenon DEF Write, Stores, obj, v

\* Write keeps the HostSubnets and their events in their types.
LEMMA WriteKeeps ==
  ASSUME NEW own, HostInv(own), NEW n \in Names, NEW hs \in Objs(own), Write(n, hs),
         UNCHANGED subnetCache
  PROVE  HostInv(own)'
<1>1. PICK obj \in Objs(own) :
         /\ hostSubnets' = [hostSubnets EXCEPT ![n] = obj]
         /\ subnetEvents' = Append(subnetEvents, [name |-> n, obj |-> obj])
  BY WriteShape, Zenon DEF Stores
<1>2. hostSubnets' \in [Names -> Objs(own)]
  BY <1>1 DEF HostInv
<1>3. [name |-> n, obj |-> obj] \in Events(own)
  BY DEF Events
<1>4. subnetEvents' \in Seq(Events(own))
  BY <1>1, <1>3 DEF HostInv
<1> QED
  BY <1>2, <1>4 DEF HostInv

\* A call writes, if at all, a HostSubnet that may be written.
LEMMA CallKeeps ==
  ASSUME NEW own, HostInv(own), NEW o, NEW valid, NEW n \in Names, NEW hs,
         valid => hs \in Objs(own), Call(o, valid, n, hs), budget \in Budget,
         UNCHANGED subnetCache
  PROVE  HostInv(own)' /\ budget' \in Budget
<1>1. budget' \in Budget
  BY OutcomeSpent, Zenon DEF Call
<1>2. CASE valid /\ o # "error"
  <2>1. Write(n, hs)
    BY <1>2, Zenon DEF Call
  <2> QED
    BY <1>1, <1>2, <2>1, WriteKeeps, Zenon
<1>3. CASE ~(valid /\ o # "error")
  <2>1. UNCHANGED <<hostSubnets, subnetEvents>>
    BY <1>3, Zenon DEF Call
  <2> QED
    BY <1>1, <2>1 DEF HostInv
<1> QED
  BY <1>2, <1>3, Zenon

\* The object that stands for no HostSubnet has no subnet.
LEMMA AbsentIsObj ==
  ASSUME NEW own
  PROVE  Absent \in Objs(own) /\ Absent.subnet = NoSubnet /\ ~Exists(Absent)
BY DEF Absent, Objs, HostSubnet, Exists, NoSubnet

\* A goroutine that has returned carries no subnet.
LEMMA IdleIsWorker ==
  ASSUME NEW own
  PROVE  Idle \in Workers(own) /\ Idle.step = "idle" /\ Idle.subnet = NoSubnet
BY DEF Idle, Workers, Worker, Steps, AddSteps, NoSubnet

\* A goroutine goes on to another step.
LEMMA NextStep ==
  ASSUME NEW own, NEW w \in Workers(own), NEW step \in Steps \ {"create"},
         w.step # "create", w.name \in Names, step \in AddSteps => w.ip # NoIP
  PROVE  [w EXCEPT !.step = step] \in Workers(own)
<1> DEFINE v == [w EXCEPT !.step = step]
<1>1. w \in Worker
  BY DEF Workers
<1>2. v \in Worker /\ v.step = step /\ v.name = w.name /\ v.ip = w.ip /\ v.subnet = w.subnet
  BY <1>1 DEF Worker
<1> HIDE DEF v
<1>3. v \in Workers(own)
  BY <1>2 DEF Workers
<1> QED
  BY <1>3 DEF v

\* One goroutine moves, once the handlers run.
LEMMA Moves ==
  ASSUME NEW own, WorkInv(own), NEW g \in Goroutines, NEW w \in Workers(own), Becomes(g, w)
  PROVE  WorkInv(own)'
BY DEF WorkInv, Becomes

\* A master that has its allocators keeps them while its phase stays.
LEMMA StaysStarted ==
  ASSUME phase # "synced", UNCHANGED phase
  PROVE  Started'
BY DEF Started

\* A handler only runs when the allocators are initialised.
LEMMA BusyIsStarted ==
  ASSUME Started, NEW g \in Goroutines, worker[g].step # "idle"
  PROVE  phase # "synced"
BY DEF Started

NodeIPsType == [Names \X UIDs -> NodeIPs \cup {NoIP}]

\* An assignment to one place of a map keeps its type.
LEMMA ExceptKeeps ==
  ASSUME NEW D, NEW R, NEW f \in [D -> R], NEW x, NEW v \in R
  PROVE  [f EXCEPT ![x] = v] \in [D -> R]
BY Zenon

\* The return of a handler leaves an idle goroutine and, if it did not fail, one
\* more entry of hostSubnetNodeIPs.
LEMMA ReturnsKeeps ==
  ASSUME NEW own, WorkInv(own), hostSubnetNodeIPs \in NodeIPsType, NEW g \in Goroutines,
         NEW ok, Returns(g, ok)
  PROVE  WorkInv(own)' /\ hostSubnetNodeIPs' \in NodeIPsType
<1>1. WorkInv(own)'
  BY IdleIsWorker, Moves, Zenon DEF Returns
<1>2. worker[g].ip \in NodeIPs \cup {NoIP}
  BY DEF WorkInv, Workers, Worker
<1>3. \/ hostSubnetNodeIPs' = hostSubnetNodeIPs
      \/ hostSubnetNodeIPs' =
           [hostSubnetNodeIPs EXCEPT ![<<worker[g].name, worker[g].uid>>] = worker[g].ip]
  BY Zenon DEF Returns
<1>4. hostSubnetNodeIPs' \in NodeIPsType
  BY <1>2, <1>3, ExceptKeeps, Zenon DEF NodeIPsType
<1> QED
  BY <1>1, <1>4

\* What a step of a busy goroutine starts from.
LEMMA Busy ==
  ASSUME NEW own, Static(own), NEW g \in Goroutines, worker[g].step # "idle"
  PROVE  /\ NodesInv /\ HostInv(own) /\ AllocInv(own) /\ WorkInv(own) /\ MemoryInv /\ Started
         /\ worker[g] \in Workers(own) /\ worker[g].name \in Names
         /\ worker[g].step \in AddSteps => worker[g].ip \in NodeIPs
         /\ hostSubnets[worker[g].name] \in Objs(own)
         /\ phase # "synced" /\ budget \in Budget /\ hostSubnetNodeIPs \in NodeIPsType
<1>1. NodesInv /\ HostInv(own) /\ AllocInv(own) /\ WorkInv(own) /\ MemoryInv /\ Started
  BY DEF Static
<1>2. worker[g] \in Workers(own)
  BY <1>1 DEF WorkInv
<1>3. worker[g].name \in Names /\ (worker[g].step \in AddSteps => worker[g].ip \in NodeIPs)
  BY <1>2 DEF Workers, Worker
<1>4. hostSubnets[worker[g].name] \in Objs(own)
  BY <1>1, <1>3 DEF HostInv
<1>5. phase # "synced"
  BY <1>1, BusyIsStarted, Zenon
<1>6. budget \in Budget /\ hostSubnetNodeIPs \in NodeIPsType
  BY <1>1, Zenon DEF MemoryInv, NodeIPsType
<1> QED
  BY <1>1, <1>2, <1>3, <1>4, <1>5, <1>6, Zenon

\* addNode reads the HostSubnet.
LEMMA GetKeeps ==
  ASSUME NEW own, Static(own), NEW g \in Goroutines, addNodeGet(g)
  PROVE  Static(own)'
<1> DEFINE w == worker[g]
           hs == hostSubnets[w.name]
<1>0. w.step = "get"
  BY Zenon DEF addNodeGet
<1>1. /\ NodesInv /\ HostInv(own) /\ AllocInv(own) /\ WorkInv(own) /\ MemoryInv
      /\ w \in Workers(own) /\ w.name \in Names /\ w.ip \in NodeIPs /\ hs \in Objs(own)
      /\ phase # "synced" /\ budget \in Budget /\ hostSubnetNodeIPs \in NodeIPsType
  BY <1>0, Busy, Zenon DEF AddSteps
<1>2. /\ UNCHANGED <<nodes, births, hostSubnets, nodeEvents, nodeCache, nodePending>>
      /\ UNCHANGED <<subnetEvents, subnetCache, phase, loose, allocators>>
  BY DEF addNodeGet, api, nodeInformer, subnetInformer, startup
<1>3. PICK o \in {"ok"} \cup Faults :
        /\ Outcome(o)
        /\ \/ GoesTo(g, "allocate") /\ UNCHANGED hostSubnetNodeIPs
           \/ GoesTo(g, "deleteInvalid") /\ UNCHANGED hostSubnetNodeIPs
           \/ Returns(g, TRUE)
           \/ /\ Becomes(g, [w EXCEPT !.step = "update", !.version = hs.version])
              /\ UNCHANGED hostSubnetNodeIPs
  BY Zenon DEF addNodeGet
<1>4. WorkInv(own)' /\ hostSubnetNodeIPs' \in NodeIPsType
  <2>1. CASE GoesTo(g, "allocate") /\ UNCHANGED hostSubnetNodeIPs
    <3>1. [w EXCEPT !.step = "allocate"] \in Workers(own)
      BY <1>0, <1>1, NextStep, Zenon DEF Steps
    <3> QED
      BY <1>1, <2>1, <3>1, Moves, Zenon DEF GoesTo
  <2>2. CASE GoesTo(g, "deleteInvalid") /\ UNCHANGED hostSubnetNodeIPs
    <3>1. [w EXCEPT !.step = "deleteInvalid"] \in Workers(own)
      BY <1>0, <1>1, NextStep, Zenon DEF Steps
    <3> QED
      BY <1>1, <2>2, <3>1, Moves, Zenon DEF GoesTo
  <2>3. CASE Returns(g, TRUE)
    BY <1>1, <2>3, ReturnsKeeps, Zenon
  <2>4. CASE /\ Becomes(g, [w EXCEPT !.step = "update", !.version = hs.version])
             /\ UNCHANGED hostSubnetNodeIPs
    <3> DEFINE u == [w EXCEPT !.step = "update"]
    <3>1. u \in Workers(own) /\ u.step = "update"
      BY <1>0, <1>1, NextStep DEF Steps, Workers, Worker
    <3>2. [w EXCEPT !.step = "update", !.version = hs.version] = [u EXCEPT !.version = hs.version]
      BY Zenon
    <3>3. hs.version \in Nat
      BY <1>1 DEF Objs, HostSubnet
    <3> HIDE DEF u
    <3>4. [u EXCEPT !.version = hs.version] \in Workers(own)
      BY <3>1, <3>3 DEF Workers, Worker
    <3> QED
      BY <1>1, <2>4, <3>2, <3>4, Moves, Zenon
  <2> QED
    BY <1>3, <2>1, <2>2, <2>3, <2>4, Zenon
<1>5. budget' \in Budget
  BY <1>1, <1>3, OutcomeSpent, Zenon
<1>6. NodesInv' /\ HostInv(own)' /\ AllocInv(own)'
  BY <1>1, <1>2 DEF NodesInv, HostInv, AllocInv
<1>7. Started'
  BY <1>1, <1>2, StaysStarted, Zenon
<1> QED
  BY <1>1, <1>2, <1>4, <1>5, <1>6, <1>7, Zenon DEF Static, MemoryInv, NodeIPsType

\* addNode deletes the HostSubnet of an earlier node of the name.
LEMMA DeleteInvalidKeeps ==
  ASSUME NEW own, Static(own), NEW g \in Goroutines, addNodeDelete(g)
  PROVE  Static(own)'
<1> DEFINE w == worker[g]
<1>0. w.step = "deleteInvalid"
  BY Zenon DEF addNodeDelete
<1>1. /\ NodesInv /\ HostInv(own) /\ AllocInv(own) /\ WorkInv(own) /\ MemoryInv
      /\ w \in Workers(own) /\ w.name \in Names /\ w.ip \in NodeIPs
      /\ phase # "synced" /\ budget \in Budget
  BY <1>0, Busy, Zenon DEF AddSteps
<1>2. /\ UNCHANGED <<nodes, births, nodeEvents, nodeCache, nodePending>>
      /\ UNCHANGED <<subnetCache, phase, loose, allocators, hostSubnetNodeIPs>>
  BY DEF addNodeDelete, nodeInformer, startup, memory
<1>3. PICK o : Delete(o, w.name)
  BY Zenon DEF addNodeDelete
<1>4. HostInv(own)' /\ budget' \in Budget
  BY <1>1, <1>2, <1>3, AbsentIsObj, CallKeeps, Zenon DEF Delete
<1>5. WorkInv(own)'
  <2>1. [w EXCEPT !.step = "allocate"] \in Workers(own)
    BY <1>0, <1>1, NextStep, Zenon DEF Steps
  <2> QED
    BY <1>1, <2>1, Moves, Zenon DEF addNodeDelete, GoesTo
<1>6. NodesInv' /\ AllocInv(own)' /\ Started'
  BY <1>1, <1>2, StaysStarted, Zenon DEF NodesInv, AllocInv
<1> QED
  BY <1>1, <1>2, <1>4, <1>5, <1>6, Zenon DEF Static, MemoryInv

\* An Update changes no subnet.
LEMMA UpdateIsObj ==
  ASSUME NEW own, NEW hs \in Objs(own), Exists(hs)
  PROVE  /\ \A ip \in NodeIPs : /\ [hs EXCEPT !.ip = ip] \in Objs(own)
                                /\ [hs EXCEPT !.ip = ip].subnet = hs.subnet
         /\ \A uid \in UIDs \cup {NoUID} : /\ [hs EXCEPT !.uid = uid] \in Objs(own)
                                          /\ [hs EXCEPT !.uid = uid].subnet = hs.subnet
<1>1. /\ hs \in HostSubnet /\ hs.subnet \in own \cup {NoSubnet}
      /\ (~Exists(hs) \/ hs.assign => hs.subnet = NoSubnet)
  BY DEF Objs
<1>2. \A ip \in NodeIPs : /\ [hs EXCEPT !.ip = ip] \in HostSubnet
                          /\ [hs EXCEPT !.ip = ip].subnet = hs.subnet
                          /\ [hs EXCEPT !.ip = ip].ip = ip
                          /\ [hs EXCEPT !.ip = ip].assign = hs.assign
  BY <1>1 DEF HostSubnet
<1>3. \A uid \in UIDs \cup {NoUID} : /\ [hs EXCEPT !.uid = uid] \in HostSubnet
                                     /\ [hs EXCEPT !.uid = uid].subnet = hs.subnet
                                     /\ [hs EXCEPT !.uid = uid].ip = hs.ip
                                     /\ [hs EXCEPT !.uid = uid].assign = hs.assign
  BY <1>1 DEF HostSubnet
<1>4. \A ip \in NodeIPs : ip # NoIP
  OBVIOUS
<1> QED
  BY <1>1, <1>2, <1>3, <1>4, Zenon DEF Objs, Exists

\* addNode writes the new address of the node.
LEMMA UpdateKeeps ==
  ASSUME NEW own, Static(own), NEW g \in Goroutines, addNodeUpdate(g)
  PROVE  Static(own)'
<1> DEFINE w == worker[g]
           hs == hostSubnets[w.name]
           valid == Exists(hs) /\ hs.version = w.version
<1>0. w.step = "update"
  BY Zenon DEF addNodeUpdate
<1>1. /\ NodesInv /\ HostInv(own) /\ AllocInv(own) /\ WorkInv(own) /\ MemoryInv
      /\ w \in Workers(own) /\ w.name \in Names /\ w.ip \in NodeIPs /\ hs \in Objs(own)
      /\ phase # "synced" /\ budget \in Budget /\ hostSubnetNodeIPs \in NodeIPsType
  BY <1>0, Busy, Zenon DEF AddSteps
<1>2. /\ UNCHANGED <<nodes, births, nodeEvents, nodeCache, nodePending>>
      /\ UNCHANGED <<subnetCache, phase, loose, allocators>>
  BY DEF addNodeUpdate, nodeInformer, startup
<1>3. PICK o : Call(o, valid, w.name, [hs EXCEPT !.ip = w.ip]) /\ Returns(g, Succeeds(o, valid))
  BY Zenon DEF addNodeUpdate
<1>4. HostInv(own)' /\ budget' \in Budget
  <2>1. valid => [hs EXCEPT !.ip = w.ip] \in Objs(own)
    BY <1>1, UpdateIsObj, Zenon
  <2> QED
    BY <1>1, <1>2, <1>3, <2>1, CallKeeps, Zenon
<1>5. WorkInv(own)' /\ hostSubnetNodeIPs' \in NodeIPsType
  BY <1>1, <1>3, ReturnsKeeps, Zenon
<1>6. NodesInv' /\ AllocInv(own)' /\ Started'
  BY <1>1, <1>2, StaysStarted, Zenon DEF NodesInv, AllocInv
<1> QED
  BY <1>1, <1>2, <1>4, <1>5, <1>6, Zenon DEF Static, MemoryInv, NodeIPsType

\* addNode takes a subnet, which only the goroutine has then.
LEMMA AllocateKeeps ==
  ASSUME Facts, NEW own, Static(own), NEW g \in Goroutines, addNodeAllocate(g)
  PROVE  Static(own)'
<1> DEFINE w == worker[g]
           r == allocateNetwork(allocators)
<1>0. w.step = "allocate"
  BY Zenon DEF addNodeAllocate
<1>1. /\ NodesInv /\ HostInv(own) /\ AllocInv(own) /\ WorkInv(own) /\ MemoryInv
      /\ w \in Workers(own) /\ w.name \in Names /\ w.ip \in NodeIPs /\ phase # "synced"
  BY <1>0, Busy, Zenon DEF AddSteps
<1>2. /\ UNCHANGED <<nodes, births, hostSubnets, nodeEvents, nodeCache, nodePending>>
      /\ UNCHANGED <<subnetEvents, subnetCache, phase, loose, hostSubnetNodeIPs, budget>>
  BY DEF addNodeAllocate, api, nodeInformer, subnetInformer, startup
<1>3. /\ ListOK(r.list) /\ Owned(r.list) = own
      /\ r.subnet = NoSubnet \/ r.subnet \in own
  BY <1>1, Allocated, Zenon DEF AllocInv, Facts
<1>4. allocators' = r.list
  BY DEF addNodeAllocate
<1>5. AllocInv(own)'
  BY <1>3, <1>4 DEF AllocInv
<1>6. WorkInv(own)'
  <2>1. CASE r.subnet = NoSubnet
    <3>1. Becomes(g, Idle)
      BY <2>1, Zenon DEF addNodeAllocate
    <3> QED
      BY <1>1, <3>1, IdleIsWorker, Moves, Zenon
  <2>2. CASE r.subnet # NoSubnet
    <3> DEFINE x == r.subnet
               v == [w EXCEPT !.step = "create"]
               u == [v EXCEPT !.subnet = x]
    <3>1. Becomes(g, [w EXCEPT !.step = "create", !.subnet = x])
      BY <2>2, Zenon DEF addNodeAllocate
    <3>2. x \in own /\ own \subseteq Int
      BY <1>1, <1>3, <2>2, OwnedNat
    <3> HIDE DEF x
    <3>3. v \in Worker /\ v.step = "create" /\ v.name = w.name /\ v.ip = w.ip
      BY <1>1 DEF Workers, Worker, Steps
    <3>4. [w EXCEPT !.step = "create", !.subnet = x] = u
      BY Zenon
    <3> HIDE DEF v
    <3>5. u \in Worker /\ u.subnet = x /\ u.name = w.name /\ u.ip = w.ip /\ u.step = "create"
      BY <3>2, <3>3, Zenon DEF Worker
    <3> HIDE DEF u
    <3>6. u \in Workers(own)
      BY <1>1, <3>2, <3>5, Zenon DEF Workers
    <3> QED
      BY <1>1, <3>1, <3>4, <3>6, Moves, Zenon
  <2> QED
    BY <2>1, <2>2
<1>7. NodesInv' /\ HostInv(own)' /\ Started'
  BY <1>1, <1>2, StaysStarted, Zenon DEF NodesInv, HostInv
<1> QED
  BY <1>1, <1>2, <1>5, <1>6, <1>7 DEF Static, MemoryInv

\* The HostSubnet that addNode makes.
LEMMA CreatedIsObj ==
  ASSUME NEW own, own \subseteq Nat, NEW uid \in UIDs \cup {NoUID}, NEW ip \in NodeIPs,
         NEW subnet \in own
  PROVE  LET hs == [Absent EXCEPT !.uid = uid, !.ip = ip, !.subnet = subnet]
         IN  hs \in Objs(own) /\ hs.subnet = subnet
<1> DEFINE a == [Absent EXCEPT !.uid = uid]
           b == [a EXCEPT !.ip = ip]
           hs == [b EXCEPT !.subnet = subnet]
<1>1. [Absent EXCEPT !.uid = uid, !.ip = ip, !.subnet = subnet] = hs
  BY Zenon
<1>2. Absent \in HostSubnet /\ ~Absent.assign
  <2>1. Absent \in HostSubnet
    BY AbsentIsObj, Zenon DEF Objs
  <2>2. ~Absent.assign
    BY DEF Absent
  <2> QED
    BY <2>1, <2>2
<1>3. a \in HostSubnet /\ ~a.assign
  BY <1>2 DEF HostSubnet
<1> HIDE DEF a
<1>4. b \in HostSubnet /\ b.ip = ip /\ ~b.assign
  BY <1>3 DEF HostSubnet
<1> HIDE DEF b
<1>5. hs \in HostSubnet /\ hs.ip = ip /\ hs.subnet = subnet /\ ~hs.assign
  BY <1>4 DEF HostSubnet
<1> HIDE DEF hs
<1>6. hs \in Objs(own) /\ hs.subnet = subnet
  BY <1>5, Zenon DEF Objs, Exists
<1> QED
  BY <1>1, <1>6, Zenon

\* addNode creates the HostSubnet, or releases the subnet.
LEMMA CreateKeeps ==
  ASSUME NEW own, Static(own), NEW g \in Goroutines, addNodeCreate(g)
  PROVE  Static(own)'
<1> DEFINE w == worker[g]
           valid == ~Exists(hostSubnets[w.name])
           hs == [Absent EXCEPT !.uid = w.uid, !.ip = w.ip, !.subnet = w.subnet]
<1>0. w.step = "create"
  BY Zenon DEF addNodeCreate
<1>1. /\ NodesInv /\ HostInv(own) /\ AllocInv(own) /\ WorkInv(own) /\ MemoryInv
      /\ w \in Workers(own) /\ w.name \in Names /\ w.ip \in NodeIPs
      /\ phase # "synced" /\ budget \in Budget /\ hostSubnetNodeIPs \in NodeIPsType
  BY <1>0, Busy, Zenon DEF AddSteps
<1>2. /\ UNCHANGED <<nodes, births, nodeEvents, nodeCache, nodePending>>
      /\ UNCHANGED <<subnetCache, phase>>
  BY DEF addNodeCreate, nodeInformer
<1>3. PICK o :
        /\ Call(o, valid, w.name, hs) /\ Returns(g, Succeeds(o, valid))
        /\ allocators' = IF Succeeds(o, valid) THEN allocators
                         ELSE createFailed(allocators, w.subnet)
        /\ loose' = IF valid /\ o = "lost" THEN loose \cup {w.subnet} ELSE loose
  BY Zenon DEF addNodeCreate
<1>4. w.subnet \in own /\ own \subseteq Nat /\ w.uid \in UIDs \cup {NoUID}
  BY <1>0, <1>1, OwnedNat, Zenon DEF Workers, Worker
<1>5. HostInv(own)' /\ budget' \in Budget
  <2>1. hs \in Objs(own)
    BY <1>1, <1>4, CreatedIsObj, Zenon
  <2> QED
    BY <1>1, <1>2, <1>3, <2>1, CallKeeps, Zenon
<1>6. WorkInv(own)' /\ hostSubnetNodeIPs' \in NodeIPsType
  BY <1>1, <1>3, ReturnsKeeps, Zenon
<1>7. AllocInv(own)'
  <2>1. allocators' = allocators \/ allocators' = releaseNetwork(allocators, w.subnet)
    BY <1>3, Zenon DEF createFailed
  <2>2. ListOK(allocators) /\ Owned(allocators) = own
    BY <1>1, Zenon DEF AllocInv
  <2>3. LET new == releaseNetwork(allocators, w.subnet) IN ListOK(new) /\ Owned(new) = own
    BY <2>2, Released, Zenon
  <2> QED
    BY <2>1, <2>2, <2>3, Zenon DEF AllocInv
<1>8. loose' \subseteq Nat
  <2>1. loose' = loose \/ loose' = loose \cup {w.subnet}
    BY <1>3, Zenon
  <2>2. loose \subseteq Nat /\ w.subnet \in Nat
    BY <1>1, <1>4, Zenon DEF MemoryInv
  <2> QED
    BY <2>1, <2>2, Zenon
<1>9. NodesInv' /\ Started'
  BY <1>1, <1>2, StaysStarted, Zenon DEF NodesInv
<1> QED
  BY <1>1, <1>2, <1>5, <1>6, <1>7, <1>8, <1>9, Zenon DEF Static, MemoryInv, NodeIPsType

\* Every step of addNode keeps the static part of the invariant.
LEMMA AddNodeKeeps ==
  ASSUME Facts, NEW own, Static(own), NEW g \in Goroutines, addNode(g)
  PROVE  Static(own)'
BY GetKeeps, DeleteInvalidKeeps, UpdateKeeps, AllocateKeeps, CreateKeeps, Zenon DEF addNode

-----------------------------------------------------------------------------
(***************************************************************************)
(* The Node handler.                                                       *)
(***************************************************************************)
\* What a handler takes from its queue, and what it leaves, are of the queue's type.
LEMMA HeadAndTail ==
  ASSUME NEW S, NEW q \in Seq(S), q # <<>>
  PROVE  Head(q) \in S /\ Tail(q) \in Seq(S)
OBVIOUS

\* A new HostSubnet for a node or a claim is made only with a valid address.
LEMMA StartKeeps ==
  ASSUME NEW own, WorkInv(own), NEW g \in Goroutines, NEW n \in Names,
         NEW uid \in UIDs \cup {NoUID}, NEW ip \in NodeIPs \cup {NoIP}, StartAddNode(g, n, uid, ip)
  PROVE  WorkInv(own)'
<1> DEFINE a == [Idle EXCEPT !.step = "get"]
           b == [a EXCEPT !.name = n]
           c == [b EXCEPT !.uid = uid]
           d == [c EXCEPT !.ip = ip]
<1>1. CASE ValidateNodeIP(ip)
  <2>1. Becomes(g, d)
    BY <1>1, Zenon DEF StartAddNode
  <2>2. ip # NoIP
    BY <1>1, Zenon DEF ValidateNodeIP
  <2>3. Idle \in Worker /\ Idle.subnet = NoSubnet
    BY IdleIsWorker, Zenon DEF Workers
  <2>4. a \in Worker /\ a.subnet = NoSubnet /\ a.step = "get"
    BY <2>3 DEF Worker, Steps
  <2> HIDE DEF a
  <2>5. b \in Worker /\ b.subnet = NoSubnet /\ b.step = "get" /\ b.name = n
    BY <2>4 DEF Worker
  <2> HIDE DEF b
  <2>6. c \in Worker /\ c.subnet = NoSubnet /\ c.step = "get" /\ c.name = n
    BY <2>5 DEF Worker
  <2> HIDE DEF c
  <2>7. d \in Worker /\ d.subnet = NoSubnet /\ d.step = "get" /\ d.name = n /\ d.ip = ip
    BY <2>6, Zenon DEF Worker
  <2> HIDE DEF d
  <2>8. d \in Workers(own)
    BY <2>2, <2>7 DEF Workers
  <2> QED
    BY <2>1, <2>8, Moves, Zenon
<1>2. CASE ~ValidateNodeIP(ip)
  <2>1. Becomes(g, Idle)
    BY <1>2, Zenon DEF StartAddNode
  <2> QED
    BY <2>1, IdleIsWorker, Moves, Zenon
<1> QED
  BY <1>1, <1>2

\* The Node handler starts: addNode, deleteNode or nothing.
LEMMA NodeHandlerKeeps ==
  ASSUME NEW own, Static(own), handleAddOrUpdateNode \/ handleDeleteNode
  PROVE  Static(own)'
<1> DEFINE call == Head(nodePending)
<1>1. /\ NodesInv /\ HostInv(own) /\ AllocInv(own) /\ WorkInv(own) /\ MemoryInv
  BY DEF Static
<1>2. /\ UNCHANGED <<nodes, births, hostSubnets, nodeEvents, nodeCache, subnetEvents>>
      /\ UNCHANGED <<subnetCache, phase, loose, allocators, budget>>
      /\ nodePending # <<>> /\ nodePending' = Tail(nodePending) /\ phase # "synced"
  BY DEF handleAddOrUpdateNode, handleDeleteNode, api, subnetInformer, startup, memory,
         NextNodeCall, watchingNodes
<1>3. /\ call \in PendingNode /\ nodePending' \in Seq(PendingNode)
      /\ call.name \in Names /\ call.node \in Node
      /\ call.node.uid \in UIDs \cup {NoUID} /\ call.node.ip \in NodeIPs \cup {NoIP}
  <2>1. call \in PendingNode /\ nodePending' \in Seq(PendingNode)
    BY <1>1, <1>2, HeadAndTail, Zenon DEF NodesInv
  <2> HIDE DEF call
  <2> QED
    BY <2>1 DEF PendingNode, Node
<1> DEFINE n == call.name
           uid == call.node.uid
<1>4. WorkInv(own)'
  <2>1. CASE UNCHANGED worker
    BY <1>1, <2>1, Zenon DEF WorkInv
  <2>2. CASE StartAddNode("node", n, uid, call.node.ip)
    BY <1>1, <1>3, <2>2, StartKeeps, Zenon DEF Goroutines
  <2>3. CASE Becomes("node", [Idle EXCEPT !.step = "deleteNode", !.name = n])
    <3> DEFINE a == [Idle EXCEPT !.step = "deleteNode"]
               b == [a EXCEPT !.name = n]
    <3>1. Becomes("node", b)
      BY <2>3, Zenon
    <3>2. Idle \in Worker /\ Idle.subnet = NoSubnet
      BY IdleIsWorker, Zenon DEF Workers
    <3>3. a \in Worker /\ a.subnet = NoSubnet /\ a.step = "deleteNode"
      BY <3>2 DEF Worker, Steps
    <3> HIDE DEF a
    <3>4. b \in Worker /\ b.subnet = NoSubnet /\ b.step = "deleteNode" /\ b.name = n
      BY <1>3, <3>3, Zenon DEF Worker
    <3> HIDE DEF b
    <3>5. b \in Workers(own)
      BY <1>3, <3>4 DEF Workers, AddSteps
    <3> QED
      BY <1>1, <3>1, <3>5, Moves, Zenon DEF Goroutines
  <2>4. \/ UNCHANGED worker \/ StartAddNode("node", n, uid, call.node.ip)
        \/ Becomes("node", [Idle EXCEPT !.step = "deleteNode", !.name = n])
    BY Zenon DEF handleAddOrUpdateNode, handleDeleteNode
  <2> QED
    BY <2>1, <2>2, <2>3, <2>4, Zenon
<1>5. hostSubnetNodeIPs' \in NodeIPsType
  <2>1. \/ hostSubnetNodeIPs' = hostSubnetNodeIPs
        \/ hostSubnetNodeIPs' = [hostSubnetNodeIPs EXCEPT ![<<n, uid>>] = NoIP]
    BY Zenon DEF handleAddOrUpdateNode, handleDeleteNode, memory
  <2>2. hostSubnetNodeIPs \in NodeIPsType /\ NoIP \in NodeIPs \cup {NoIP}
    BY <1>1, Zenon DEF MemoryInv, NodeIPsType
  <2> QED
    BY <2>1, <2>2, ExceptKeeps, Zenon DEF NodeIPsType
<1>6. Started'
  BY <1>1, <1>2, StaysStarted, Zenon
<1>7. NodesInv'
  BY <1>1, <1>2, <1>3 DEF NodesInv
<1>8. HostInv(own)' /\ AllocInv(own)'
  BY <1>1, <1>2 DEF HostInv, AllocInv
<1> QED
  BY <1>1, <1>2, <1>4, <1>5, <1>6, <1>7, <1>8, Zenon DEF Static, MemoryInv, NodeIPsType

\* A step of a busy goroutine that only calls the API server and moves on.
LEMMA CallStepKeeps ==
  ASSUME NEW own, Static(own), NEW g \in Goroutines, worker[g].step # "idle",
         UNCHANGED <<nodes, births, nodeEvents, nodeCache, nodePending>>,
         UNCHANGED <<phase, loose, allocators, hostSubnetNodeIPs>>,
         HostInv(own)', WorkInv(own)', budget' \in Budget
  PROVE  Static(own)'
<1>1. NodesInv /\ AllocInv(own) /\ MemoryInv /\ phase # "synced"
  BY Busy, Zenon
<1>2. NodesInv' /\ AllocInv(own)'
  BY <1>1 DEF NodesInv, AllocInv
<1>3. MemoryInv' /\ Started'
  BY <1>1, StaysStarted, Zenon DEF MemoryInv
<1> QED
  BY <1>2, <1>3, Zenon DEF Static

\* deleteNode deletes the HostSubnet of the name.
LEMMA DeleteNodeKeeps ==
  ASSUME NEW own, Static(own), deleteNode
  PROVE  Static(own)'
<1> DEFINE w == worker["node"]
<1>1. "node" \in Goroutines /\ w.step = "deleteNode" /\ w.step # "idle"
  BY DEF deleteNode, Goroutines
<1>2. HostInv(own) /\ WorkInv(own) /\ w.name \in Names /\ budget \in Budget
  BY <1>1, Busy, Zenon
<1>3. /\ UNCHANGED <<nodes, births, nodeEvents, nodeCache, nodePending, subnetCache>>
      /\ UNCHANGED <<phase, loose, allocators, hostSubnetNodeIPs>>
  BY DEF deleteNode, nodeInformer, startup, memory
<1>4. PICK o : Delete(o, w.name)
  BY Zenon DEF deleteNode
<1>5. HostInv(own)' /\ budget' \in Budget
  BY <1>2, <1>3, <1>4, AbsentIsObj, CallKeeps, Zenon DEF Delete
<1>6. WorkInv(own)'
  BY <1>1, <1>2, IdleIsWorker, Moves, Zenon DEF deleteNode
<1> QED
  BY <1>1, <1>3, <1>5, <1>6, CallStepKeeps, Zenon

-----------------------------------------------------------------------------
(***************************************************************************)
(* The HostSubnet handler.                                                 *)
(***************************************************************************)
\* A goroutine that has reconciled a HostSubnet goes on to its annotation.
LEMMA AfterReconcileKeeps ==
  ASSUME NEW own, NEW w \in Workers(own), w.name \in Names, w.step # "create"
  PROVE  AfterReconcile(w) \in Workers(own) /\ AfterReconcile(w).step # "create"
<1>1. CASE w.assign
  <2>1. AfterReconcile(w) = [w EXCEPT !.step = "assign"]
    BY <1>1 DEF AfterReconcile
  <2>2. [w EXCEPT !.step = "assign"] \in Workers(own)
    BY NextStep, Zenon DEF Steps, AddSteps
  <2>3. [w EXCEPT !.step = "assign"].step = "assign"
    BY DEF Workers, Worker
  <2> QED
    BY <2>1, <2>2, <2>3
<1>2. CASE ~w.assign
  BY <1>2, IdleIsWorker, Zenon DEF AfterReconcile
<1> QED
  BY <1>1, <1>2

\* The HostSubnet handler writes the uid of the node in a HostSubnet without one.
LEMMA StampKeeps ==
  ASSUME NEW own, Static(own), stampUID
  PROVE  Static(own)'
<1> DEFINE w == worker["subnet"]
           hs == hostSubnets[w.name]
           valid == Exists(hs) /\ hs.version = w.version
<1>1. "subnet" \in Goroutines /\ w.step = "stamp" /\ w.step # "idle" /\ w.step # "create"
  BY DEF stampUID, Goroutines
<1>2. /\ HostInv(own) /\ WorkInv(own) /\ w.name \in Names /\ budget \in Budget
      /\ w \in Workers(own) /\ hs \in Objs(own)
  BY <1>1, Busy, Zenon
<1>3. /\ UNCHANGED <<nodes, births, nodeEvents, nodeCache, nodePending, subnetCache>>
      /\ UNCHANGED <<phase, loose, allocators, hostSubnetNodeIPs>>
  BY DEF stampUID, nodeInformer, startup, memory
<1>4. PICK o : Call(o, valid, w.name, [hs EXCEPT !.uid = w.uid])
  BY Zenon DEF stampUID
<1>5. HostInv(own)' /\ budget' \in Budget
  <2>1. w.uid \in UIDs \cup {NoUID}
    BY <1>2 DEF Workers, Worker
  <2>2. valid => [hs EXCEPT !.uid = w.uid] \in Objs(own)
    BY <1>2, <2>1, UpdateIsObj, Zenon
  <2> QED
    BY <1>2, <1>3, <1>4, <2>2, CallKeeps, Zenon
<1>6. WorkInv(own)'
  BY <1>1, <1>2, AfterReconcileKeeps, Moves, Zenon DEF stampUID
<1> QED
  BY <1>1, <1>3, <1>5, <1>6, CallStepKeeps, Zenon

\* The HostSubnet handler deletes a HostSubnet whose node has gone.
LEMMA DeleteStaleKeeps ==
  ASSUME NEW own, Static(own), deleteStale
  PROVE  Static(own)'
<1> DEFINE w == worker["subnet"]
<1>1. "subnet" \in Goroutines /\ w.step = "deleteStale" /\ w.step # "idle" /\ w.step # "create"
  BY DEF deleteStale, Goroutines
<1>2. /\ HostInv(own) /\ WorkInv(own) /\ w.name \in Names /\ budget \in Budget
      /\ w \in Workers(own)
  BY <1>1, Busy, Zenon
<1>3. /\ UNCHANGED <<nodes, births, nodeEvents, nodeCache, nodePending, subnetCache>>
      /\ UNCHANGED <<phase, loose, allocators, hostSubnetNodeIPs>>
  BY DEF deleteStale, nodeInformer, startup, memory
<1>4. PICK o : Delete(o, w.name)
  BY Zenon DEF deleteStale
<1>5. HostInv(own)' /\ budget' \in Budget
  BY <1>2, <1>3, <1>4, AbsentIsObj, CallKeeps, Zenon DEF Delete
<1>6. WorkInv(own)'
  BY <1>1, <1>2, AfterReconcileKeeps, Moves, Zenon DEF deleteStale
<1> QED
  BY <1>1, <1>3, <1>5, <1>6, CallStepKeeps, Zenon

\* The HostSubnet handler deletes the one it has to make again with a subnet.
LEMMA AssignKeeps ==
  ASSUME NEW own, Static(own), handleAssignHostSubnetAnnotation
  PROVE  Static(own)'
<1> DEFINE w == worker["subnet"]
<1>1. "subnet" \in Goroutines /\ w.step = "assign" /\ w.step # "idle"
  BY DEF handleAssignHostSubnetAnnotation, Goroutines
<1>2. /\ HostInv(own) /\ WorkInv(own) /\ w.name \in Names /\ budget \in Budget
      /\ w \in Workers(own)
  BY <1>1, Busy, Zenon
<1>3. /\ UNCHANGED <<nodes, births, nodeEvents, nodeCache, nodePending, subnetCache>>
      /\ UNCHANGED <<phase, loose, allocators, hostSubnetNodeIPs>>
  BY DEF handleAssignHostSubnetAnnotation, nodeInformer, startup, memory
<1>4. PICK o : /\ Delete(o, w.name)
               /\ \/ StartAddNode("subnet", w.name, NoUID, w.ip)
                  \/ Becomes("subnet", Idle)
  BY Zenon DEF handleAssignHostSubnetAnnotation
<1>5. HostInv(own)' /\ budget' \in Budget
  BY <1>2, <1>3, <1>4, AbsentIsObj, CallKeeps, Zenon DEF Delete
<1>6. WorkInv(own)'
  <2>1. w.ip \in NodeIPs \cup {NoIP}
    BY <1>2 DEF Workers, Worker
  <2>2. NoUID \in UIDs \cup {NoUID}
    BY Zenon
  <2> QED
    BY <1>1, <1>2, <1>4, <2>1, <2>2, StartKeeps, IdleIsWorker, Moves, Zenon
<1> QED
  BY <1>1, <1>3, <1>5, <1>6, CallStepKeeps, Zenon

\* The HostSubnet handler's goroutine as it sets out on HostSubnet hs.
Sets(n, hs) == [Idle EXCEPT !.name = n, !.ip = hs.ip, !.assign = hs.assign]

\* The goroutine of the HostSubnet handler has the name of the object and no subnet.
LEMMA SetsOut ==
  ASSUME NEW own, NEW n \in Names, NEW hs \in Objs(own)
  PROVE  Sets(n, hs) \in Workers(own) /\ Sets(n, hs).name = n /\ Sets(n, hs).step = "idle"
<1> DEFINE a == [Idle EXCEPT !.name = n]
           b == [a EXCEPT !.ip = hs.ip]
           c == [b EXCEPT !.assign = hs.assign]
<1>1. Sets(n, hs) = c
  BY Zenon DEF Sets
<1>2. hs.ip \in NodeIPs \cup {NoIP} /\ hs.assign \in BOOLEAN
  BY DEF Objs, HostSubnet
<1>3. Idle \in Worker /\ Idle.step = "idle" /\ Idle.subnet = NoSubnet
  BY IdleIsWorker, Zenon DEF Workers
<1>4. a \in Worker /\ a.step = "idle" /\ a.subnet = NoSubnet /\ a.name = n
  BY <1>3 DEF Worker
<1> HIDE DEF a
<1>5. b \in Worker /\ b.step = "idle" /\ b.subnet = NoSubnet /\ b.name = n
  BY <1>2, <1>4 DEF Worker
<1> HIDE DEF b
<1>6. c \in Worker /\ c.step = "idle" /\ c.subnet = NoSubnet /\ c.name = n
  BY <1>2, <1>5 DEF Worker
<1> HIDE DEF c
<1>7. c \in Workers(own)
  BY <1>6 DEF Workers, AddSteps
<1> QED
  BY <1>1, <1>6, <1>7

\* reconcileHostSubnet decides what to do, and never goes straight to a creation.
LEMMA ReconcileKeeps ==
  ASSUME NEW own, WorkInv(own), NEW n \in Names, NEW hs \in Objs(own), NEW node \in Node,
         Reconcile(n, hs, node)
  PROVE  /\ WorkInv(own)'
         /\ \E w : Becomes("subnet", w) /\ w.step # "create"
<1> DEFINE w == Sets(n, hs)
           s == [w EXCEPT !.step = "stamp"]
           u == [s EXCEPT !.uid = node.uid]
           v == [u EXCEPT !.version = hs.version]
           d == [w EXCEPT !.step = "deleteStale"]
<1>1. w \in Workers(own) /\ w.name = n /\ w.step = "idle" /\ w.step # "create"
  BY SetsOut
<1>2. Becomes("subnet", AfterReconcile(w)) \/ Becomes("subnet", v) \/ Becomes("subnet", d)
  <2>1. reconcileHostSubnet(hs, node) \in {"none", "stamp", "deleteStale"}
    BY DEF reconcileHostSubnet
  <2> QED
    BY <2>1, Zenon DEF Reconcile, Sets
<1> HIDE DEF w
<1>3. AfterReconcile(w) \in Workers(own) /\ AfterReconcile(w).step # "create"
  BY <1>1, AfterReconcileKeeps, Zenon
<1>4. d \in Workers(own) /\ d.step # "create"
  BY <1>1, NextStep, Zenon DEF Steps, AddSteps, Workers, Worker
<1>5. v \in Workers(own) /\ v.step # "create"
  <2>1. node.uid \in UIDs \cup {NoUID} /\ hs.version \in Nat
    BY DEF Node, Objs, HostSubnet
  <2>2. s \in Workers(own) /\ s.step = "stamp"
    BY <1>1, NextStep, Zenon DEF Steps, AddSteps, Workers, Worker
  <2> HIDE DEF s
  <2>3. u \in Workers(own) /\ u.step = "stamp"
    BY <2>1, <2>2 DEF Workers, Worker
  <2> HIDE DEF u
  <2> QED
    BY <2>1, <2>3, Zenon DEF Workers, Worker
<1> HIDE DEF v, d
<1>6. "subnet" \in Goroutines
  BY Zenon DEF Goroutines
<1> QED
  BY <1>2, <1>3, <1>4, <1>5, <1>6, Moves, Zenon

\* The handler's call: the object of the event becomes the one last delivered.
LEMMA Delivered ==
  ASSUME NEW own, HostInv(own), subnetEvents # <<>>, UNCHANGED hostSubnets,
         subnetCache' = [subnetCache EXCEPT ![Head(subnetEvents).name] = Head(subnetEvents).obj],
         subnetEvents' = Tail(subnetEvents)
  PROVE  /\ HostInv(own)'
         /\ Head(subnetEvents).name \in Names /\ Head(subnetEvents).obj \in Objs(own)
<1> DEFINE e == Head(subnetEvents)
<1>1. e \in Events(own) /\ Tail(subnetEvents) \in Seq(Events(own))
  BY HeadAndTail, Zenon DEF HostInv
<1> HIDE DEF e
<1>2. e.name \in Names /\ e.obj \in Objs(own)
  BY <1>1 DEF Events
<1>3. subnetCache' \in [Names -> Objs(own)]
  BY <1>2, Zenon DEF HostInv, e
<1> QED
  BY <1>1, <1>2, <1>3 DEF HostInv, e

\* The HostSubnet handler starts on an object that was added or updated.
LEMMA SubnetHandlerKeeps ==
  ASSUME NEW own, Static(own), handleAddOrUpdateSubnet
  PROVE  /\ Static(own)'
         /\ UNCHANGED worker \/ \E w : Becomes("subnet", w) /\ w.step # "create"
<1> DEFINE n == Head(subnetEvents).name
           hs == Head(subnetEvents).obj
<1>1. NodesInv /\ HostInv(own) /\ AllocInv(own) /\ WorkInv(own) /\ MemoryInv /\ budget \in Budget
  BY DEF Static, MemoryInv
<1>2. /\ UNCHANGED <<nodes, births, hostSubnets, nodeEvents, nodeCache, nodePending>>
      /\ UNCHANGED <<phase, loose, allocators, hostSubnetNodeIPs>>
      /\ phase # "synced" /\ subnetEvents # <<>> /\ subnetEvents' = Tail(subnetEvents)
      /\ subnetCache' = [subnetCache EXCEPT ![n] = hs]
  BY Zenon DEF handleAddOrUpdateSubnet, NextSubnetCall, api, nodeInformer, startup, memory
<1>3. HostInv(own)' /\ n \in Names /\ hs \in Objs(own)
  BY <1>1, <1>2, Delivered, Zenon
<1>4. nodes[n] \in Node /\ nodeCache[n] \in Node
  BY <1>1, <1>3 DEF NodesInv
<1>5. /\ \/ UNCHANGED worker
         \/ Reconcile(n, hs, nodeCache[n]) \/ Reconcile(n, hs, nodes[n])
         \/ Becomes("subnet", AfterReconcile(Sets(n, hs)))
      /\ UNCHANGED budget \/ \E o : Outcome(o)
  BY Zenon DEF handleAddOrUpdateSubnet, Sets
<1>6. /\ WorkInv(own)'
      /\ UNCHANGED worker \/ \E w : Becomes("subnet", w) /\ w.step # "create"
  <2>1. CASE UNCHANGED worker
    BY <1>1, <2>1 DEF WorkInv
  <2>2. CASE Reconcile(n, hs, nodeCache[n]) \/ Reconcile(n, hs, nodes[n])
    BY <1>1, <1>3, <1>4, <2>2, ReconcileKeeps, Zenon
  <2>3. CASE Becomes("subnet", AfterReconcile(Sets(n, hs)))
    <3>1. /\ AfterReconcile(Sets(n, hs)) \in Workers(own)
          /\ AfterReconcile(Sets(n, hs)).step # "create"
      <4>1. /\ Sets(n, hs) \in Workers(own) /\ Sets(n, hs).name \in Names
            /\ Sets(n, hs).step # "create"
        <5>1. n \in Names /\ hs \in Objs(own)
          BY <1>3
        <5> HIDE DEF n, hs
        <5> QED
          BY <5>1, SetsOut
      <4> QED
        BY <4>1, AfterReconcileKeeps, Zenon
    <3>2. "subnet" \in Goroutines
      BY DEF Goroutines
    <3> QED
      BY <1>1, <2>3, <3>1, <3>2, Moves, Zenon
  <2> QED
    BY <1>5, <2>1, <2>2, <2>3, Zenon
<1>7. budget' \in Budget
  BY <1>1, <1>5, OutcomeSpent, Zenon
<1>8. NodesInv' /\ AllocInv(own)' /\ Started' /\ MemoryInv'
  BY <1>1, <1>2, <1>7, StaysStarted, Zenon DEF NodesInv, AllocInv, MemoryInv
<1> QED
  BY <1>3, <1>6, <1>8, Zenon DEF Static

\* The HostSubnet handler releases the subnet of one that was deleted.
LEMMA SubnetDeletedKeeps ==
  ASSUME NEW own, Static(own), handleDeleteSubnet
  PROVE  Static(own)'
<1> DEFINE n == Head(subnetEvents).name
<1>1. NodesInv /\ HostInv(own) /\ AllocInv(own) /\ WorkInv(own) /\ MemoryInv
  BY Zenon DEF Static
<1>2. /\ UNCHANGED <<nodes, births, hostSubnets, nodeEvents, nodeCache, nodePending>>
      /\ UNCHANGED <<phase, loose, hostSubnetNodeIPs, worker, budget>>
      /\ phase # "synced" /\ subnetEvents # <<>> /\ subnetEvents' = Tail(subnetEvents)
      /\ subnetCache' = [subnetCache EXCEPT ![n] = Head(subnetEvents).obj]
      /\ allocators' = releaseDeleted(allocators, subnetCache[n])
  BY Zenon DEF handleDeleteSubnet, NextSubnetCall, api, nodeInformer, startup
<1>3. HostInv(own)'
  BY <1>1, <1>2, Delivered, Zenon
<1>4. AllocInv(own)'
  <2>1. \/ allocators' = allocators
        \/ allocators' = releaseNetwork(allocators, subnetCache[n].subnet)
    BY <1>2, Zenon DEF releaseDeleted
  <2> QED
    BY <1>1, <2>1, Released DEF AllocInv
<1>5. NodesInv' /\ WorkInv(own)' /\ Started' /\ MemoryInv'
  BY <1>1, <1>2, StaysStarted, Zenon DEF NodesInv, WorkInv, MemoryInv
<1> QED
  BY <1>3, <1>4, <1>5 DEF Static

-----------------------------------------------------------------------------
(***************************************************************************)
(* Start-up and the informers.                                             *)
(***************************************************************************)
\* Subnets that are still to be released are subnets of the networks.
LEMMA LeavingOwned ==
  ASSUME NEW own, Static(own)
  PROVE  Leaving \subseteq own \cup {NoSubnet}
<1>1. HostInv(own) /\ WorkInv(own)
  BY Zenon DEF Static
<1>2. \A n \in Names : subnetCache[n].subnet \in own \cup {NoSubnet}
  BY <1>1 DEF HostInv, Objs
<1>3. \A i \in DOMAIN subnetEvents : subnetEvents[i].obj.subnet \in own \cup {NoSubnet}
  <2>1. \A i \in DOMAIN subnetEvents : subnetEvents[i] \in Events(own)
    BY <1>1 DEF HostInv
  <2>2. \A e \in Events(own) : e.obj.subnet \in own \cup {NoSubnet}
    BY Zenon DEF Events, Objs
  <2> QED
    BY <2>1, <2>2, Zenon
<1>4. \A g \in Goroutines : worker[g].subnet \in own \cup {NoSubnet}
  BY <1>1 DEF WorkInv, Workers
<1> QED
  BY <1>2, <1>3, <1>4 DEF Leaving

\* initSubnetAllocators leaves exactly the subnets of stored HostSubnets taken.
LEMMA ListedTakes ==
  ASSUME NEW own, Static(own), initSubnetAllocators
  PROVE  AllocInv(own)' /\ Taken(allocators') = Stored
<1> DEFINE subnets == {hostSubnets[n].subnet : n \in Names}
           fresh == [k \in DOMAIN allocators |-> newSubnetAllocator(allocators[k])]
           new == markAllocatedNetworks(fresh, subnets)
<1>1. HostInv(own) /\ ListOK(allocators) /\ Owned(allocators) = own
  BY Zenon DEF Static, AllocInv
<1>2. subnets \in SUBSET (Owned(allocators) \cup {NoSubnet})
  BY <1>1 DEF HostInv, Objs
<1>3. allocators' = new
  BY Zenon DEF initSubnetAllocators, listed, newAllocators
<1>4. subnets \ {NoSubnet} = Stored
  BY DEF Stored, Assigned
<1> HIDE DEF subnets
<1>5. ListOK(new) /\ Owned(new) = Owned(allocators) /\ Taken(new) = subnets \ {NoSubnet}
  BY <1>1, <1>2, Marked, Zenon
<1> HIDE DEF new
<1> QED
  BY <1>1, <1>3, <1>4, <1>5 DEF AllocInv

\* initSubnetAllocators marks the subnets of the list and nothing else.
LEMMA InitKeeps ==
  ASSUME NEW own, Static(own), initSubnetAllocators
  PROVE  Static(own)'
<1>1. NodesInv /\ HostInv(own) /\ AllocInv(own) /\ WorkInv(own) /\ MemoryInv
  BY DEF Static
<1>2. /\ UNCHANGED <<nodes, births, hostSubnets, nodeEvents, nodeCache, nodePending>>
      /\ UNCHANGED <<subnetEvents, subnetCache, hostSubnetNodeIPs, worker, budget>>
      /\ phase' = "listed" /\ loose' = loose \cup (Leaving \ (Stored \cup {NoSubnet}))
  BY DEF initSubnetAllocators, api, nodeInformer, subnetInformer
<1>3. loose' \subseteq Nat
  <2>1. Leaving \subseteq own \cup {NoSubnet} /\ own \subseteq Nat /\ loose \subseteq Nat
    BY <1>1, LeavingOwned, OwnedNat, Zenon DEF MemoryInv
  <2> QED
    BY <1>2, <2>1, Zenon
<1>4. NodesInv' /\ HostInv(own)' /\ WorkInv(own)' /\ MemoryInv' /\ Started'
  BY <1>1, <1>2, <1>3 DEF NodesInv, HostInv, WorkInv, MemoryInv, Started
<1> QED
  BY <1>4, ListedTakes, Zenon DEF Static

\* An order of names is a sequence of them.
LEMMA OrderIsSeq ==
  ASSUME Facts, NEW names \in SUBSET Names, NEW order \in Orders(names)
  PROVE  \E k \in Nat : DOMAIN order = 1 .. k /\ \A i \in 1 .. k : order[i] \in names
<1> DEFINE k == Cardinality(names)
<1>1. k \in Nat
  BY DEF Facts
<1> HIDE DEF k
<1>2. order \in [1 .. k -> names]
  BY DEF Orders, Injection, IsInjective, k
<1> QED
  BY <1>1, <1>2

\* The calls for the whole Node cache.
LEMMA AllNodesType ==
  ASSUME Facts, NodesInv, NEW calls \in AllNodes
  PROVE  calls \in Seq(PendingNode)
<1> DEFINE names == {n \in Names : nodeCache[n] # NoNode}
           call(n) == [name |-> n, node |-> nodeCache[n], deleted |-> FALSE]
<1>1. PICK order \in Orders(names) : calls = [i \in DOMAIN order |-> call(order[i])]
  BY DEF AllNodes
<1>2. PICK k \in Nat : DOMAIN order = 1 .. k /\ \A i \in 1 .. k : order[i] \in names
  BY OrderIsSeq, Zenon
<1>3. \A n \in names : call(n) \in PendingNode
  BY Zenon DEF NodesInv, PendingNode
<1> HIDE DEF call
<1>4. calls \in [1 .. k -> PendingNode]
  BY <1>1, <1>2, <1>3, Zenon
<1> HIDE DEF names
<1> QED
  BY <1>4

\* The events for the whole HostSubnet cache.
LEMMA AllSubnetsType ==
  ASSUME Facts, NEW own, HostInv(own), NEW replay \in AllSubnets
  PROVE  /\ replay \in Seq(Events(own))
         /\ \A i \in 1 .. Len(replay) : replay[i].obj = subnetCache[replay[i].name]
<1> DEFINE names == {n \in Names : Exists(subnetCache[n])}
           event(n) == [name |-> n, obj |-> subnetCache[n]]
<1>1. PICK order \in Orders(names) : replay = [i \in DOMAIN order |-> event(order[i])]
  BY DEF AllSubnets
<1>2. PICK k \in Nat : DOMAIN order = 1 .. k /\ \A i \in 1 .. k : order[i] \in names
  BY OrderIsSeq, Zenon
<1>3. \A n \in names : /\ event(n) \in Events(own)
                       /\ event(n).name = n /\ event(n).obj = subnetCache[n]
  BY Zenon DEF HostInv, Events
<1> HIDE DEF event
<1>4. replay \in [1 .. k -> Events(own)] /\ \A i \in 1 .. k : replay[i] = event(order[i])
  BY <1>1, <1>2, <1>3
<1>5. replay \in Seq(Events(own)) /\ Len(replay) = k
  BY <1>4
<1> QED
  BY <1>2, <1>3, <1>4, <1>5

\* A step that changes nothing but the Node informer, or what has been started.
LEMMA NodeStepKeeps ==
  ASSUME NEW own, Static(own), NodesInv', budget' \in Budget,
         phase' \in {"synced", "listed", "watchingNodes", "running"},
         phase' = "synced" => phase = "synced",
         UNCHANGED <<hostSubnets, subnetEvents, subnetCache>>,
         UNCHANGED <<loose, allocators, hostSubnetNodeIPs, worker>>
  PROVE  Static(own)'
<1>1. HostInv(own) /\ AllocInv(own) /\ WorkInv(own) /\ MemoryInv /\ Started
  BY DEF Static
<1>2. HostInv(own)' /\ AllocInv(own)' /\ WorkInv(own)' /\ Started'
  BY <1>1 DEF HostInv, AllocInv, WorkInv, Started
<1>3. MemoryInv'
  BY <1>1, Zenon DEF MemoryInv
<1> QED
  BY <1>2, <1>3 DEF Static

\* The Node handler is registered, or the informer resyncs: every Node of the cache
\* is pending.
LEMMA WatchNodesKeeps ==
  ASSUME Facts, NEW own, Static(own), watchNodes \/ resyncNodes
  PROVE  Static(own)'
<1>1. NodesInv /\ budget \in Budget /\ MemoryInv
  BY Zenon DEF Static, MemoryInv
<1>2. /\ UNCHANGED <<nodes, births, nodeEvents, nodeCache, budget>>
      /\ UNCHANGED <<hostSubnets, subnetEvents, subnetCache>>
      /\ UNCHANGED <<loose, allocators, hostSubnetNodeIPs, worker>>
      /\ nodePending' \in AllNodes /\ (phase' = "watchingNodes" \/ phase' = phase)
  BY DEF watchNodes, resyncNodes, api, subnetInformer, startup, memory
<1>3. NodesInv'
  BY <1>1, <1>2, AllNodesType, Zenon DEF NodesInv
<1> QED
  BY <1>1, <1>2, <1>3, NodeStepKeeps, Zenon DEF MemoryInv

\* The HostSubnet handler is registered, or the informer resyncs: every HostSubnet of
\* the cache is delivered before the events.
LEMMA WatchSubnetsKeeps ==
  ASSUME Facts, NEW own, Static(own), watchSubnets \/ resyncSubnets
  PROVE  /\ Static(own)'
         /\ UNCHANGED <<hostSubnets, subnetCache>>
         /\ \E replay \in AllSubnets : subnetEvents' = replay \o subnetEvents
<1>1. NodesInv /\ HostInv(own) /\ AllocInv(own) /\ WorkInv(own) /\ MemoryInv
  BY Zenon DEF Static
<1>2. /\ UNCHANGED <<nodes, births, hostSubnets, nodeEvents, nodeCache, nodePending>>
      /\ UNCHANGED <<subnetCache, loose, allocators, hostSubnetNodeIPs, worker, budget>>
      /\ phase' = "running"
  BY DEF watchSubnets, resyncSubnets, api, nodeInformer, startup, memory
<1>3. PICK replay \in AllSubnets : subnetEvents' = replay \o subnetEvents
  <2>1. CASE watchSubnets
    BY <2>1 DEF watchSubnets
  <2>2. CASE resyncSubnets
    <3>1. subnetEvents = <<>> /\ subnetEvents' \in AllSubnets
      BY <2>2, Zenon DEF resyncSubnets
    <3>2. subnetEvents' \in Seq(Events(own))
      BY <1>1, <3>1, AllSubnetsType, Zenon
    <3> QED
      BY <3>1, <3>2
  <2> QED
    BY <2>1, <2>2, Zenon
<1>4. subnetEvents' \in Seq(Events(own))
  <2>1. replay \in Seq(Events(own)) /\ subnetEvents \in Seq(Events(own))
    BY <1>1, AllSubnetsType, Zenon DEF HostInv
  <2> QED
    BY <1>3, <2>1
<1>5. NodesInv' /\ AllocInv(own)' /\ WorkInv(own)'
  BY <1>1, <1>2, Zenon DEF NodesInv, AllocInv, WorkInv
<1>6. HostInv(own)'
  BY <1>1, <1>2, <1>4, Zenon DEF HostInv
<1>7. MemoryInv' /\ Started'
  BY <1>1, <1>2, Zenon DEF MemoryInv, Started
<1> QED
  BY <1>2, <1>3, <1>5, <1>6, <1>7, Zenon DEF Static

\* The Node informer takes an event.
LEMMA SyncNodesKeeps ==
  ASSUME NEW own, Static(own), syncNodeCache
  PROVE  Static(own)'
<1> DEFINE e == Head(nodeEvents)
           gone == e.node = NoNode
           call == [name |-> e.name, deleted |-> gone,
                    node |-> IF gone THEN nodeCache[e.name] ELSE e.node]
<1>1. NodesInv /\ budget \in Budget /\ MemoryInv
  BY DEF Static, MemoryInv
<1>2. /\ UNCHANGED <<nodes, births, budget>>
      /\ UNCHANGED <<hostSubnets, subnetEvents, subnetCache>>
      /\ UNCHANGED <<phase, loose, allocators, hostSubnetNodeIPs, worker>>
      /\ nodeEvents # <<>> /\ nodeEvents' = Tail(nodeEvents)
      /\ nodeCache' = [nodeCache EXCEPT ![e.name] = e.node]
  BY Zenon DEF syncNodeCache, api, subnetInformer, startup, memory
<1>3. nodePending' = Append(nodePending, call) \/ nodePending' = nodePending
  BY Zenon DEF syncNodeCache
<1>4. e \in NodeEvent /\ Tail(nodeEvents) \in Seq(NodeEvent)
  BY <1>1, <1>2, HeadAndTail, Zenon DEF NodesInv
<1> HIDE DEF e
<1>5. e.name \in Names /\ e.node \in Node
  BY <1>4, Zenon DEF NodeEvent
<1>6. call \in PendingNode
  <2>1. nodeCache[e.name] \in Node
    BY <1>1, <1>5 DEF NodesInv
  <2>2. (IF gone THEN nodeCache[e.name] ELSE e.node) \in Node /\ gone \in BOOLEAN
    BY <1>5, <2>1, Zenon
  <2> QED
    BY <1>5, <2>2 DEF PendingNode
<1> HIDE DEF call
<1>7. NodesInv'
  <2>1. nodeCache' \in [Names -> Node]
    BY <1>1, <1>2, <1>5 DEF NodesInv
  <2>2. nodePending' \in Seq(PendingNode)
    <3>1. nodePending \in Seq(PendingNode)
      BY <1>1 DEF NodesInv
    <3> QED
      BY <1>3, <1>6, <3>1
  <2>3. nodeEvents' \in Seq(NodeEvent)
    BY <1>2, <1>4 DEF e
  <2> QED
    BY <1>1, <1>2, <2>1, <2>2, <2>3, Zenon DEF NodesInv
<1> QED
  BY <1>1, <1>2, <1>7, NodeStepKeeps, Zenon DEF MemoryInv

\* The HostSubnet informer takes an event before there is a handler.
LEMMA SyncSubnetsKeeps ==
  ASSUME NEW own, Static(own), syncSubnetCache
  PROVE  Static(own)'
<1>1. NodesInv /\ HostInv(own) /\ AllocInv(own) /\ WorkInv(own) /\ MemoryInv /\ Started
  BY DEF Static
<1>2. /\ UNCHANGED <<nodes, births, hostSubnets, nodeEvents, nodeCache, nodePending>>
      /\ UNCHANGED <<phase, loose, allocators, hostSubnetNodeIPs, worker, budget>>
      /\ subnetEvents # <<>> /\ subnetEvents' = Tail(subnetEvents)
      /\ subnetCache' = [subnetCache EXCEPT ![Head(subnetEvents).name] = Head(subnetEvents).obj]
  BY Zenon DEF syncSubnetCache, api, nodeInformer, startup, memory
<1>3. HostInv(own)'
  BY <1>1, <1>2, Delivered, Zenon
<1>4. NodesInv' /\ AllocInv(own)' /\ WorkInv(own)' /\ MemoryInv' /\ Started'
  BY <1>1, <1>2, Zenon DEF NodesInv, AllocInv, WorkInv, MemoryInv, Started
<1> QED
  BY <1>3, <1>4, Zenon DEF Static

\* The Node informer lists again after a gap.
LEMMA RelistKeeps ==
  ASSUME Facts, NEW own, Static(own), relistNodes
  PROVE  Static(own)'
<1> DEFINE names == {n \in Names : nodes[n] # nodeCache[n]}
           event(n) == [name |-> n, node |-> nodes[n]]
<1>1. NodesInv /\ budget \in Budget /\ MemoryInv
  BY DEF Static, MemoryInv
<1>2. /\ UNCHANGED <<nodes, births, nodeCache, nodePending>>
      /\ UNCHANGED <<hostSubnets, subnetEvents, subnetCache>>
      /\ UNCHANGED <<phase, loose, allocators, hostSubnetNodeIPs, worker>>
      /\ Spend("gaps")
  BY Zenon DEF relistNodes, api, subnetInformer, startup, memory
<1>3. PICK order \in Orders(names) : nodeEvents' = [i \in DOMAIN order |-> event(order[i])]
  BY Zenon DEF relistNodes
<1>4. PICK k \in Nat : DOMAIN order = 1 .. k /\ \A i \in 1 .. k : order[i] \in names
  BY OrderIsSeq, Zenon
<1>5. \A n \in names : event(n) \in NodeEvent
  <2>1. \A n \in names : n \in Names /\ nodes[n] \in Node
    BY <1>1 DEF NodesInv
  <2> QED
    BY <2>1, Zenon DEF NodeEvent
<1> HIDE DEF event
<1>6. nodeEvents' \in [1 .. k -> NodeEvent]
  BY <1>3, <1>4, <1>5, Zenon
<1>7. NodesInv'
  BY <1>1, <1>2, <1>6 DEF NodesInv
<1>8. budget' \in Budget
  BY <1>1, <1>2, Spent, Zenon
<1> QED
  BY <1>1, <1>2, <1>7, <1>8, NodeStepKeeps, Zenon DEF MemoryInv

-----------------------------------------------------------------------------
(***************************************************************************)
(* Users, administrators and crashes.                                      *)
(***************************************************************************)
\* A user writes a Node.
LEMMA WriteNodeKeeps ==
  ASSUME NEW own, Static(own), NEW n \in Names, NEW node \in Node, WriteNode(n, node),
         births' \in [Names -> 0 .. MaxBirths]
  PROVE  Static(own)'
<1>1. NodesInv /\ budget \in Budget /\ MemoryInv
  BY Zenon DEF Static, MemoryInv
<1>2. /\ UNCHANGED <<nodeCache, nodePending>>
      /\ UNCHANGED <<hostSubnets, subnetEvents, subnetCache>>
      /\ UNCHANGED <<phase, loose, allocators, hostSubnetNodeIPs, worker>>
      /\ nodes' = [nodes EXCEPT ![n] = node]
      /\ nodeEvents' = Append(nodeEvents, [name |-> n, node |-> node])
      /\ Spend("users")
  BY Zenon DEF WriteNode, subnetInformer, startup, memory
<1>3. nodes' \in [Names -> Node]
  BY <1>1, <1>2, Zenon DEF NodesInv
<1>4. nodeEvents' \in Seq(NodeEvent)
  <2>1. [name |-> n, node |-> node] \in NodeEvent /\ nodeEvents \in Seq(NodeEvent)
    BY <1>1, Zenon DEF NodeEvent, NodesInv
  <2> QED
    BY <1>2, <2>1
<1>5. NodesInv'
  BY <1>1, <1>2, <1>3, <1>4, Zenon DEF NodesInv
<1>6. budget' \in Budget
  BY <1>1, <1>2, Spent, Zenon
<1> QED
  BY <1>1, <1>2, <1>5, <1>6, NodeStepKeeps, Zenon DEF MemoryInv

\* The users' changes of the Nodes.
LEMMA UsersKeep ==
  ASSUME NEW own, Static(own), NEW n \in NodeNames, NEW ip \in NodeIPs \cup {NoIP},
         CreateNode(n, ip) \/ ChangeNodeIP(n, ip) \/ DeleteNode(n)
  PROVE  Static(own)'
<1>1. n \in Names /\ nodes[n] \in Node /\ births \in [Names -> 0 .. MaxBirths]
  BY DEF Static, NodesInv, Names
<1>2. CASE CreateNode(n, ip)
  <2>1. /\ births' = [births EXCEPT ![n] = @ + 1] /\ births[n] < MaxBirths
        /\ WriteNode(n, [uid |-> births'[n], ip |-> ip])
    BY <1>2, Zenon DEF CreateNode
  <2>2. births' \in [Names -> 0 .. MaxBirths] /\ births'[n] \in UIDs
    BY <1>1, <2>1 DEF UIDs
  <2>3. [uid |-> births'[n], ip |-> ip] \in Node
    BY <2>2 DEF Node
  <2> QED
    BY <1>1, <2>1, <2>2, <2>3, WriteNodeKeeps, Zenon
<1>3. CASE ChangeNodeIP(n, ip)
  <2>1. WriteNode(n, [nodes[n] EXCEPT !.ip = ip]) /\ UNCHANGED births
    BY <1>3 DEF ChangeNodeIP
  <2>2. [nodes[n] EXCEPT !.ip = ip] \in Node
    BY <1>1 DEF Node
  <2> QED
    BY <1>1, <2>1, <2>2, WriteNodeKeeps, Zenon
<1>4. CASE DeleteNode(n)
  <2>1. WriteNode(n, NoNode) /\ UNCHANGED births
    BY <1>4, Zenon DEF DeleteNode
  <2>2. NoNode \in Node
    BY DEF NoNode, Node
  <2> QED
    BY <1>1, <2>1, <2>2, WriteNodeKeeps, Zenon
<1> QED
  BY <1>2, <1>3, <1>4, Zenon

\* The HostSubnet an administrator makes has no subnet.
LEMMA ClaimIsObj ==
  ASSUME NEW own, NEW ip \in NodeIPs, NEW assign \in BOOLEAN
  PROVE  LET hs == [Absent EXCEPT !.ip = ip, !.assign = assign]
         IN  hs \in Objs(own) /\ hs.subnet = NoSubnet
<1> DEFINE a == [Absent EXCEPT !.ip = ip]
           hs == [a EXCEPT !.assign = assign]
<1>1. [Absent EXCEPT !.ip = ip, !.assign = assign] = hs
  BY Zenon
<1>2. Absent \in HostSubnet /\ Absent.subnet = NoSubnet
  BY AbsentIsObj, Zenon DEF Objs
<1>3. a \in HostSubnet /\ a.subnet = NoSubnet
  BY <1>2 DEF HostSubnet
<1> HIDE DEF a
<1>4. hs \in HostSubnet /\ hs.subnet = NoSubnet
  BY <1>3, Zenon DEF HostSubnet
<1> HIDE DEF hs
<1>5. hs \in Objs(own)
  BY <1>4 DEF Objs
<1> QED
  BY <1>1, <1>4, <1>5, Zenon

\* What an administrator writes has no subnet, and nothing else changes.
LEMMA AdministratorsKeep ==
  ASSUME NEW own, Static(own), NEW n \in ClaimedNames,
         \/ \E ip \in NodeIPs, assign \in BOOLEAN : CreateHostSubnet(n, ip, assign)
         \/ DeleteHostSubnet(n)
  PROVE  /\ Static(own)'
         /\ UNCHANGED <<subnetCache, phase, loose, allocators, worker>>
         /\ n \in Names /\ \E hs \in Objs(own) : hs.subnet = NoSubnet /\ Write(n, hs)
<1>1. NodesInv /\ HostInv(own) /\ AllocInv(own) /\ WorkInv(own) /\ MemoryInv /\ Started
  BY Zenon DEF Static
<1>2. /\ UNCHANGED <<nodes, births, nodeEvents, nodeCache, nodePending, subnetCache>>
      /\ UNCHANGED <<phase, loose, allocators, hostSubnetNodeIPs, worker>>
      /\ Spend("admins")
  <2>1. /\ UNCHANGED <<nodes, births, nodeInformer, subnetCache, startup, memory, worker>>
        /\ Spend("admins")
    BY Zenon DEF CreateHostSubnet, DeleteHostSubnet
  <2> QED
    BY <2>1 DEF nodeInformer, startup, memory
<1>3. n \in Names
  BY DEF Names
<1>4. PICK hs \in Objs(own) : hs.subnet = NoSubnet /\ Write(n, hs)
  BY AbsentIsObj, ClaimIsObj, Zenon DEF CreateHostSubnet, DeleteHostSubnet
<1>5. HostInv(own)'
  BY <1>1, <1>2, <1>3, <1>4, WriteKeeps, Zenon
<1>6. budget' \in Budget
  BY <1>1, <1>2, Spent, Zenon DEF MemoryInv
<1>7. NodesInv' /\ AllocInv(own)' /\ WorkInv(own)' /\ MemoryInv' /\ Started'
  BY <1>1, <1>2, <1>6, Zenon DEF NodesInv, AllocInv, WorkInv, MemoryInv, Started
<1> QED
  BY <1>2, <1>3, <1>4, <1>5, <1>7, Zenon DEF Static

\* A new master starts from what the API server has.
LEMMA RestartKeeps ==
  ASSUME NEW own, Static(own), Restart
  PROVE  Static(own)'
<1>1. NodesInv /\ HostInv(own) /\ AllocInv(own) /\ MemoryInv
  BY Zenon DEF Static
<1>2. /\ UNCHANGED <<nodes, births, hostSubnets, loose>>
      /\ phase' = "synced" /\ hostSubnetNodeIPs' = noNodeIPs
      /\ worker' = [g \in Goroutines |-> Idle]
      /\ nodeCache' = nodes /\ nodeEvents' = <<>> /\ nodePending' = <<>>
      /\ subnetCache' = hostSubnets /\ subnetEvents' = <<>> /\ Spend("restarts")
  BY DEF Restart, api
<1>3. AllocInv(own)'
  <2>1. allocators' = [k \in DOMAIN allocators |-> newSubnetAllocator(allocators[k])]
    BY Zenon DEF Restart, newAllocators
  <2>2. {} \in SUBSET (Owned(allocators) \cup {NoSubnet})
    BY Zenon
  <2>3. ListOK(allocators') /\ Owned(allocators') = Owned(allocators)
    BY <1>1, <2>1, <2>2, Marked, Zenon DEF AllocInv
  <2> QED
    BY <1>1, <2>3 DEF AllocInv
<1>4. WorkInv(own)' /\ Started'
  BY <1>2, IdleIsWorker, Zenon DEF WorkInv, Started
<1>5. NodesInv' /\ HostInv(own)'
  BY <1>1, <1>2 DEF NodesInv, HostInv
<1>6. budget' \in Budget
  BY <1>1, <1>2, Spent, Zenon DEF MemoryInv
<1>7. MemoryInv'
  BY <1>1, <1>2, <1>6 DEF MemoryInv, noNodeIPs
<1> QED
  BY <1>3, <1>4, <1>5, <1>7, Zenon DEF Static

-----------------------------------------------------------------------------
\* The master starts with allocators for its networks and nothing else.
LEMMA InitStatic ==
  ASSUME Init
  PROVE  \E own : Static(own)
<1>1. PICK s \in Scenarios :
        /\ allocators = [k \in DOMAIN s.networks |-> newSubnetAllocator(s.networks[k])]
        /\ budget = s.budget
  BY Zenon DEF Init
<1> DEFINE shapes == s.networks
           own == Owned(allocators)
<1>2. /\ budget \in Budget /\ shapes \in Seq(Shape) /\ shapes # <<>>
      /\ \A k \in DOMAIN shapes :
           /\ numSubnets(shapes[k]) \in Nat \ {0}
           /\ \A subnet \in Subnets(shapes[k]) :
                /\ subnet \in Nat
                /\ \A j \in DOMAIN shapes : InNetwork(shapes[j], subnet) <=> j = k
  BY <1>1, ScenariosAssumption, NetworksAssumption, ZenonT(40)
<1> HIDE DEF shapes
<1>3. /\ allocators \in [DOMAIN shapes -> Allocator]
      /\ \A k \in DOMAIN shapes : /\ SameShape(allocators[k], shapes[k])
                                  /\ allocators[k].allocMap = {}
  <2>1. \A k \in DOMAIN shapes : shapes[k] \in Shape
    BY <1>2
  <2>2. allocators = [k \in DOMAIN shapes |-> newSubnetAllocator(shapes[k])]
    BY <1>1, ZenonT(40) DEF shapes
  <2> QED
    BY <2>1, <2>2, Zenon DEF Shape, Allocator, SameShape, newSubnetAllocator
<1>4. \A k \in DOMAIN shapes : /\ numSubnets(allocators[k]) = numSubnets(shapes[k])
                               /\ Subnets(allocators[k]) = Subnets(shapes[k])
                               /\ \A x : InNetwork(allocators[k], x) <=> InNetwork(shapes[k], x)
  BY <1>3, ShapeDetermines, Zenon
<1>5. allocators \in Seq(Allocator) /\ allocators # <<>> /\ DOMAIN allocators = DOMAIN shapes
  BY <1>2, <1>3
<1>6. AllocInv(own)
  <2>1. \A k \in DOMAIN allocators : Sound(allocators, k)
    BY <1>2, <1>3, <1>4, <1>5, Zenon DEF Sound
  <2> QED
    BY <1>5, <2>1, Zenon DEF AllocInv, ListOK
<1> HIDE DEF own
<1>7. NodesInv
  BY DEF Init, NodesInv, NoNode, Node
<1>8. HostInv(own)
  BY AbsentIsObj DEF Init, HostInv
<1>9. WorkInv(own) /\ Started
  BY IdleIsWorker, Zenon DEF Init, WorkInv, Started
<1>10. MemoryInv
  BY <1>2, Zenon DEF Init, MemoryInv, noNodeIPs
<1> QED
  BY <1>6, <1>7, <1>8, <1>9, <1>10, Zenon DEF Static

\* A step of something else.
LEMMA StutterKeeps ==
  ASSUME NEW own, Static(own), UNCHANGED vars
  PROVE  Static(own)'
<1>1. /\ UNCHANGED <<nodes, births, hostSubnets, nodeEvents, nodeCache, nodePending>>
      /\ UNCHANGED <<subnetEvents, subnetCache, phase, loose, allocators>>
      /\ UNCHANGED <<hostSubnetNodeIPs, worker, budget>>
  BY DEF vars, api, nodeInformer, subnetInformer, startup, memory
<1> QED
  BY <1>1, Zenon DEF Static, NodesInv, HostInv, AllocInv, WorkInv, MemoryInv, Started

\* Every step keeps the types, and every subnet a subnet of the networks.
LEMMA NextStatic ==
  ASSUME Facts, NEW own, Static(own), [Next]_vars
  PROVE  Static(own)'
<1>1. CASE startSubnetMaster
  BY <1>1, InitKeeps, WatchNodesKeeps, WatchSubnetsKeeps, Zenon DEF startSubnetMaster
<1>2. CASE \E g \in Goroutines : addNode(g)
  BY <1>2, AddNodeKeeps, Zenon
<1>3. CASE handleAddOrUpdateNode \/ handleDeleteNode \/ deleteNode
  BY <1>3, NodeHandlerKeeps, DeleteNodeKeeps, Zenon
<1>4. CASE \/ handleAddOrUpdateSubnet \/ handleDeleteSubnet \/ stampUID \/ deleteStale
           \/ handleAssignHostSubnetAnnotation
  BY <1>4, SubnetHandlerKeeps, SubnetDeletedKeeps, StampKeeps, DeleteStaleKeeps, AssignKeeps, Zenon
<1>5. CASE syncNodeCache \/ syncSubnetCache \/ resyncNodes \/ resyncSubnets \/ relistNodes
  BY <1>5, SyncNodesKeeps, SyncSubnetsKeeps, WatchNodesKeeps, WatchSubnetsKeeps, RelistKeeps, Zenon
<1>6. CASE \E n \in NodeNames :
             \/ \E ip \in NodeIPs \cup {NoIP} : CreateNode(n, ip) \/ ChangeNodeIP(n, ip)
             \/ DeleteNode(n)
  <2>1. NoIP \in NodeIPs \cup {NoIP}
    BY Zenon
  <2> QED
    BY <1>6, <2>1, UsersKeep, Zenon
<1>7. CASE \E n \in ClaimedNames :
             \/ \E ip \in NodeIPs, assign \in BOOLEAN : CreateHostSubnet(n, ip, assign)
             \/ DeleteHostSubnet(n)
  BY <1>7, AdministratorsKeep, Zenon
<1>8. CASE Restart
  BY <1>8, RestartKeeps, Zenon
<1>9. CASE UNCHANGED vars
  BY <1>9, StutterKeeps, Zenon
<1>10. "node" \in Goroutines /\ "subnet" \in Goroutines
  BY DEF Goroutines
<1> QED
  BY <1>1, <1>2, <1>3, <1>4, <1>5, <1>6, <1>7, <1>8, <1>9, <1>10, Zenon
  DEF Next, NodeGoroutine, SubnetGoroutine, Users
=============================================================================
