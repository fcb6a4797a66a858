-------------------------- MODULE SubnetLost_proofs -------------------------
(***************************************************************************)
(* That no step of SubnetMaster makes a subnet taken and nobody's.         *)
(*                                                                         *)
(* A subnet can only be released by the handler that is given the deletion *)
(* of its HostSubnet, or by the goroutine that took it.  So the argument   *)
(* is about what the informer has yet to deliver: for every name, the      *)
(* object in the cache and those of the events are a history of the name   *)
(* in which a subnet stays until a deletion, and its last object is the    *)
(* one the API server has.                                                 *)
(***************************************************************************)
EXTENDS SubnetMaster_proofs

\* Time enough for a leaf on a slow or busy machine.
USE SMTT(60)

-----------------------------------------------------------------------------
(***************************************************************************)
(* The history of name n: entry 0 is the object of cache c, entry i the    *)
(* one of event q[i] if that is about n.                                   *)
(***************************************************************************)
Entry(c, q, i, n) == IF i = 0 THEN c[n] ELSE q[i].obj
About(q, i, n) == i = 0 \/ q[i].name = n
Silent(q, i, j, n) == \A k \in i + 1 .. j : q[k].name # n

\* b may come next after a: a subnet goes away only with its object.
Follows(a, b) == a.subnet # NoSubnet => b.subnet = a.subnet \/ ~Exists(b)

Chain(c, q, n) ==
  \A j \in 1 .. Len(q) : \A i \in 0 .. j - 1 :
    q[j].name = n /\ About(q, i, n) /\ Silent(q, i, j - 1, n)
      => Follows(Entry(c, q, i, n), q[j].obj)

Latest(c, q, h, n) ==
  \A i \in 0 .. Len(q) :
    About(q, i, n) /\ Silent(q, i, Len(q), n) => Entry(c, q, i, n) = h[n]

Ordered(c, q, h) == \A n \in Names : Chain(c, q, n) /\ Latest(c, q, h, n)

\* The invariant.
InOrderOfEvents == Ordered(subnetCache, subnetEvents, hostSubnets)

-----------------------------------------------------------------------------
(***************************************************************************)
(* What happens to a history.                                              *)
(***************************************************************************)
\* Every history has a last entry.
LEMMA LastEntry ==
  ASSUME MinFact, NEW S, NEW q \in Seq(S), NEW n
  PROVE  \E i \in 0 .. Len(q) : About(q, i, n) /\ Silent(q, i, Len(q), n)
<1> DEFINE I == {k \in 0 .. Len(q) : About(q, Len(q) - k, n)}
           m == Min(I)
<1>1. Len(q) \in Nat
  OBVIOUS
<1>2. I \in SUBSET Nat /\ Len(q) \in I
  BY <1>1 DEF About
<1>3. m \in I /\ \A k \in I : m <= k
  BY <1>2, Zenon DEF MinFact
<1>4. m \in 0 .. Len(q) /\ About(q, Len(q) - m, n)
  BY <1>3
<1>5. Silent(q, Len(q) - m, Len(q), n)
  <2> SUFFICES ASSUME NEW k \in Len(q) - m + 1 .. Len(q), q[k].name = n
               PROVE  FALSE
    BY DEF Silent
  <2> HIDE DEF m
  <2>1. Len(q) - k \in 0 .. Len(q) /\ Len(q) - (Len(q) - k) = k /\ Len(q) - k < m
    BY <1>1, <1>4
  <2>2. Len(q) - k \in I
    BY <2>1 DEF About
  <2> QED
    BY <1>1, <1>3, <1>4, <2>1, <2>2
<1> HIDE DEF m
<1>6. Len(q) - m \in 0 .. Len(q)
  BY <1>1, <1>4
<1> QED
  BY <1>4, <1>5, <1>6

\* An event is delivered: its object is now the one of the cache.
LEMMA PassedOn ==
  ASSUME NEW S, NEW T, NEW c \in [Names -> T], NEW q \in Seq(S), NEW h, q # <<>>,
         Head(q).name \in Names, Ordered(c, q, h)
  PROVE  Ordered([c EXCEPT ![Head(q).name] = Head(q).obj], Tail(q), h)
<1> DEFINE m == Head(q).name
           d == [c EXCEPT ![m] = Head(q).obj]
           r == Tail(q)
<1>1. /\ Len(q) \in Nat \ {0} /\ Len(r) = Len(q) - 1
      /\ \A i \in 1 .. Len(r) : r[i] = q[i + 1]
      /\ Head(q) = q[1]
  OBVIOUS
<1>2. \A n \in Names : d[n] = IF n = m THEN q[1].obj ELSE c[n]
  BY <1>1
<1> SUFFICES Ordered(d, r, h)
  BY Zenon
<1> HIDE DEF d, r
<1> SUFFICES ASSUME NEW n \in Names
             PROVE  Chain(d, r, n) /\ Latest(d, r, h, n)
  BY DEF Ordered
<1>3. Chain(c, q, n) /\ Latest(c, q, h, n)
  BY DEF Ordered
\* Entry i of the new history was entry f(i) of the old one.
<1> DEFINE f(i) == IF i = 0 THEN IF n = m THEN 1 ELSE 0 ELSE i + 1
<1>4. ASSUME NEW i \in 0 .. Len(r), About(r, i, n)
      PROVE  /\ f(i) \in 0 .. i + 1 /\ About(q, f(i), n)
             /\ Entry(d, r, i, n) = Entry(c, q, f(i), n)
  BY <1>1, <1>2, <1>4 DEF About, Entry
<1>5. ASSUME NEW i \in 0 .. Len(r), NEW j \in 0 .. Len(r), Silent(r, i, j, n)
      PROVE  Silent(q, f(i), j + 1, n)
  <2> SUFFICES ASSUME NEW k \in f(i) + 1 .. j + 1
               PROVE  q[k].name # n
    BY DEF Silent
  <2>1. CASE k = 1
    BY <1>1, <2>1
  <2>2. CASE k # 1
    <3>1. k - 1 \in i + 1 .. j /\ k - 1 \in 1 .. Len(r) /\ (k - 1) + 1 = k
      BY <1>1, <2>2
    <3>2. r[k - 1].name # n
      BY <1>5, <3>1 DEF Silent
    <3>3. r[k - 1] = q[(k - 1) + 1]
      BY <1>1, <3>1
    <3> QED
      BY <3>1, <3>2, <3>3
  <2> QED
    BY <2>1, <2>2
<1> HIDE DEF f
<1>6. Chain(d, r, n)
  <2> SUFFICES ASSUME NEW j \in 1 .. Len(r), NEW i \in 0 .. j - 1, r[j].name = n,
                      About(r, i, n), Silent(r, i, j - 1, n)
               PROVE  Follows(Entry(d, r, i, n), r[j].obj)
    BY DEF Chain
  <2>1. i \in 0 .. Len(r) /\ j - 1 \in 0 .. Len(r) /\ (j - 1) + 1 = j /\ (j + 1) - 1 = j
        /\ j + 1 \in 1 .. Len(q) /\ r[j] = q[j + 1]
    BY <1>1
  <2>2. /\ f(i) \in 0 .. (j + 1) - 1 /\ About(q, f(i), n)
        /\ Entry(d, r, i, n) = Entry(c, q, f(i), n)
    BY <1>4, <2>1
  <2>3. Silent(q, f(i), (j + 1) - 1, n)
    BY <1>5, <2>1
  <2>4. q[j + 1].name = n
    BY <2>1
  <2>5. Follows(Entry(c, q, f(i), n), q[j + 1].obj)
    BY <1>3, <2>1, <2>2, <2>3, <2>4, Zenon DEF Chain
  <2> QED
    BY <2>1, <2>2, <2>5, Zenon
<1>7. Latest(d, r, h, n)
  <2> SUFFICES ASSUME NEW i \in 0 .. Len(r), About(r, i, n), Silent(r, i, Len(r), n)
               PROVE  Entry(d, r, i, n) = h[n]
    BY DEF Latest
  <2>1. Len(r) \in 0 .. Len(r) /\ Len(r) + 1 = Len(q) /\ 0 .. i + 1 \subseteq 0 .. Len(q)
    BY <1>1
  <2> QED
    BY <1>3, <1>4, <1>5, <2>1 DEF Latest
<1> QED
  BY <1>6, <1>7

\* An object is stored, and an event of it made.
LEMMA Appended ==
  ASSUME NEW S, NEW T, NEW c, NEW q \in Seq(S), NEW h \in [Names -> T], NEW m \in Names,
         NEW obj, [name |-> m, obj |-> obj] \in S, Ordered(c, q, h), Follows(h[m], obj)
  PROVE  Ordered(c, Append(q, [name |-> m, obj |-> obj]), [h EXCEPT ![m] = obj])
<1> DEFINE e == [name |-> m, obj |-> obj]
           r == Append(q, e)
           g == [h EXCEPT ![m] = obj]
<1> SUFFICES Ordered(c, r, g)
  BY Zenon
<1>1. /\ Len(q) \in Nat /\ Len(r) = Len(q) + 1 /\ r[Len(q) + 1] = e
      /\ \A i \in 1 .. Len(q) : r[i] = q[i]
  OBVIOUS
<1>2. \A n \in Names : g[n] = IF n = m THEN obj ELSE h[n]
  OBVIOUS
<1>3. e.name = m /\ e.obj = obj
  OBVIOUS
<1> HIDE DEF e, r, g
<1> SUFFICES ASSUME NEW n \in Names
             PROVE  Chain(c, r, n) /\ Latest(c, r, g, n)
  BY DEF Ordered
<1>4. Chain(c, q, n) /\ Latest(c, q, h, n)
  BY DEF Ordered
<1>5. ASSUME NEW i \in 0 .. Len(q), About(r, i, n)
      PROVE  About(q, i, n) /\ Entry(c, r, i, n) = Entry(c, q, i, n)
  BY <1>1, <1>5 DEF About, Entry
<1>6. ASSUME NEW i \in 0 .. Len(q), NEW j \in 0 .. Len(q), Silent(r, i, j, n)
      PROVE  Silent(q, i, j, n)
  BY <1>1, <1>6 DEF Silent
<1>7. Chain(c, r, n)
  <2> SUFFICES ASSUME NEW j \in 1 .. Len(r), NEW i \in 0 .. j - 1, r[j].name = n,
                      About(r, i, n), Silent(r, i, j - 1, n)
               PROVE  Follows(Entry(c, r, i, n), r[j].obj)
    BY DEF Chain
  <2>1. i \in 0 .. Len(q) /\ j - 1 \in 0 .. Len(q)
    BY <1>1
  <2>2. /\ About(q, i, n) /\ Entry(c, r, i, n) = Entry(c, q, i, n)
        /\ Silent(q, i, j - 1, n)
    BY <1>5, <1>6, <2>1
  <2>3. CASE j \in 1 .. Len(q)
    <3>1. r[j] = q[j]
      BY <1>1, <2>3
    <3> QED
      BY <1>4, <2>2, <2>3, <3>1 DEF Chain
  <2>4. CASE j = Len(q) + 1
    <3>1. r[j] = e /\ j - 1 = Len(q)
      BY <1>1, <2>4
    <3>2. n = m /\ Entry(c, q, i, n) = h[n]
      BY <1>3, <1>4, <2>1, <2>2, <3>1 DEF Latest
    <3> QED
      BY <1>3, <2>2, <3>1, <3>2
  <2> QED
    BY <1>1, <2>3, <2>4
<1>8. Latest(c, r, g, n)
  <2> SUFFICES ASSUME NEW i \in 0 .. Len(r), About(r, i, n), Silent(r, i, Len(r), n)
               PROVE  Entry(c, r, i, n) = g[n]
    BY DEF Latest
  <2>1. CASE i \in 0 .. Len(q)
    <3>1. r[Len(q) + 1].name # n
      BY <1>1, <2>1 DEF Silent
    <3>2. n # m
      BY <1>1, <1>3, <3>1
    <3>3. Silent(r, i, Len(q), n)
      BY <1>1, <2>1 DEF Silent
    <3>4. Silent(q, i, Len(q), n)
      BY <1>1, <1>6, <2>1, <3>3
    <3> QED
      BY <1>2, <1>4, <1>5, <2>1, <3>2, <3>4, Zenon DEF Latest
  <2>2. CASE i = Len(q) + 1
    BY <1>1, <1>2, <1>3, <2>2 DEF About, Entry
  <2> QED
    BY <1>1, <2>1, <2>2
<1> QED
  BY <1>7, <1>8

\* The objects of the cache are put before all events.
LEMMA Repeated ==
  ASSUME NEW S, NEW c, NEW q \in Seq(S), NEW h, NEW p \in Seq(S), Ordered(c, q, h),
         \A i \in 1 .. Len(p) : p[i].obj = c[p[i].name]
  PROVE  Ordered(c, p \o q, h)
<1> DEFINE r == p \o q
           z == Len(p)
<1> SUFFICES Ordered(c, r, h)
  BY Zenon
<1>1. /\ z \in Nat /\ Len(q) \in Nat /\ Len(r) = z + Len(q)
      /\ \A i \in 1 .. z : r[i] = p[i]
      /\ \A i \in 1 .. Len(q) : r[i + z] = q[i]
  OBVIOUS
<1> HIDE DEF r, z
<1> SUFFICES ASSUME NEW n \in Names
             PROVE  Chain(c, r, n) /\ Latest(c, r, h, n)
  BY DEF Ordered
<1>2. Chain(c, q, n) /\ Latest(c, q, h, n)
  BY DEF Ordered
\* What entry i of the new history repeats of the old one.
<1> DEFINE f(i) == IF i <= z THEN 0 ELSE i - z
<1>3. ASSUME NEW i \in 0 .. Len(r), About(r, i, n)
      PROVE  /\ f(i) \in 0 .. Len(q) /\ About(q, f(i), n)
             /\ Entry(c, r, i, n) = Entry(c, q, f(i), n)
  <2>1. CASE i = 0
    BY <1>1, <2>1 DEF About, Entry
  <2>2. CASE i \in 1 .. z
    <3>1. r[i] = p[i] /\ p[i].obj = c[p[i].name] /\ p[i].name = n
      BY <1>1, <1>3, <2>2 DEF About, z
    <3> QED
      BY <1>1, <2>2, <3>1 DEF About, Entry
  <2>3. CASE i > z
    <3>1. i - z \in 1 .. Len(q) /\ (i - z) + z = i /\ i # 0 /\ i - z # 0
      BY <1>1, <2>3
    <3>2. r[i] = q[i - z]
      BY <1>1, <3>1
    <3> QED
      BY <1>1, <1>3, <2>3, <3>1, <3>2 DEF About, Entry
  <2> QED
    BY <1>1, <2>1, <2>2, <2>3
<1>4. ASSUME NEW i \in 0 .. Len(r), NEW j \in 0 .. Len(q), Silent(r, i, j + z, n)
      PROVE  Silent(q, f(i), j, n)
  <2> SUFFICES ASSUME NEW k \in f(i) + 1 .. j
               PROVE  q[k].name # n
    BY DEF Silent
  <2>1. k \in 1 .. Len(q) /\ k + z \in i + 1 .. j + z
    BY <1>1
  <2>2. r[k + z].name # n
    BY <1>4, <2>1 DEF Silent
  <2>3. r[k + z] = q[k]
    BY <1>1, <2>1
  <2> QED
    BY <2>2, <2>3
<1>5. Chain(c, r, n)
  <2> SUFFICES ASSUME NEW j \in 1 .. Len(r), NEW i \in 0 .. j - 1, r[j].name = n,
                      About(r, i, n), Silent(r, i, j - 1, n)
               PROVE  Follows(Entry(c, r, i, n), r[j].obj)
    BY DEF Chain
  <2>1. i \in 0 .. Len(r) /\ j \in 0 .. Len(r) /\ j # 0 /\ About(r, j, n)
    BY <1>1 DEF About
  <2>2. /\ About(q, f(i), n) /\ Entry(c, r, i, n) = Entry(c, q, f(i), n)
        /\ About(q, f(j), n) /\ r[j].obj = Entry(c, q, f(j), n)
    BY <1>3, <2>1, Zenon DEF Entry
  <2>3. CASE j <= z
    <3>1. f(i) = 0 /\ f(j) = 0
      BY <1>1, <2>1, <2>3
    <3> QED
      BY <2>2, <3>1, Zenon DEF Follows
  <2>4. CASE j > z
    <3>1. /\ f(j) = j - z /\ j - z \in 1 .. Len(q) /\ f(i) \in 0 .. (j - z) - 1
          /\ (j - z) - 1 \in 0 .. Len(q) /\ ((j - z) - 1) + z = j - 1
      BY <1>1, <2>1, <2>4
    <3>2. Silent(q, f(i), (j - z) - 1, n)
      BY <1>4, <2>1, <3>1, Zenon
    <3>3. Entry(c, q, j - z, n) = q[j - z].obj /\ q[j - z].name = n
      BY <2>2, <3>1 DEF Entry, About
    <3> HIDE DEF f
    <3>4. Follows(Entry(c, q, f(i), n), q[j - z].obj)
      BY <1>2, <2>2, <3>1, <3>2, <3>3, Zenon DEF Chain
    <3> QED
      BY <2>2, <3>1, <3>3, <3>4
  <2> QED
    BY <1>1, <2>3, <2>4
<1>6. Latest(c, r, h, n)
  <2> SUFFICES ASSUME NEW i \in 0 .. Len(r), About(r, i, n), Silent(r, i, Len(r), n)
               PROVE  Entry(c, r, i, n) = h[n]
    BY DEF Latest
  <2>1. Len(q) \in 0 .. Len(q) /\ Len(q) + z = Len(r)
    BY <1>1
  <2> HIDE DEF f
  <2>2. Silent(q, f(i), Len(q), n)
    BY <1>4, <2>1
  <2> QED
    BY <1>2, <1>3, <2>2, Zenon DEF Latest
<1> QED
  BY <1>5, <1>6

\* A new informer has the objects as they are, and no events.
LEMMA StartsOver ==
  ASSUME NEW h
  PROVE  Ordered(h, <<>>, h)
BY DEF Ordered, Chain, Latest, Entry, About

-----------------------------------------------------------------------------
(***************************************************************************)
(* What a step does to the HostSubnets, their events and the cache.        *)
(***************************************************************************)
Still == UNCHANGED <<hostSubnets, subnetEvents, subnetCache>>
Rewritten(own) ==
  /\ UNCHANGED subnetCache
  /\ \E n \in Names, obj \in Objs(own) : Stores(n, obj) /\ Follows(hostSubnets[n], obj)
Passed ==
  /\ subnetEvents # <<>> /\ subnetEvents' = Tail(subnetEvents) /\ UNCHANGED hostSubnets
  /\ subnetCache' = [subnetCache EXCEPT ![Head(subnetEvents).name] = Head(subnetEvents).obj]
Replayed ==
  /\ UNCHANGED <<hostSubnets, subnetCache>>
  /\ \E replay \in AllSubnets : subnetEvents' = replay \o subnetEvents
Restarted == UNCHANGED hostSubnets /\ subnetCache' = hostSubnets /\ subnetEvents' = <<>>

\* Each of these keeps the histories in order.
LEMMA OrderKept ==
  ASSUME Facts, NEW own, HostInv(own), InOrderOfEvents,
         Still \/ Rewritten(own) \/ Passed \/ Replayed \/ Restarted
  PROVE  InOrderOfEvents'
<1>1. /\ hostSubnets \in [Names -> Objs(own)] /\ subnetCache \in [Names -> Objs(own)]
      /\ subnetEvents \in Seq(Events(own))
      /\ Ordered(subnetCache, subnetEvents, hostSubnets)
  BY Zenon DEF HostInv, InOrderOfEvents
<1> SUFFICES Ordered(subnetCache', subnetEvents', hostSubnets')
  BY Zenon DEF InOrderOfEvents
<1>2. CASE Still
  BY <1>1, <1>2, Zenon DEF Still
<1>3. CASE Rewritten(own)
  <2>1. PICK n \in Names, obj \in Objs(own) : Stores(n, obj) /\ Follows(hostSubnets[n], obj)
    BY <1>3, Zenon DEF Rewritten
  <2>2. [name |-> n, obj |-> obj] \in Events(own)
    BY DEF Events
  <2> QED
    BY <1>1, <1>3, <2>1, <2>2, Appended, Zenon DEF Rewritten, Stores
<1>4. CASE Passed
  <2>1. Head(subnetEvents).name \in Names
    <3>1. Head(subnetEvents) \in Events(own)
      BY <1>1, <1>4, HeadAndTail, Zenon DEF Passed
    <3> QED
      BY <3>1 DEF Events
  <2> QED
    BY <1>1, <1>4, <2>1, PassedOn, Zenon DEF Passed
<1>5. CASE Replayed
  <2>1. PICK replay \in AllSubnets : subnetEvents' = replay \o subnetEvents
    BY <1>5, Zenon DEF Replayed
  <2>2. /\ replay \in Seq(Events(own))
        /\ \A i \in 1 .. Len(replay) : replay[i].obj = subnetCache[replay[i].name]
    BY AllSubnetsType, Zenon
  <2> QED
    BY <1>1, <1>5, <2>1, <2>2, Repeated, Zenon DEF Replayed
<1>6. CASE Restarted
  BY <1>6, StartsOver, Zenon DEF Restarted
<1> QED
  BY <1>2, <1>3, <1>4, <1>5, <1>6, Zenon

\* A subnet of a HostSubnet, stored or not yet known to the handler.
Known(x) ==
  \/ \E n \in Names : hostSubnets[n].subnet = x
  \/ \E n \in Names : subnetCache[n].subnet = x
  \/ \E i \in DOMAIN subnetEvents : subnetEvents[i].obj.subnet = x

\* A goroutine has taken it and not yet made a HostSubnet with it.
InHand(x) == \E g \in Goroutines : worker[g].subnet = x

\* A taken subnet is lost when it is neither known nor in hand.
LEMMA LostMeans ==
  ASSUME NEW x, x # NoSubnet
  PROVE  x \in Lost <=> x \in Taken(allocators) /\ ~Known(x) /\ ~InHand(x)
BY DEF Lost, Stored, Assigned, Leaving, Known, InHand

\* The same in the next state.
LEMMA LostMeansNext ==
  ASSUME NEW x, x # NoSubnet
  PROVE  x \in Lost' <=> x \in Taken(allocators') /\ ~Known(x)' /\ ~InHand(x)'
BY DEF Lost, Stored, Assigned, Leaving, Known, InHand

\* The subnet of a stored HostSubnet that is about to be overwritten is known
\* to the informer, in its cache or in an event.
LEMMA StoredIsOnItsWay ==
  ASSUME Facts, NEW own, HostInv(own), InOrderOfEvents, NEW n \in Names
  PROVE  \/ subnetCache[n] = hostSubnets[n]
         \/ \E i \in 1 .. Len(subnetEvents) : subnetEvents[i].obj = hostSubnets[n]
<1>1. subnetEvents \in Seq(Events(own))
  BY DEF HostInv
<1>2. PICK i \in 0 .. Len(subnetEvents) :
        About(subnetEvents, i, n) /\ Silent(subnetEvents, i, Len(subnetEvents), n)
  BY <1>1, LastEntry, Zenon DEF Facts
<1>3. Latest(subnetCache, subnetEvents, hostSubnets, n)
  BY DEF InOrderOfEvents, Ordered
<1>4. Entry(subnetCache, subnetEvents, i, n) = hostSubnets[n]
  BY <1>2, <1>3 DEF Latest
<1>5. i = 0 \/ i \in 1 .. Len(subnetEvents)
  BY <1>1
<1> QED
  BY <1>4, <1>5 DEF Entry

\* The subnet of a HostSubnet stays known, but for the one in the cache that the
\* event to be delivered is about.
LEMMA KnownAfterPassing ==
  ASSUME NEW own, HostInv(own), Passed, NEW x, Known(x)
  PROVE  Known(x)' \/ x = subnetCache[Head(subnetEvents).name].subnet
<1> DEFINE q == subnetEvents
           m == Head(q).name
           r == Tail(q)
<1>1. /\ q \in Seq(Events(own)) /\ q # <<>> /\ subnetCache \in [Names -> Objs(own)]
      /\ hostSubnets' = hostSubnets /\ subnetEvents' = r
      /\ subnetCache' = [subnetCache EXCEPT ![m] = Head(q).obj]
  BY DEF HostInv, Passed
<1>2. Head(q) \in Events(own)
  BY <1>1, HeadAndTail, Zenon
<1>3. m \in Names
  BY <1>2 DEF Events
<1>4. /\ subnetCache'[m] = Head(q).obj
      /\ \A n \in Names \ {m} : subnetCache'[n] = subnetCache[n]
  BY <1>1, <1>3
<1>5. CASE \E n \in Names : hostSubnets[n].subnet = x
  BY <1>1, <1>5, Zenon DEF Known
<1>6. CASE \E n \in Names : subnetCache[n].subnet = x
  BY <1>4, <1>6 DEF Known
<1>7. CASE \E i \in DOMAIN q : q[i].obj.subnet = x
  <2>1. PICK i \in DOMAIN q : q[i].obj.subnet = x
    BY <1>7
  <2>2. CASE i = 1
    <3>1. q[1] = Head(q)
      BY <1>1
    <3> QED
      BY <1>3, <1>4, <2>1, <2>2, <3>1, Zenon DEF Known
  <2>3. CASE i # 1
    <3>1. i - 1 \in DOMAIN r /\ r[i - 1] = q[i]
      BY <1>1, <2>3
    <3>2. \E j \in DOMAIN r : r[j].obj.subnet = x
      BY <2>1, <3>1
    <3> QED
      BY <1>1, <3>2, Zenon DEF Known
  <2> QED
    BY <2>2, <2>3
<1> QED
  BY <1>5, <1>6, <1>7, Zenon DEF Known

\* If that event is not a deletion, the subnet is that of its object.
LEMMA KnownAfterUpdate ==
  ASSUME NEW own, HostInv(own), InOrderOfEvents, Passed, Exists(Head(subnetEvents).obj),
         NEW x, x # NoSubnet, Known(x)
  PROVE  Known(x)'
<1> DEFINE q == subnetEvents
           m == Head(q).name
<1>1. /\ q \in Seq(Events(own)) /\ q # <<>> /\ subnetCache \in [Names -> Objs(own)]
      /\ subnetCache' = [subnetCache EXCEPT ![m] = Head(q).obj]
  BY DEF HostInv, Passed
<1>2. Head(q) \in Events(own)
  BY <1>1, HeadAndTail, Zenon
<1>3. m \in Names
  BY <1>2 DEF Events
<1>4. subnetCache'[m] = Head(q).obj
  BY <1>1, <1>3, Zenon
<1>5. CASE x = subnetCache[m].subnet
  <2>1. /\ 1 \in 1 .. Len(q) /\ 0 \in 0 .. 1 - 1 /\ q[1] = Head(q) /\ q[1].name = m
    BY <1>1
  <2>2. About(q, 0, m) /\ Silent(q, 0, 1 - 1, m) /\ Entry(subnetCache, q, 0, m) = subnetCache[m]
    BY DEF About, Silent, Entry
  <2>3. Chain(subnetCache, q, m)
    BY <1>3, Zenon DEF InOrderOfEvents, Ordered
  <2> HIDE DEF m, q
  <2>4. Follows(subnetCache[m], q[1].obj)
    BY <2>1, <2>2, <2>3, Zenon DEF Chain
  <2>5. Head(q).obj.subnet = x
    BY <1>5, <2>1, <2>4 DEF Follows, q
  <2> QED
    BY <1>3, <1>4, <2>5 DEF Known
<1>6. CASE x # subnetCache[m].subnet
  BY <1>6, KnownAfterPassing, Zenon
<1> QED
  BY <1>5, <1>6, Zenon

\* What is known stays known when nothing is written, when what is written may
\* follow what it replaces, and when the cache is replayed.
LEMMA KnownKept ==
  ASSUME Facts, NEW own, HostInv(own), InOrderOfEvents, Still \/ Rewritten(own) \/ Replayed,
         NEW x, Known(x)
  PROVE  Known(x)'
<1>1. /\ hostSubnets \in [Names -> Objs(own)] /\ subnetCache \in [Names -> Objs(own)]
      /\ subnetEvents \in Seq(Events(own)) /\ UNCHANGED subnetCache
  BY DEF HostInv, Still, Rewritten, Replayed
<1>2. CASE Still
  BY <1>2, Zenon DEF Still, Known
<1>3. CASE Rewritten(own)
  <2>1. PICK n \in Names, obj \in Objs(own) : Stores(n, obj)
    BY <1>3, Zenon DEF Rewritten
  <2>2. /\ \A m \in Names \ {n} : hostSubnets'[m] = hostSubnets[m]
        /\ DOMAIN subnetEvents \subseteq DOMAIN subnetEvents'
        /\ \A i \in DOMAIN subnetEvents : subnetEvents'[i] = subnetEvents[i]
    <3>1. [name |-> n, obj |-> obj] \in Events(own)
      BY DEF Events
    <3> QED
      BY <1>1, <2>1, <3>1 DEF Stores
  <2>3. \/ subnetCache[n] = hostSubnets[n]
        \/ \E i \in 1 .. Len(subnetEvents) : subnetEvents[i].obj = hostSubnets[n]
    BY StoredIsOnItsWay, Zenon
  <2>4. 1 .. Len(subnetEvents) = DOMAIN subnetEvents
    BY <1>1
  <2> QED
    BY <1>1, <2>2, <2>3, <2>4, ZenonT(40) DEF Known
<1>4. CASE Replayed
  <2>1. PICK replay \in AllSubnets : subnetEvents' = replay \o subnetEvents
    BY <1>4, Zenon DEF Replayed
  <2>2. replay \in Seq(Events(own))
    BY AllSubnetsType, Zenon
  <2>3. \A i \in DOMAIN subnetEvents :
          /\ i + Len(replay) \in DOMAIN subnetEvents'
          /\ subnetEvents'[i + Len(replay)] = subnetEvents[i]
    BY <1>1, <2>1, <2>2
  <2> QED
    BY <1>1, <1>4, <2>3, Zenon DEF Known, Replayed
<1> QED
  BY <1>2, <1>3, <1>4, Zenon

-----------------------------------------------------------------------------
(***************************************************************************)
(* Most steps leave the allocators alone, and whoever has taken a subnet.  *)
(***************************************************************************)
InHandKept == \A g \in Goroutines : worker[g].subnet # NoSubnet => worker'[g] = worker[g]

Tame(own) ==
  /\ UNCHANGED allocators /\ InHandKept
  /\ Still \/ Rewritten(own) \/ Replayed \/ (Passed /\ Exists(Head(subnetEvents).obj))

\* Only subnets are taken.
LEMMA TakenIsSubnet ==
  ASSUME NEW list, ListOK(list), NEW x \in Taken(list)
  PROVE  x # NoSubnet
BY DEF ListOK, Sound, Taken, NoSubnet

\* Such a step loses no subnet.
LEMMA TameLosesNone ==
  ASSUME Facts, NEW own, Static(own), InOrderOfEvents, Tame(own)
  PROVE  Lost' \subseteq Lost
<1> SUFFICES ASSUME NEW x \in Lost'
             PROVE  x \in Lost
  OBVIOUS
<1>1. HostInv(own) /\ ListOK(allocators) /\ UNCHANGED allocators /\ InHandKept
  BY Zenon DEF Static, AllocInv, Tame
<1>2. x \in Taken(allocators)
  BY <1>1 DEF Lost
<1>3. x # NoSubnet
  BY <1>1, <1>2, TakenIsSubnet, Zenon
<1>4. ~Known(x)' /\ ~InHand(x)'
  BY <1>3, LostMeansNext, Zenon
<1>5. ~InHand(x)
  BY <1>1, <1>3, <1>4, Zenon DEF InHand, InHandKept
<1>6. ~Known(x)
  BY <1>1, <1>3, <1>4, KnownKept, KnownAfterUpdate, Zenon DEF Tame
<1> QED
  BY <1>2, <1>3, <1>5, <1>6, LostMeans, Zenon

\* A goroutine that has no subnet moves.
LEMMA OthersKeep ==
  ASSUME NEW own, WorkInv(own), NEW g \in Goroutines, worker[g].step # "create", NEW w,
         Becomes(g, w)
  PROVE  InHandKept
<1> SUFFICES ASSUME NEW h \in Goroutines, worker[h].subnet # NoSubnet
             PROVE  worker'[h] = worker[h]
  BY Zenon DEF InHandKept
<1>1. worker \in [Goroutines -> Workers(own)]
  BY DEF WorkInv
<1>2. worker[h] \in Workers(own)
  BY <1>1
<1>3. h # g
  BY <1>2 DEF Workers
<1> QED
  BY <1>1, <1>3 DEF Becomes

\* A step that leaves the goroutines alone keeps what they have in hand.
LEMMA AllKeep ==
  ASSUME UNCHANGED worker
  PROVE  InHandKept
BY Zenon DEF InHandKept

\* A call writes nothing, or what may follow the object it replaces.
LEMMA CallWrites ==
  ASSUME NEW own, HostInv(own), NEW o, NEW valid, NEW n \in Names, NEW hs,
         valid => hs \in Objs(own) /\ Follows(hostSubnets[n], hs), Call(o, valid, n, hs),
         UNCHANGED subnetCache
  PROVE  Still \/ Rewritten(own)
<1>1. CASE valid /\ o # "error"
  <2>1. Write(n, hs)
    BY <1>1, Zenon DEF Call
  <2>2. PICK obj \in Objs(own) : obj.subnet = hs.subnet /\ obj.ip = hs.ip /\ Stores(n, obj)
    BY <1>1, <2>1, WriteShape, Zenon
  <2>3. Follows(hostSubnets[n], obj)
    BY <1>1, <2>2, Zenon DEF Follows, Exists
  <2> QED
    BY <2>2, <2>3, Zenon DEF Rewritten
<1>2. CASE ~(valid /\ o # "error")
  BY <1>2, Zenon DEF Call, Still
<1> QED
  BY <1>1, <1>2, Zenon

\* A deletion may follow whatever it deletes.
LEMMA DeleteWrites ==
  ASSUME NEW own, HostInv(own), NEW o, NEW n \in Names, Delete(o, n), UNCHANGED subnetCache
  PROVE  Still \/ Rewritten(own)
<1>1. Absent \in Objs(own) /\ Follows(hostSubnets[n], Absent)
  BY AbsentIsObj, Zenon DEF Follows
<1> QED
  BY <1>1, CallWrites, Zenon DEF Delete

\* An update of the address or of the uid leaves the subnet as it is.
LEMMA UpdateFollows ==
  ASSUME NEW own, NEW hs \in Objs(own), Exists(hs)
  PROVE  /\ \A ip \in NodeIPs : /\ [hs EXCEPT !.ip = ip] \in Objs(own)
                                /\ Follows(hs, [hs EXCEPT !.ip = ip])
         /\ \A uid \in UIDs \cup {NoUID} : /\ [hs EXCEPT !.uid = uid] \in Objs(own)
                                          /\ Follows(hs, [hs EXCEPT !.uid = uid])
BY UpdateIsObj, Zenon DEF Follows

-----------------------------------------------------------------------------
(***************************************************************************)
(* The steps of the goroutines.                                            *)
(***************************************************************************)
\* addNode reads, deletes or updates, and no subnet goes away but with its object.
LEMMA AddNodeTame ==
  ASSUME NEW own, Static(own), NEW g \in Goroutines,
         addNodeGet(g) \/ addNodeDelete(g) \/ addNodeUpdate(g)
  PROVE  Tame(own)
<1> DEFINE w == worker[g]
           hs == hostSubnets[w.name]
<1>1. w.step \in {"get", "deleteInvalid", "update"}
  BY Zenon DEF addNodeGet, addNodeDelete, addNodeUpdate
<1>2. /\ HostInv(own) /\ WorkInv(own) /\ w.name \in Names /\ hs \in Objs(own)
      /\ w.ip \in NodeIPs
  BY <1>1, Busy DEF AddSteps
<1>3. UNCHANGED <<subnetCache, allocators>>
  <2>1. CASE addNodeGet(g)
    BY <2>1, Zenon DEF addNodeGet, subnetInformer
  <2>2. CASE addNodeDelete(g)
    BY <2>2, Zenon DEF addNodeDelete, memory
  <2>3. CASE addNodeUpdate(g)
    BY <2>3, Zenon DEF addNodeUpdate
  <2> QED
    BY <2>1, <2>2, <2>3, Zenon
<1>4. \E v : Becomes(g, v)
  BY Zenon DEF addNodeGet, addNodeDelete, addNodeUpdate, GoesTo, Returns
<1>5. InHandKept
  BY <1>1, <1>2, <1>4, OthersKeep
<1>6. Still \/ Rewritten(own)
  <2>1. CASE addNodeGet(g)
    BY <2>1, Zenon DEF addNodeGet, api, subnetInformer, Still
  <2>2. CASE addNodeDelete(g)
    BY <1>2, <1>3, <2>2, DeleteWrites, Zenon DEF addNodeDelete
  <2>3. CASE addNodeUpdate(g)
    <3> DEFINE valid == Exists(hs) /\ hs.version = w.version
               new == [hs EXCEPT !.ip = w.ip]
    <3>1. PICK o : Call(o, valid, w.name, new)
      BY <2>3, Zenon DEF addNodeUpdate
    <3>2. valid => new \in Objs(own) /\ Follows(hs, new)
      BY <1>2, UpdateFollows, Zenon
    <3> QED
      BY <1>2, <1>3, <3>1, <3>2, CallWrites, Zenon
  <2> QED
    BY <2>1, <2>2, <2>3
<1> QED
  BY <1>3, <1>5, <1>6, Zenon DEF Tame

\* The other steps of the Node handler write nothing, or delete.
LEMMA NodeHandlerTame ==
  ASSUME NEW own, Static(own), handleAddOrUpdateNode \/ handleDeleteNode \/ deleteNode
  PROVE  Tame(own)
<1>1. HostInv(own) /\ WorkInv(own) /\ "node" \in Goroutines
  BY DEF Static, Goroutines
<1>2. UNCHANGED <<subnetCache, allocators>> /\ worker["node"].step # "create"
  BY DEF handleAddOrUpdateNode, handleDeleteNode, deleteNode, subnetInformer, memory,
         NextNodeCall
<1>3. UNCHANGED worker \/ \E v : Becomes("node", v)
  BY Zenon DEF handleAddOrUpdateNode, handleDeleteNode, deleteNode, StartAddNode
<1>4. InHandKept
  BY <1>1, <1>2, <1>3, OthersKeep, AllKeep, Zenon
<1>5. Still \/ Rewritten(own)
  <2>1. CASE handleAddOrUpdateNode \/ handleDeleteNode
    BY <2>1 DEF handleAddOrUpdateNode, handleDeleteNode, api, subnetInformer, Still
  <2>2. CASE deleteNode
    <3>1. worker["node"].name \in Names
      BY <1>1, <2>2, Busy DEF deleteNode
    <3> QED
      BY <1>1, <1>2, <2>2, <3>1, DeleteWrites, Zenon DEF deleteNode
  <2> QED
    BY <2>1, <2>2, Zenon
<1> QED
  BY <1>2, <1>4, <1>5, Zenon DEF Tame

\* The steps of the HostSubnet handler write nothing, delete, or write the uid.
LEMMA SubnetHandlerTame ==
  ASSUME NEW own, Static(own),
         \/ handleAddOrUpdateSubnet \/ stampUID \/ deleteStale
         \/ handleAssignHostSubnetAnnotation
  PROVE  Tame(own)
<1> DEFINE w == worker["subnet"]
           hs == hostSubnets[w.name]
<1>1. HostInv(own) /\ WorkInv(own) /\ "subnet" \in Goroutines
  BY DEF Static, Goroutines
<1>2. UNCHANGED allocators
  <2>1. UNCHANGED memory
    BY Zenon DEF handleAddOrUpdateSubnet, stampUID, deleteStale, handleAssignHostSubnetAnnotation
  <2> QED
    BY <2>1 DEF memory
<1>3. w.step \in {"idle", "stamp", "deleteStale", "assign"}
  BY Zenon DEF handleAddOrUpdateSubnet, stampUID, deleteStale, handleAssignHostSubnetAnnotation,
               NextSubnetCall
<1>4. UNCHANGED worker \/ \E v : Becomes("subnet", v)
  BY SubnetHandlerKeeps, Zenon DEF stampUID, deleteStale, handleAssignHostSubnetAnnotation,
                                   StartAddNode
<1>5. w.step # "create"
  BY <1>3
<1>6. InHandKept
  BY <1>1, <1>4, <1>5, OthersKeep, AllKeep, Zenon
<1>7. CASE handleAddOrUpdateSubnet
  <2>1. Passed /\ Exists(Head(subnetEvents).obj)
    BY <1>7 DEF handleAddOrUpdateSubnet, NextSubnetCall, Passed, api
  <2> QED
    BY <1>2, <1>6, <2>1, Zenon DEF Tame
<1>8. CASE stampUID \/ deleteStale \/ handleAssignHostSubnetAnnotation
  <2>1. w.step # "idle"
    BY <1>8 DEF stampUID, deleteStale, handleAssignHostSubnetAnnotation
  <2>2. w.name \in Names /\ hs \in Objs(own) /\ w \in Workers(own)
    BY <1>1, <2>1, Busy, Zenon
  <2>3. UNCHANGED subnetCache
    BY <1>8, Zenon DEF stampUID, deleteStale, handleAssignHostSubnetAnnotation
  <2>4. CASE stampUID
    <3> DEFINE valid == Exists(hs) /\ hs.version = w.version
               new == [hs EXCEPT !.uid = w.uid]
    <3>1. PICK o : Call(o, valid, w.name, new)
      BY <2>4, Zenon DEF stampUID
    <3>2. w.uid \in UIDs \cup {NoUID}
      BY <2>2 DEF Workers, Worker
    <3>3. valid => new \in Objs(own) /\ Follows(hs, new)
      BY <2>2, <3>2, UpdateFollows, Zenon
    <3>4. Still \/ Rewritten(own)
      BY <1>1, <2>2, <2>3, <3>1, <3>3, CallWrites, Zenon
    <3> QED
      BY <1>2, <1>6, <3>4, Zenon DEF Tame
  <2>5. CASE deleteStale \/ handleAssignHostSubnetAnnotation
    <3>1. \E o : Delete(o, w.name)
      BY <2>5, Zenon DEF deleteStale, handleAssignHostSubnetAnnotation
    <3>2. Still \/ Rewritten(own)
      BY <1>1, <2>2, <2>3, <3>1, DeleteWrites, Zenon
    <3> QED
      BY <1>2, <1>6, <3>2, Zenon DEF Tame
  <2> QED
    BY <1>8, <2>4, <2>5, ZenonT(40)
<1> QED
  BY <1>7, <1>8

\* The informers, but for syncSubnetCache; the start of the handlers.
LEMMA InformersTame ==
  ASSUME Facts, NEW own, Static(own),
         \/ watchNodes \/ watchSubnets \/ syncNodeCache \/ resyncNodes \/ resyncSubnets
         \/ relistNodes \/ UNCHANGED vars
  PROVE  Tame(own)
<1>1. UNCHANGED worker /\ UNCHANGED allocators
  <2>1. UNCHANGED worker /\ UNCHANGED memory
    BY Zenon DEF watchNodes, watchSubnets, syncNodeCache, resyncNodes, resyncSubnets,
                 relistNodes, vars
  <2> QED
    BY <2>1 DEF memory
<1>2. InHandKept
  BY <1>1, AllKeep, Zenon
<1>3. CASE watchSubnets \/ resyncSubnets
  BY <1>1, <1>2, <1>3, WatchSubnetsKeeps, Zenon DEF Tame, Replayed
<1>4. CASE watchNodes \/ syncNodeCache \/ resyncNodes \/ relistNodes \/ UNCHANGED vars
  <2>1. UNCHANGED <<api, subnetInformer>>
    BY <1>4, Zenon DEF watchNodes, syncNodeCache, resyncNodes, relistNodes, vars
  <2>2. Still
    BY <2>1 DEF api, subnetInformer, Still
  <2> QED
    BY <1>1, <1>2, <2>2, Zenon DEF Tame
<1> QED
  BY <1>3, <1>4, Zenon

\* Users and administrators write no subnet over another one.
LEMMA UsersTame ==
  ASSUME NEW own, Static(own), Users
  PROVE  Tame(own)
<1>1. HostInv(own)
  BY DEF Static
<1>2. CASE \E n, node : WriteNode(n, node)
  <2>1. UNCHANGED <<hostSubnets, subnetInformer, memory, worker>>
    BY <1>2, Zenon DEF WriteNode
  <2>2. Still /\ UNCHANGED <<allocators, worker>>
    BY <2>1 DEF Still, subnetInformer, memory
  <2> QED
    BY <2>2, AllKeep, Zenon DEF Tame
<1>3. CASE \E n \in ClaimedNames : \E ip \in NodeIPs, assign \in BOOLEAN :
             CreateHostSubnet(n, ip, assign)
  <2>1. PICK n \in ClaimedNames, ip \in NodeIPs, assign \in BOOLEAN :
          CreateHostSubnet(n, ip, assign)
    BY <1>3, Zenon
  <2>2. n \in Names
    BY DEF Names
  <2>3. hostSubnets[n] \in Objs(own) /\ ~Exists(hostSubnets[n])
    BY <1>1, <2>1, <2>2 DEF HostInv, CreateHostSubnet
  <2>4. UNCHANGED <<subnetCache, allocators, worker>>
    BY <2>1 DEF CreateHostSubnet, memory
  <2> DEFINE hs == [Absent EXCEPT !.ip = ip, !.assign = assign]
  <2>5. Write(n, hs)
    BY <2>1, Zenon DEF CreateHostSubnet
  <2>6. hs \in Objs(own)
    BY ClaimIsObj, Zenon
  <2> HIDE DEF hs
  <2>7. hostSubnets[n].subnet = NoSubnet
    BY <2>3 DEF Objs
  <2>8. PICK obj \in Objs(own) : Stores(n, obj)
    BY <1>1, <2>2, <2>5, <2>6, WriteShape, Zenon
  <2>9. Follows(hostSubnets[n], obj)
    BY <2>7, Zenon DEF Follows
  <2> QED
    BY <2>2, <2>4, <2>8, <2>9, AllKeep, Zenon DEF Tame, Rewritten
<1>4. CASE \E n \in ClaimedNames : DeleteHostSubnet(n)
  <2>1. PICK n \in ClaimedNames : DeleteHostSubnet(n)
    BY <1>4, Zenon
  <2>2. n \in Names
    BY DEF Names
  <2>3. UNCHANGED <<subnetCache, allocators, worker>>
    BY <2>1 DEF DeleteHostSubnet, memory
  <2>4. Write(n, Absent)
    BY <2>1, Zenon DEF DeleteHostSubnet
  <2>5. PICK obj \in Objs(own) : obj.ip = Absent.ip /\ Stores(n, obj)
    BY <1>1, <2>2, <2>4, AbsentIsObj, WriteShape, Zenon
  <2>6. Follows(hostSubnets[n], obj)
    BY <2>5, AbsentIsObj, Zenon DEF Follows, Exists
  <2> QED
    BY <2>2, <2>3, <2>5, <2>6, AllKeep, Zenon DEF Tame, Rewritten
<1> QED
  BY <1>2, <1>3, <1>4, Zenon DEF Users, CreateNode, ChangeNodeIP, DeleteNode

-----------------------------------------------------------------------------
(***************************************************************************)
(* Steps that take a subnet, put it to use, or release it.                 *)
(***************************************************************************)
\* Whatever allocateNetwork takes is in the hands of the goroutine.
LEMMA AllocateLosesNone ==
  ASSUME Facts, NEW own, Static(own), NEW g \in Goroutines, addNodeAllocate(g)
  PROVE  Still /\ Lost' \subseteq Lost
<1> DEFINE r == allocateNetwork(allocators)
           y == r.subnet
           w == [worker[g] EXCEPT !.step = "create", !.subnet = y]
<1>1. WorkInv(own) /\ AllocInv(own) /\ worker[g] \in Workers(own) /\ worker[g].step = "allocate"
  BY Busy DEF addNodeAllocate
<1>2. Still /\ allocators' = r.list
  BY DEF addNodeAllocate, api, subnetInformer, Still
<1>3. \/ y = NoSubnet /\ Becomes(g, Idle)
      \/ y # NoSubnet /\ Becomes(g, w)
  BY Zenon DEF addNodeAllocate
<1>4. \/ y = NoSubnet /\ Taken(r.list) = Taken(allocators)
      \/ Taken(r.list) = Taken(allocators) \cup {y}
  BY <1>1, Allocated, Zenon DEF AllocInv, Facts
<1>5. ListOK(r.list) /\ ListOK(allocators)
  BY <1>1, Allocated DEF AllocInv, Facts
<1>6. w.subnet = y
  BY <1>1 DEF Workers, Worker
<1>7. InHandKept
  <2>1. worker[g].step # "create"
    BY <1>1
  <2> QED
    BY <1>1, <1>3, <2>1, OthersKeep, Zenon
<1> HIDE DEF r, w
<1>8. y # NoSubnet => worker'[g].subnet = y
  <2>1. worker \in [Goroutines -> Workers(own)]
    BY <1>1 DEF WorkInv
  <2>2. y # NoSubnet => worker' = [worker EXCEPT ![g] = w]
    BY <1>3, Zenon DEF Becomes
  <2> HIDE DEF y
  <2> QED
    BY <1>6, <2>1, <2>2
<1> SUFFICES ASSUME NEW x \in Lost'
             PROVE  x \in Lost
  BY <1>2
<1>9. x \in Taken(r.list)
  BY <1>2 DEF Lost
<1>10. x # NoSubnet
  BY <1>5, <1>9, TakenIsSubnet, Zenon
<1>11. ~Known(x)' /\ ~InHand(x)'
  BY <1>10, LostMeansNext, Zenon
<1>12. x # y
  BY <1>8, <1>10, <1>11, Zenon DEF InHand
<1>13. x \in Taken(allocators)
  BY <1>4, <1>9, <1>12
<1>14. ~InHand(x)
  BY <1>7, <1>10, <1>11, Zenon DEF InHand, InHandKept
<1>15. ~Known(x)
  BY <1>2, <1>11, Zenon DEF Known, Still
<1> QED
  BY <1>10, <1>13, <1>14, <1>15, LostMeans, Zenon

\* addNodeCreate stores a HostSubnet with the subnet, or releases it.
LEMMA CreateLosesNone ==
  ASSUME Facts, NEW own, Static(own), InOrderOfEvents, NEW g \in Goroutines, addNodeCreate(g)
  PROVE  (Still \/ Rewritten(own)) /\ Lost' \subseteq Lost
<1> DEFINE w == worker[g]
           n == w.name
           new == [Absent EXCEPT !.uid = w.uid, !.ip = w.ip, !.subnet = w.subnet]
           valid == ~Exists(hostSubnets[n])
<1>0. w.step = "create"
  BY Zenon DEF addNodeCreate
<1>1. /\ HostInv(own) /\ WorkInv(own) /\ AllocInv(own) /\ w \in Workers(own) /\ n \in Names
      /\ hostSubnets[n] \in Objs(own) /\ w.ip \in NodeIPs
  BY <1>0, Busy DEF AddSteps
<1>2. UNCHANGED subnetCache
  BY DEF addNodeCreate
<1>3. PICK o :
        /\ Call(o, valid, n, new) /\ Becomes(g, Idle)
        /\ allocators' = IF Succeeds(o, valid) THEN allocators
                         ELSE createFailed(allocators, w.subnet)
  BY Zenon DEF addNodeCreate, Returns
<1>4. new \in Objs(own) /\ new.subnet = w.subnet
  <2>1. w.uid \in UIDs \cup {NoUID} /\ w.subnet \in own /\ own \subseteq Nat
    BY <1>0, <1>1, OwnedNat DEF Workers, Worker
  <2>2. new \in Objs(own)
    BY <1>1, <2>1, CreatedIsObj, Zenon
  <2>3. new.subnet = w.subnet
    BY DEF Absent
  <2> QED
    BY <2>2, <2>3, Zenon
<1>5. valid => Follows(hostSubnets[n], new)
  BY <1>1 DEF Objs, Follows
<1> HIDE DEF new
<1>6. Still \/ Rewritten(own)
  BY <1>1, <1>2, <1>3, <1>4, <1>5, CallWrites, Zenon
<1>7. /\ ListOK(allocators) /\ Taken(allocators') \subseteq Taken(allocators)
      /\ ~Succeeds(o, valid) => w.subnet \notin Taken(allocators')
  <2>1. ListOK(allocators)
    BY <1>1, Zenon DEF AllocInv
  <2> DEFINE left == releaseNetwork(allocators, w.subnet)
  <2>2. Taken(left) = Taken(allocators) \ {w.subnet}
    BY <2>1, Released, Zenon
  <2>3. allocators' = left \/ (allocators' = allocators /\ Succeeds(o, valid))
    BY <1>3, Zenon DEF createFailed
  <2> HIDE DEF left
  <2> QED
    BY <2>1, <2>2, <2>3, Zenon
<1>16. PICK y : y = w.subnet
  OBVIOUS
<1>8. Succeeds(o, valid) => Known(y)'
  <2> SUFFICES ASSUME Succeeds(o, valid)
               PROVE  Known(y)'
    OBVIOUS
  <2>1. Write(n, new)
    <3>1. valid /\ o # "error"
      BY DEF Succeeds
    <3> QED
      BY <1>3, <3>1, Zenon DEF Call
  <2>2. PICK obj \in Objs(own) : obj.subnet = new.subnet /\ Stores(n, obj)
    BY <1>1, <1>4, <2>1, WriteShape, ZenonT(40)
  <2>3. PICK m \in Names : m = n
    BY <1>1
  <2>4. hostSubnets'[m] = obj
    BY <1>1, <2>2, <2>3, Zenon DEF HostInv, Stores
  <2> QED
    BY <1>4, <1>16, <2>2, <2>4, ZenonT(40) DEF Known
<1> SUFFICES ASSUME NEW x \in Lost'
             PROVE  x \in Lost
  BY <1>6
<1>9. x \in Taken(allocators') /\ x \in Taken(allocators)
  BY <1>7 DEF Lost
<1>10. x # NoSubnet
  BY <1>7, <1>9, TakenIsSubnet, Zenon
<1>11. ~Known(x)' /\ ~InHand(x)'
  BY <1>10, LostMeansNext, Zenon
<1>12. ~Known(x)
  BY <1>1, <1>6, <1>11, KnownKept, Zenon
<1>13. x # w.subnet
  BY <1>7, <1>8, <1>9, <1>11, <1>16, Zenon
<1>14. ~InHand(x)
  <2>1. \A h \in Goroutines \ {g} : worker'[h] = worker[h]
    <3>1. worker' = [worker EXCEPT ![g] = Idle]
      BY <1>3, Zenon DEF Becomes
    <3>2. worker \in [Goroutines -> Workers(own)]
      BY <1>1, Zenon DEF WorkInv
    <3> QED
      BY <3>1, <3>2
  <2> QED
    BY <1>11, <1>13, <2>1, Zenon DEF InHand
<1> QED
  BY <1>9, <1>10, <1>12, <1>14, LostMeans, Zenon

\* The only subnet of a HostSubnet that a delivery makes unknown is the one that
\* handleDeleteSubnet releases.
LEMMA DeletedLosesNone ==
  ASSUME NEW own, Static(own), handleDeleteSubnet
  PROVE  Passed /\ Lost' \subseteq Lost
<1> DEFINE m == Head(subnetEvents).name
           old == subnetCache[m]
<1>1. HostInv(own) /\ ListOK(allocators)
  BY Zenon DEF Static, AllocInv
<1>2. Passed /\ UNCHANGED worker /\ allocators' = releaseDeleted(allocators, old)
  BY Zenon DEF handleDeleteSubnet, NextSubnetCall, Passed, api
<1>3. old \in Objs(own)
  <2>1. m \in Names
    BY <1>1, <1>2, Delivered, Zenon DEF Passed
  <2> QED
    BY <1>1, <2>1 DEF HostInv
<1> HIDE DEF old
<1>4. /\ Taken(allocators') \subseteq Taken(allocators)
      /\ ~old.assign => old.subnet \notin Taken(allocators')
  BY <1>1, <1>2, Released DEF releaseDeleted
<1>5. old.assign => old.subnet = NoSubnet
  BY <1>3 DEF Objs
<1> SUFFICES ASSUME NEW x \in Lost'
             PROVE  x \in Lost
  BY <1>2
<1>6. x \in Taken(allocators') /\ x \in Taken(allocators)
  BY <1>4 DEF Lost
<1>7. x # NoSubnet
  BY <1>1, <1>6, TakenIsSubnet, Zenon
<1>8. ~Known(x)' /\ ~InHand(x)'
  BY <1>7, LostMeansNext, Zenon
<1>9. ~InHand(x)
  BY <1>2, <1>8, Zenon DEF InHand
<1>10. x # old.subnet
  BY <1>4, <1>5, <1>6, <1>7, Zenon
<1>11. ~Known(x)
  BY <1>1, <1>2, <1>8, <1>10, KnownAfterPassing, Zenon DEF old
<1> QED
  BY <1>6, <1>7, <1>9, <1>11, LostMeans, Zenon

-----------------------------------------------------------------------------
\* The steps that happen only before the handlers run, or end a master.
LEMMA OtherSteps ==
  ASSUME initSubnetAllocators \/ syncSubnetCache \/ Restart
  PROVE  /\ Still \/ Passed \/ Restarted
         /\ ~(phase = "running" /\ phase' = "running")
<1>1. CASE initSubnetAllocators
  BY <1>1, Zenon DEF initSubnetAllocators, api, subnetInformer, Still
<1>2. CASE syncSubnetCache
  BY <1>2 DEF syncSubnetCache, api, Passed
<1>3. CASE Restart
  BY <1>3 DEF Restart, api, Restarted
<1> QED
  BY <1>1, <1>2, <1>3, Zenon

\* Every step keeps the histories in order and, while both handlers run, loses no
\* subnet.
LEMMA NextOrder ==
  ASSUME Facts, NEW own, Static(own), InOrderOfEvents, [Next]_vars
  PROVE  /\ InOrderOfEvents'
         /\ phase = "running" /\ phase' = "running" => Lost' \subseteq Lost
<1>1. HostInv(own)
  BY DEF Static
<1>2. ASSUME Tame(own)
      PROVE  InOrderOfEvents' /\ Lost' \subseteq Lost
  BY <1>1, <1>2, OrderKept, TameLosesNone, Zenon DEF Tame
<1>3. ASSUME NEW g \in Goroutines, addNode(g)
      PROVE  InOrderOfEvents' /\ Lost' \subseteq Lost
  <2>1. CASE addNodeGet(g) \/ addNodeDelete(g) \/ addNodeUpdate(g)
    BY <1>2, <2>1, AddNodeTame, Zenon
  <2>2. CASE addNodeAllocate(g)
    BY <1>1, <2>2, AllocateLosesNone, OrderKept, Zenon
  <2>3. CASE addNodeCreate(g)
    BY <1>1, <2>3, CreateLosesNone, OrderKept, Zenon
  <2> QED
    BY <1>3, <2>1, <2>2, <2>3, Zenon DEF addNode
<1>4. "node" \in Goroutines /\ "subnet" \in Goroutines
  BY DEF Goroutines
<1>5. CASE NodeGoroutine
  BY <1>2, <1>3, <1>4, <1>5, NodeHandlerTame, Zenon DEF NodeGoroutine
<1>6. CASE SubnetGoroutine
  <2>1. CASE handleDeleteSubnet
    BY <1>1, <2>1, DeletedLosesNone, OrderKept, Zenon
  <2> QED
    BY <1>2, <1>3, <1>4, <1>6, <2>1, SubnetHandlerTame, Zenon DEF SubnetGoroutine
<1>7. CASE \/ watchNodes \/ watchSubnets \/ syncNodeCache \/ resyncNodes \/ resyncSubnets
           \/ relistNodes \/ UNCHANGED vars
  BY <1>2, <1>7, InformersTame, Zenon
<1>8. CASE Users
  BY <1>2, <1>8, UsersTame, Zenon
<1>9. CASE initSubnetAllocators \/ syncSubnetCache \/ Restart
  BY <1>1, <1>9, OtherSteps, OrderKept, Zenon
<1> QED
  BY <1>5, <1>6, <1>7, <1>8, <1>9, Zenon DEF Next, startSubnetMaster

\* It is so at the start.
LEMMA InitOrder ==
  ASSUME Init
  PROVE  InOrderOfEvents
BY StartsOver, Zenon DEF Init, InOrderOfEvents
=============================================================================
