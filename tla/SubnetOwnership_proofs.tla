----------------------- MODULE SubnetOwnership_proofs -----------------------
(***************************************************************************)
(* No two HostSubnets have one subnet, and none in use is handed out: for  *)
(* every set of nodes, number and size of networks, and bound on what      *)
(* happens.                                                                *)
(*                                                                         *)
(* The allocators learn of the deletion of a HostSubnet from an event, and *)
(* release what the informer's cache has for the name.  So a subnet may be *)
(* released only if neither the API server nor any event still on its way  *)
(* has it again; what a name had, from the cache through the events to the *)
(* API server, is its history.  A subnet is in the history of one name at  *)
(* most, without interruption, and then no goroutine is creating it.       *)
(***************************************************************************)
EXTENDS SubnetMaster_proofs

\* Time enough for a leaf on a slow or busy machine.
USE SMTT(60)

-----------------------------------------------------------------------------
(***************************************************************************)
(* Histories.                                                              *)
(***************************************************************************)
\* An event of another name.
Gap == -2

History(c, q, h, n) ==
  [i \in 0 .. Len(q) + 1 |->
     IF i = 0 THEN c[n].subnet
     ELSE IF i = Len(q) + 1 THEN h[n].subnet
     ELSE IF q[i].name = n THEN q[i].obj.subnet ELSE Gap]

Has(f, x) == \E i \in DOMAIN f : f[i] = x
Convex(f, x) ==
  \A i, j, k \in DOMAIN f : i < j /\ j < k /\ f[i] = x /\ f[k] = x => f[j] = x \/ f[j] = Gap

\* As far as x is concerned, history g has nothing that f has not.
Within(g, f, x) == (Has(g, x) => Has(f, x)) /\ (Convex(f, x) => Convex(g, x))

\* A history that is made of entries of another, in the same order, possibly
\* repeated, is within it; behind the last x anything but x may be added.
LEMMA Embedded ==
  ASSUME NEW a \in Nat, NEW b \in Nat, NEW f, NEW g, DOMAIN f = 0 .. a, DOMAIN g = 0 .. b,
         NEW t \in [0 .. b -> 0 .. a], \A i, j \in 0 .. b : i <= j => t[i] <= t[j], NEW x,
         \A i \in 0 .. b : g[i] = x => f[t[i]] = x,
         \A i, k \in 0 .. b : i < k /\ g[k] = x => g[i] = Gap \/ g[i] = f[t[i]]
  PROVE  Within(g, f, x)
<1>1. Has(g, x) => Has(f, x)
  BY DEF Has
<1>2. ASSUME Convex(f, x)
      PROVE  Convex(g, x)
  <2> SUFFICES ASSUME NEW i \in 0 .. b, NEW j \in 0 .. b, NEW k \in 0 .. b,
                      i < j, j < k, g[i] = x, g[k] = x, g[j] # Gap
               PROVE  g[j] = x
    BY DEF Convex
  <2>1. f[t[i]] = x /\ f[t[k]] = x /\ g[j] = f[t[j]]
    OBVIOUS
  <2>2. t[i] \in 0 .. a /\ t[j] \in 0 .. a /\ t[k] \in 0 .. a /\ t[i] <= t[j] /\ t[j] <= t[k]
    OBVIOUS
  <2>3. CASE t[i] = t[j] \/ t[j] = t[k]
    BY <2>1, <2>3
  <2>4. CASE t[i] # t[j] /\ t[j] # t[k]
    <3>1. t[i] < t[j] /\ t[j] < t[k]
      BY <2>2, <2>4
    <3> QED
      BY <1>2, <2>1, <2>2, <3>1 DEF Convex
  <2> QED
    BY <2>3, <2>4
<1> QED
  BY <1>1, <1>2 DEF Within

\* What a history is, entry by entry.
Entries(f, c, q, h, n) ==
  /\ Len(q) \in Nat /\ DOMAIN f = 0 .. Len(q) + 1
  /\ f[0] = c[n].subnet /\ f[Len(q) + 1] = h[n].subnet
  /\ \A i \in 1 .. Len(q) : f[i] = IF q[i].name = n THEN q[i].obj.subnet ELSE Gap

\* The entries of a history, one by one.
LEMMA HistoryEntries ==
  ASSUME NEW c, NEW S, NEW q \in Seq(S), NEW h, NEW n
  PROVE  Entries(History(c, q, h, n), c, q, h, n)
<1> DEFINE m == Len(q)
           f == History(c, q, h, n)
<1>1. m \in Nat
  OBVIOUS
<1>2. DOMAIN f = 0 .. m + 1
  BY Zenon DEF History
<1>3. \A i \in 0 .. m + 1 : f[i] = IF i = 0 THEN c[n].subnet ELSE IF i = m + 1 THEN h[n].subnet
                                   ELSE IF q[i].name = n THEN q[i].obj.subnet ELSE Gap
  BY Zenon DEF History
<1> HIDE DEF f
<1>4. f[0] = c[n].subnet /\ f[m + 1] = h[n].subnet
  <2>1. 0 \in 0 .. m + 1 /\ m + 1 \in 0 .. m + 1 /\ m + 1 # 0
    BY <1>1
  <2> HIDE DEF m
  <2> QED
    BY <1>3, <2>1, Zenon
<1>5. \A i \in 1 .. m : f[i] = IF q[i].name = n THEN q[i].obj.subnet ELSE Gap
  <2> TAKE i \in 1 .. m
  <2>1. i \in 0 .. m + 1 /\ i # 0 /\ i # m + 1
    BY <1>1
  <2> QED
    BY <1>3, <2>1, Zenon
<1> QED
  BY <1>1, <1>2, <1>4, <1>5, Zenon DEF Entries, f

\* Where the entries of a name's history were before the oldest event went to
\* the cache.
Shift(q, n) == [i \in 0 .. Len(q) |-> IF i = 0 /\ Head(q).name # n THEN 0 ELSE i + 1]

ShiftedEntries(g, f, c, q, n) ==
  /\ Len(q) \in Nat /\ DOMAIN f = 0 .. Len(q) + 1 /\ DOMAIN g = 0 .. Len(q)
  /\ \A i \in 0 .. Len(q) : g[i] = f[Shift(q, n)[i]]
  /\ f[0] = c[n].subnet /\ (Head(q).name = n => f[1] = Head(q).obj.subnet)

\* Every entry after a delivery is the one that Shift says of those before it.
LEMMA DeliveredEntries ==
  ASSUME NEW R, NEW S, NEW c \in [Names -> R], NEW q \in Seq(S), q # <<>>, NEW h,
         NEW n \in Names
  PROVE  ShiftedEntries(History([c EXCEPT ![Head(q).name] = Head(q).obj], Tail(q), h, n),
                        History(c, q, h, n), c, q, n)
<1> DEFINE d == [c EXCEPT ![Head(q).name] = Head(q).obj]
           a == Len(q) + 1
           b == Len(q)
           f == History(c, q, h, n)
           g == History(d, Tail(q), h, n)
           t == [i \in 0 .. b |-> IF i = 0 /\ Head(q).name # n THEN 0 ELSE i + 1]
<1>1. /\ Len(q) \in Nat \ {0} /\ Len(Tail(q)) = b - 1 /\ Head(q) = q[1] /\ Tail(q) \in Seq(S)
      /\ \A i \in 1 .. b - 1 : Tail(q)[i] = q[i + 1]
  OBVIOUS
<1>2. d[n] = IF Head(q).name = n THEN Head(q).obj ELSE c[n]
  OBVIOUS
<1>3. Entries(f, c, q, h, n) /\ Entries(g, d, Tail(q), h, n)
  BY <1>1, HistoryEntries, Zenon
<1> HIDE DEF d, f, g
<1>4. DOMAIN f = 0 .. a /\ DOMAIN g = 0 .. b /\ a \in Nat /\ b \in Nat
  BY <1>1, <1>3 DEF Entries
<1>5. \A i \in 0 .. b : g[i] = f[t[i]]
  <2> SUFFICES ASSUME NEW i \in 0 .. b
               PROVE  g[i] = f[t[i]]
    OBVIOUS
  <2>1. CASE i = 0
    <3>1. g[i] = d[n].subnet /\ f[0] = c[n].subnet
      BY <1>3, <2>1 DEF Entries
    <3>2. f[1] = IF Head(q).name = n THEN Head(q).obj.subnet ELSE Gap
      BY <1>1, <1>3 DEF Entries
    <3>3. t[i] = IF Head(q).name # n THEN 0 ELSE 1
      BY <2>1
    <3> QED
      BY <1>2, <3>1, <3>2, <3>3, Zenon
  <2>2. CASE i = b /\ i # 0
    <3>1. g[i] = h[n].subnet /\ f[a] = h[n].subnet
      BY <1>1, <1>3, <2>2 DEF Entries
    <3>2. t[i] = a
      BY <1>1, <2>2
    <3> QED
      BY <3>1, <3>2
  <2>3. CASE i # 0 /\ i # b
    <3>1. i \in 1 .. Len(Tail(q)) /\ i + 1 \in 1 .. Len(q) /\ Tail(q)[i] = q[i + 1] /\ t[i] = i + 1
      <4>1. i \in 1 .. b - 1 /\ i + 1 \in 1 .. b /\ b - 1 = Len(Tail(q))
        <5>1. b \in Nat /\ b - 1 = Len(Tail(q))
          BY <1>1
        <5> HIDE DEF b
        <5> QED
          BY <2>3, <5>1
      <4>2. t[i] = i + 1
        BY <2>3
      <4> HIDE DEF t
      <4> QED
        BY <1>1, <4>1, <4>2, Zenon
    <3>2. g[i] = IF Tail(q)[i].name = n THEN Tail(q)[i].obj.subnet ELSE Gap
      BY <1>3, <3>1 DEF Entries
    <3>3. f[i + 1] = IF q[i + 1].name = n THEN q[i + 1].obj.subnet ELSE Gap
      BY <1>3, <3>1 DEF Entries
    <3> QED
      BY <3>1, <3>2, <3>3
  <2> QED
    BY <2>1, <2>2, <2>3
<1>6. f[0] = c[n].subnet /\ (Head(q).name = n => f[1] = Head(q).obj.subnet)
  BY <1>1, <1>3 DEF Entries
<1> QED
  BY <1>1, <1>4, <1>5, <1>6, Zenon DEF ShiftedEntries, f, g, d, Shift

\* The oldest event goes to the cache.
LEMMA DeliveredHistory ==
  ASSUME NEW R, NEW S, NEW c \in [Names -> R], NEW q \in Seq(S), q # <<>>, NEW h,
         NEW n \in Names, NEW x
  PROVE  Within(History([c EXCEPT ![Head(q).name] = Head(q).obj], Tail(q), h, n),
                History(c, q, h, n), x)
<1> DEFINE a == Len(q) + 1
           b == Len(q)
           f == History(c, q, h, n)
           g == History([c EXCEPT ![Head(q).name] = Head(q).obj], Tail(q), h, n)
           t == Shift(q, n)
<1>0. ShiftedEntries(g, f, c, q, n)
  BY DeliveredEntries, Zenon
<1> HIDE DEF f, g
<1>1. /\ b \in Nat /\ DOMAIN f = 0 .. a /\ DOMAIN g = 0 .. b
      /\ \A i \in 0 .. b : g[i] = f[t[i]]
  BY <1>0, Zenon DEF ShiftedEntries
<1>2. a \in Nat /\ t \in [0 .. b -> 0 .. a] /\ \A i, j \in 0 .. b : i <= j => t[i] <= t[j]
  BY <1>1 DEF Shift
<1> HIDE DEF t, a, b
<1>3. Within(g, f, x)
  <2>1. \A i \in 0 .. b : g[i] = x => f[t[i]] = x
    BY <1>1, Zenon
  <2>2. \A i, k \in 0 .. b : i < k /\ g[k] = x => g[i] = Gap \/ g[i] = f[t[i]]
    BY <1>1, Zenon
  <2> QED
    BY <1>1, <1>2, <2>1, <2>2, Embedded, ZenonT(40)
<1> QED
  BY <1>3 DEF f, g

\* When the event of a deletion is delivered, the subnet that the name had is
\* gone from its history: it cannot have come back.
LEMMA DeletedHistory ==
  ASSUME NEW R, NEW S, NEW c \in [Names -> R], NEW q \in Seq(S), q # <<>>, NEW h,
         Head(q).name \in Names, NEW x, Convex(History(c, q, h, Head(q).name), x),
         c[Head(q).name].subnet = x, Head(q).obj.subnet \notin {x, Gap}
  PROVE  ~Has(History([c EXCEPT ![Head(q).name] = Head(q).obj], Tail(q), h, Head(q).name), x)
<1> DEFINE n == Head(q).name
           f == History(c, q, h, n)
           g == History([c EXCEPT ![Head(q).name] = Head(q).obj], Tail(q), h, n)
           t == Shift(q, n)
<1>1. /\ Len(q) \in Nat /\ DOMAIN f = 0 .. Len(q) + 1 /\ DOMAIN g = 0 .. Len(q)
      /\ \A i \in 0 .. Len(q) : g[i] = f[t[i]]
      /\ f[0] = x /\ f[1] # x /\ f[1] # Gap
  <2>1. ShiftedEntries(g, f, c, q, n)
    BY DeliveredEntries, Zenon
  <2> HIDE DEF f, g
  <2> QED
    BY <2>1, Zenon DEF ShiftedEntries
<1>2. \A i \in 0 .. Len(q) : t[i] = i + 1
  BY DEF Shift
<1> HIDE DEF f, g, t
<1>3. Convex(f, x)
  BY DEF f
<1>4. \A i \in 0 .. Len(q) : f[i + 1] # x
  BY <1>1, <1>3 DEF Convex
<1>5. ~Has(g, x)
  BY <1>1, <1>2, <1>4 DEF Has
<1> QED
  BY <1>5 DEF g

\* The history of name n once a HostSubnet is written for m, entry by entry.
ExtendedEntries(g, f, q, h, m, obj, n) ==
  /\ Len(q) \in Nat /\ DOMAIN f = 0 .. Len(q) + 1 /\ DOMAIN g = 0 .. Len(q) + 2
  /\ \A i \in 0 .. Len(q) : g[i] = f[i]
  /\ g[Len(q) + 1] = IF m = n THEN obj.subnet ELSE Gap
  /\ g[Len(q) + 2] = IF m = n THEN obj.subnet ELSE h[n].subnet
  /\ f[Len(q) + 1] = h[n].subnet

\* A write adds an entry to the history of the name, and a gap to the others.
LEMMA WrittenEntries ==
  ASSUME NEW R, NEW S, NEW c, NEW q \in Seq(S), NEW h \in [Names -> R], NEW m \in Names, NEW obj,
         [name |-> m, obj |-> obj] \in S, NEW n \in Names
  PROVE  ExtendedEntries(
           History(c, Append(q, [name |-> m, obj |-> obj]), [h EXCEPT ![m] = obj], n),
           History(c, q, h, n), q, h, m, obj, n)
<1> DEFINE e == [name |-> m, obj |-> obj]
           k == [h EXCEPT ![m] = obj]
           r == Append(q, e)
           a == Len(q) + 1
           b == Len(q) + 2
           f == History(c, q, h, n)
           g == History(c, r, k, n)
<1>1. /\ Len(q) \in Nat /\ Len(r) = a /\ r \in Seq(S) /\ r[a] = e
      /\ \A i \in 1 .. Len(q) : r[i] = q[i]
  OBVIOUS
<1>2. k[n] = IF m = n THEN obj ELSE h[n]
  OBVIOUS
<1>3. Entries(f, c, q, h, n) /\ Entries(g, c, r, k, n)
  BY <1>1, HistoryEntries, Zenon
<1>4. e.name = m /\ e.obj = obj
  OBVIOUS
<1> HIDE DEF e, k, r, f, g
<1>5. DOMAIN f = 0 .. a /\ DOMAIN g = 0 .. b /\ a \in Nat /\ b \in Nat
  BY <1>1, <1>3 DEF Entries
<1>6. \A i \in 0 .. Len(q) : g[i] = f[i]
  <2> SUFFICES ASSUME NEW i \in 0 .. Len(q)
               PROVE  g[i] = f[i]
    OBVIOUS
  <2>1. CASE i = 0
    BY <1>3, <2>1 DEF Entries
  <2>2. CASE i # 0
    <3>1. i \in 1 .. Len(q) /\ i \in 1 .. Len(r) /\ r[i] = q[i]
      BY <1>1, <2>2
    <3>2. f[i] = IF q[i].name = n THEN q[i].obj.subnet ELSE Gap
      BY <1>3, <3>1 DEF Entries
    <3>3. g[i] = IF r[i].name = n THEN r[i].obj.subnet ELSE Gap
      BY <1>3, <3>1 DEF Entries
    <3> QED
      BY <3>1, <3>2, <3>3
  <2> QED
    BY <2>1, <2>2
<1>7. g[a] = IF m = n THEN obj.subnet ELSE Gap
  <2>1. a \in 1 .. Len(r)
    BY <1>1
  <2> QED
    BY <1>1, <1>3, <1>4, <2>1 DEF Entries
<1>8. g[b] = (IF m = n THEN obj.subnet ELSE h[n].subnet) /\ f[a] = h[n].subnet
  <2>1. Len(r) + 1 = b
    BY <1>1
  <2>2. g[b] = k[n].subnet /\ f[a] = h[n].subnet
    BY <1>3, <2>1 DEF Entries
  <2> QED
    BY <1>2, <2>2
<1> QED
  BY <1>1, <1>5, <1>6, <1>7, <1>8, Zenon DEF ExtendedEntries, f, g, r, k, e

\* A HostSubnet is written, with no subnet x that was not there already.
LEMMA WrittenHistory ==
  ASSUME NEW R, NEW S, NEW c, NEW q \in Seq(S), NEW h \in [Names -> R], NEW m \in Names, NEW obj,
         [name |-> m, obj |-> obj] \in S, NEW n \in Names, NEW x, x # Gap,
         m = n /\ obj.subnet = x => h[m].subnet = x
  PROVE  Within(History(c, Append(q, [name |-> m, obj |-> obj]), [h EXCEPT ![m] = obj], n),
                History(c, q, h, n), x)
<1> DEFINE a == Len(q) + 1
           b == Len(q) + 2
           f == History(c, q, h, n)
           g == History(c, Append(q, [name |-> m, obj |-> obj]), [h EXCEPT ![m] = obj], n)
           t == [i \in 0 .. b |-> IF i <= a THEN i ELSE a]
<1>1. /\ Len(q) \in Nat /\ DOMAIN f = 0 .. a /\ DOMAIN g = 0 .. b
      /\ \A i \in 0 .. Len(q) : g[i] = f[i]
      /\ g[a] = IF m = n THEN obj.subnet ELSE Gap
      /\ g[b] = IF m = n THEN obj.subnet ELSE h[n].subnet
      /\ f[a] = h[n].subnet
  <2>1. ExtendedEntries(g, f, q, h, m, obj, n)
    BY WrittenEntries, Zenon
  <2> HIDE DEF f, g
  <2> QED
    BY <2>1, Zenon DEF ExtendedEntries
<1> HIDE DEF f, g
<1>2. /\ a \in Nat /\ b \in Nat
      /\ t \in [0 .. b -> 0 .. a] /\ \A i, j \in 0 .. b : i <= j => t[i] <= t[j]
  BY <1>1
<1>3. (\A i \in 0 .. Len(q) : t[i] = i) /\ t[a] = a /\ t[b] = a
  BY <1>1
<1>4. \A i \in 0 .. b : i \in 0 .. Len(q) \/ i = a \/ i = b
  BY <1>1
<1> HIDE DEF t
<1>5. \A i \in 0 .. b : g[i] = x => f[t[i]] = x
  BY <1>1, <1>3, <1>4
<1>6. \A i, j \in 0 .. b : i < j /\ g[j] = x => g[i] = Gap \/ g[i] = f[t[i]]
  <2> SUFFICES ASSUME NEW i \in 0 .. b, NEW j \in 0 .. b, i < j, g[j] = x
               PROVE  g[i] = Gap \/ g[i] = f[t[i]]
    OBVIOUS
  <2>1. CASE i \in 0 .. Len(q)
    BY <1>1, <1>3, <2>1
  <2>2. CASE i = a
    <3>1. j = b
      BY <1>1, <2>2
    <3> QED
      BY <1>1, <1>3, <2>2, <3>1, Zenon
  <2>3. CASE i = b
    BY <1>1, <2>3
  <2> QED
    BY <1>4, <2>1, <2>2, <2>3
<1> HIDE DEF a, b
<1>7. Within(g, f, x)
  BY <1>1, <1>2, <1>5, <1>6, Embedded, ZenonT(40)
<1> QED
  BY <1>7 DEF f, g

\* A subnet that is new to a name's history is there without interruption.
LEMMA CreatedHistory ==
  ASSUME NEW R, NEW S, NEW c, NEW q \in Seq(S), NEW h \in [Names -> R], NEW n \in Names, NEW obj,
         [name |-> n, obj |-> obj] \in S, NEW x, ~Has(History(c, q, h, n), x)
  PROVE  Convex(History(c, Append(q, [name |-> n, obj |-> obj]), [h EXCEPT ![n] = obj], n), x)
<1> DEFINE a == Len(q) + 1
           b == Len(q) + 2
           f == History(c, q, h, n)
           g == History(c, Append(q, [name |-> n, obj |-> obj]), [h EXCEPT ![n] = obj], n)
<1>1. /\ Len(q) \in Nat /\ DOMAIN f = 0 .. a /\ DOMAIN g = 0 .. b
      /\ \A i \in 0 .. Len(q) : g[i] = f[i]
  <2>1. ExtendedEntries(g, f, q, h, n, obj, n)
    BY WrittenEntries, Zenon
  <2> HIDE DEF f, g
  <2> QED
    BY <2>1, Zenon DEF ExtendedEntries
<1>2. ~Has(f, x)
  OBVIOUS
<1> HIDE DEF f, g
<1>3. \A i \in 0 .. Len(q) : g[i] # x
  BY <1>1, <1>2 DEF Has
<1>4. Convex(g, x)
  BY <1>1, <1>3 DEF Convex
<1> QED
  BY <1>4 DEF g

\* What the cache has is delivered once more.
LEMMA ReplayedHistory ==
  ASSUME NEW S, NEW c, NEW q \in Seq(S), NEW h, NEW p \in Seq(S),
         \A i \in 1 .. Len(p) : p[i].obj = c[p[i].name], NEW n, NEW x, x # Gap
  PROVE  Within(History(c, p \o q, h, n), History(c, q, h, n), x)
<1> DEFINE r == p \o q
           z == Len(p)
           a == Len(q) + 1
           b == Len(p) + Len(q) + 1
           f == History(c, q, h, n)
           g == History(c, r, h, n)
           t == [i \in 0 .. b |-> IF i <= z THEN 0 ELSE i - z]
<1>1. /\ Len(q) \in Nat /\ z \in Nat /\ r \in Seq(S) /\ Len(r) = z + Len(q)
      /\ \A i \in 1 .. z : r[i] = p[i]
      /\ \A i \in z + 1 .. z + Len(q) : r[i] = q[i - z]
  OBVIOUS
<1>2. Entries(f, c, q, h, n) /\ Entries(g, c, r, h, n)
  BY <1>1, HistoryEntries, Zenon
<1> HIDE DEF r, f, g, z
<1>3. DOMAIN f = 0 .. a /\ DOMAIN g = 0 .. b /\ a \in Nat /\ b \in Nat
  BY <1>1, <1>2 DEF Entries, z
<1>4. t \in [0 .. b -> 0 .. a] /\ \A i, j \in 0 .. b : i <= j => t[i] <= t[j]
  BY <1>1 DEF z
<1>5. \A i \in 0 .. b : g[i] = f[t[i]] \/ (g[i] = Gap /\ t[i] = 0 /\ i # 0)
  <2> SUFFICES ASSUME NEW i \in 0 .. b
               PROVE  g[i] = f[t[i]] \/ (g[i] = Gap /\ t[i] = 0 /\ i # 0)
    OBVIOUS
  <2>1. CASE i = 0
    <3>1. t[i] = 0
      BY <1>1, <2>1
    <3> QED
      BY <1>2, <2>1, <3>1 DEF Entries
  <2>2. CASE i # 0 /\ i <= z
    <3>1. i \in 1 .. z /\ i \in 1 .. Len(r) /\ t[i] = 0
      BY <1>1, <2>2
    <3>2. g[i] = IF p[i].name = n THEN p[i].obj.subnet ELSE Gap
      BY <1>1, <1>2, <3>1 DEF Entries
    <3>3. p[i].obj = c[p[i].name] /\ f[0] = c[n].subnet
      BY <1>2, <3>1 DEF Entries, z
    <3> QED
      BY <2>2, <3>1, <3>2, <3>3
  <2>3. CASE ~(i <= z) /\ i # b
    <3>1. /\ i - z \in 1 .. Len(q) /\ i \in z + 1 .. z + Len(q) /\ i \in 1 .. Len(r)
      <4> DEFINE m == Len(q)
      <4>1. m \in Nat /\ z \in Nat /\ i \in 0 .. z + m + 1 /\ i # z + m + 1 /\ Len(r) = z + m
        BY <1>1, <2>3 DEF z
      <4> HIDE DEF m
      <4>2. i - z \in 1 .. m /\ i \in z + 1 .. z + m /\ i \in 1 .. z + m
        BY <2>3, <4>1
      <4> QED
        BY <4>1, <4>2 DEF m
    <3>2. t[i] = i - z
      BY <2>3
    <3>3. g[i] = IF r[i].name = n THEN r[i].obj.subnet ELSE Gap
      BY <1>2, <3>1, Zenon DEF Entries
    <3>4. f[i - z] = IF q[i - z].name = n THEN q[i - z].obj.subnet ELSE Gap
      BY <1>2, <3>1 DEF Entries
    <3> QED
      BY <1>1, <3>1, <3>2, <3>3, <3>4
  <2>4. CASE i = b
    <3>1. t[i] = a /\ b = Len(r) + 1
      BY <1>1, <2>4 DEF z
    <3> QED
      BY <1>2, <2>4, <3>1 DEF Entries
  <2> QED
    BY <2>1, <2>2, <2>3, <2>4
<1> HIDE DEF t, a, b
<1>6. Within(g, f, x)
  <2>1. \A i \in 0 .. b : g[i] = x => f[t[i]] = x
    BY <1>5, Zenon
  <2>2. \A i, k \in 0 .. b : i < k /\ g[k] = x => g[i] = Gap \/ g[i] = f[t[i]]
    BY <1>5, Zenon
  <2> QED
    BY <1>3, <1>4, <2>1, <2>2, Embedded, ZenonT(40)
<1> QED
  BY <1>6 DEF r, f, g

\* After a restart the cache is what the API server has.
LEMMA RestartedHistory ==
  ASSUME NEW S, NEW c, NEW q \in Seq(S), NEW h, NEW n, NEW x
  PROVE  Within(History(h, <<>>, h, n), History(c, q, h, n), x)
<1> DEFINE a == Len(q) + 1
           f == History(c, q, h, n)
           g == History(h, <<>>, h, n)
<1>1. <<>> \in Seq(S) /\ Len(<<>>) = 0
  OBVIOUS
<1>2. Entries(f, c, q, h, n) /\ Entries(g, h, <<>>, h, n)
  BY <1>1, HistoryEntries, Zenon
<1> HIDE DEF f, g
<1>3. /\ DOMAIN f = 0 .. a /\ DOMAIN g = 0 .. 1 /\ a \in DOMAIN f
      /\ g[0] = f[a] /\ g[1] = f[a]
  BY <1>1, <1>2 DEF Entries
<1> HIDE DEF a
<1>4. Has(g, x) => Has(f, x)
  BY <1>3 DEF Has
<1>5. Convex(g, x)
  BY <1>3 DEF Convex
<1> QED
  BY <1>4, <1>5 DEF Within, f, g

-----------------------------------------------------------------------------
(***************************************************************************)
(* The invariant.                                                          *)
(***************************************************************************)
\* The history of name n, and whether it has x.
hist(n) == History(subnetCache, subnetEvents, hostSubnets, n)
Held(n, x) == Has(hist(n), x)

Creating(g, x) == worker[g].step = "create" /\ worker[g].subnet = x

\* One name has x at most, without interruption, and nobody creates what a name
\* has or another creates; once the master has started, x is then taken.
Own(x) ==
  x \notin loose =>
    /\ \A m, n \in Names : Held(m, x) /\ Held(n, x) => m = n
    /\ \A g \in Goroutines : Creating(g, x) => \A n \in Names : ~Held(n, x)
    /\ \A g, k \in Goroutines : Creating(g, x) /\ Creating(k, x) => g = k
    /\ phase # "synced" =>
         /\ \A n \in Names : Held(n, x) => x \in Taken(allocators)
         /\ \A g \in Goroutines : Creating(g, x) => x \in Taken(allocators)
    /\ \A n \in Names : Convex(hist(n), x)

\* As far as x is concerned, a step adds nothing to any history, and makes no
\* goroutine create it.
Shrinks(x) ==
  /\ \A n \in Names : Within(hist(n)', hist(n), x)
  /\ \A g \in Goroutines : Creating(g, x)' => Creating(g, x)

\* Such a step keeps the invariant if it releases x only when it is not in use.
LEMMA ShrinksKeeps ==
  ASSUME NEW x, Own(x), Shrinks(x), loose \subseteq loose',
         phase' # "synced" => \/ phase # "synced" /\ (x \in Taken(allocators) => x \in Taken(allocators)')
                              \/ /\ \A n \in Names : ~Held(n, x)'
                                 /\ \A g \in Goroutines : ~Creating(g, x)'
  PROVE  Own(x)'
<1> SUFFICES ASSUME x \notin loose'
             PROVE  /\ \A m, n \in Names : Held(m, x)' /\ Held(n, x)' => m = n
                    /\ \A g \in Goroutines : Creating(g, x)' => \A n \in Names : ~Held(n, x)'
                    /\ \A g, k \in Goroutines : Creating(g, x)' /\ Creating(k, x)' => g = k
                    /\ phase' # "synced" =>
                         /\ \A n \in Names : Held(n, x)' => x \in Taken(allocators)'
                         /\ \A g \in Goroutines : Creating(g, x)' => x \in Taken(allocators)'
                    /\ \A n \in Names : Convex(hist(n), x)'
  BY Zenon DEF Own
<1>1. x \notin loose
  OBVIOUS
<1>2. \A n \in Names : /\ Held(n, x)' => Held(n, x)
                       /\ Convex(hist(n), x) => Convex(hist(n), x)'
  BY Zenon DEF Shrinks, Within, Held
<1>3. \A g \in Goroutines : Creating(g, x)' => Creating(g, x)
  BY Zenon DEF Shrinks
<1> QED
  BY <1>1, <1>2, <1>3, Zenon DEF Own

\* No step but addNodeAllocate makes a goroutine about to create.
NoNewCreator == \A g \in Goroutines : worker'[g].step = "create" => worker'[g] = worker[g]

\* A goroutine that goes on to anything but a creation creates nothing new.
LEMMA MovesOn ==
  ASSUME NEW own, WorkInv(own), NEW g \in Goroutines, NEW w, Becomes(g, w), w.step # "create"
  PROVE  NoNewCreator
BY DEF WorkInv, Becomes, NoNewCreator

\* With no new creator, the creators of a subnet are among those it had.
LEMMA CreatorsShrink ==
  ASSUME NoNewCreator, NEW x
  PROVE  \A g \in Goroutines : Creating(g, x)' => Creating(g, x)
BY Zenon DEF NoNewCreator, Creating

\* What is in a subnet's place in the histories when nothing is written.
LEMMA WithinItself ==
  ASSUME NEW f, NEW x
  PROVE  Within(f, f, x)
BY DEF Within

\* Without a write or a delivery the histories stay.
LEMMA SameHistories ==
  ASSUME UNCHANGED <<hostSubnets, subnetEvents, subnetCache>>, NEW x
  PROVE  \A n \in Names : Within(hist(n)', hist(n), x)
<1> SUFFICES ASSUME NEW n \in Names
             PROVE  Within(hist(n)', hist(n), x)
  OBVIOUS
<1>1. hist(n)' = hist(n)
  BY Zenon DEF hist
<1> QED
  BY <1>1, WithinItself, Zenon

\* A delivery puts nothing new in a history.
LEMMA DeliveredHistories ==
  ASSUME NEW own, HostInv(own), subnetEvents # <<>>, UNCHANGED hostSubnets,
         subnetCache' = [subnetCache EXCEPT ![Head(subnetEvents).name] = Head(subnetEvents).obj],
         subnetEvents' = Tail(subnetEvents), NEW x
  PROVE  \A n \in Names : Within(hist(n)', hist(n), x)
BY DeliveredHistory, Zenon DEF hist, HostInv

\* A write puts a subnet in a history only if the object it replaces had it.
LEMMA WrittenHistories ==
  ASSUME NEW own, HostInv(own), NEW m \in Names, NEW hs \in Objs(own), Write(m, hs),
         UNCHANGED subnetCache, NEW x, x # Gap, hs.subnet = x => hostSubnets[m].subnet = x
  PROVE  \A n \in Names : Within(hist(n)', hist(n), x)
<1>1. PICK obj \in Objs(own) : obj.subnet = hs.subnet /\ Stores(m, obj)
  BY WriteShape, Zenon
<1>2. [name |-> m, obj |-> obj] \in Events(own)
  BY DEF Events
<1>3. /\ subnetEvents \in Seq(Events(own)) /\ hostSubnets \in [Names -> Objs(own)]
      /\ obj.subnet = x => hostSubnets[m].subnet = x
  BY <1>1, Zenon DEF HostInv
<1> SUFFICES ASSUME NEW n \in Names
             PROVE  Within(hist(n)', hist(n), x)
  OBVIOUS
<1>4. Within(History(subnetCache, Append(subnetEvents, [name |-> m, obj |-> obj]),
                     [hostSubnets EXCEPT ![m] = obj], n),
             History(subnetCache, subnetEvents, hostSubnets, n), x)
  BY <1>2, <1>3, WrittenHistory, Zenon
<1> QED
  BY <1>1, <1>4, Zenon DEF hist, Stores

\* The same of a call, whatever its outcome.
LEMMA CallHistories ==
  ASSUME NEW own, HostInv(own), NEW o, NEW valid, NEW m \in Names, NEW hs,
         Call(o, valid, m, hs), valid => hs \in Objs(own), UNCHANGED subnetCache, NEW x, x # Gap,
         valid /\ hs.subnet = x => hostSubnets[m].subnet = x
  PROVE  \A n \in Names : Within(hist(n)', hist(n), x)
<1>1. CASE valid /\ o # "error"
  <2>1. Write(m, hs) /\ hs \in Objs(own)
    BY <1>1, Zenon DEF Call
  <2> QED
    BY <1>1, <2>1, WrittenHistories, Zenon
<1>2. CASE ~(valid /\ o # "error")
  <2>1. UNCHANGED <<hostSubnets, subnetEvents, subnetCache>>
    BY <1>2, Zenon DEF Call
  <2> QED
    BY <2>1, SameHistories, Zenon
<1> QED
  BY <1>1, <1>2, Zenon

\* A subnet is neither a gap nor the absence of one.
LEMMA NatIsSubnet ==
  ASSUME NEW x \in Nat
  PROVE  x # Gap /\ x # NoSubnet
BY DEF Gap, NoSubnet

\* A deletion puts no subnet in a history.
LEMMA DeleteHistories ==
  ASSUME NEW own, HostInv(own), NEW o, NEW m \in Names, Delete(o, m), UNCHANGED subnetCache,
         NEW x \in Nat
  PROVE  \A n \in Names : Within(hist(n)', hist(n), x)
<1>1. Absent \in Objs(own) /\ Absent.subnet # x /\ x # Gap
  BY AbsentIsObj, NatIsSubnet, Zenon
<1> QED
  BY <1>1, CallHistories, Zenon DEF Delete

\* A replay of the cache puts nothing new in a history.
LEMMA ReplayedHistories ==
  ASSUME Facts, NEW own, HostInv(own), NEW replay \in AllSubnets,
         subnetEvents' = replay \o subnetEvents, UNCHANGED <<hostSubnets, subnetCache>>,
         NEW x, x # Gap
  PROVE  \A n \in Names : Within(hist(n)', hist(n), x)
<1>1. /\ replay \in Seq(Events(own))
      /\ \A i \in 1 .. Len(replay) : replay[i].obj = subnetCache[replay[i].name]
  BY AllSubnetsType, Zenon
<1>2. subnetEvents \in Seq(Events(own))
  BY DEF HostInv
<1> SUFFICES ASSUME NEW n \in Names
             PROVE  Within(hist(n)', hist(n), x)
  OBVIOUS
<1>3. Within(History(subnetCache, replay \o subnetEvents, hostSubnets, n),
             History(subnetCache, subnetEvents, hostSubnets, n), x)
  BY <1>1, <1>2, ReplayedHistory, Zenon
<1> QED
  BY <1>3, Zenon DEF hist

\* After a restart a history is what the API server has.
LEMMA RestartedHistories ==
  ASSUME NEW own, HostInv(own), UNCHANGED hostSubnets, subnetCache' = hostSubnets,
         subnetEvents' = <<>>, NEW x
  PROVE  \A n \in Names : Within(hist(n)', hist(n), x)
BY RestartedHistory, Zenon DEF hist, HostInv

-----------------------------------------------------------------------------
(***************************************************************************)
(* Steps that release no subnet, and bring none into use.                  *)
(***************************************************************************)
Ownership == \A x \in Nat : Own(x)

Harmless ==
  /\ UNCHANGED loose /\ (phase' # "synced" => phase # "synced" /\ UNCHANGED allocators)
  /\ NoNewCreator
  /\ \A x \in Nat : \A n \in Names : Within(hist(n)', hist(n), x)

\* A harmless step keeps the invariant.
LEMMA HarmlessKeeps ==
  ASSUME Ownership, Harmless
  PROVE  Ownership'
<1> SUFFICES ASSUME NEW x \in Nat
             PROVE  Own(x)'
  BY DEF Ownership
<1>1. Own(x) /\ loose \subseteq loose'
  BY DEF Ownership, Harmless
<1>2. Shrinks(x)
  BY CreatorsShrink, Zenon DEF Harmless, Shrinks
<1>3. phase' # "synced" => phase # "synced" /\ (x \in Taken(allocators) => x \in Taken(allocators)')
  BY Zenon DEF Harmless
<1> QED
  BY <1>1, <1>2, <1>3, ShrinksKeeps, Zenon

\* A goroutine that goes on to another step than that of creating.
LEMMA GoesOn ==
  ASSUME NEW own, WorkInv(own), NEW g \in Goroutines, NEW step, step # "create", GoesTo(g, step)
  PROVE  NoNewCreator
<1>1. worker[g] \in Worker
  BY DEF WorkInv, Workers
<1>2. [worker[g] EXCEPT !.step = step].step # "create"
  BY <1>1 DEF Worker
<1> QED
  BY <1>2, MovesOn, Zenon DEF GoesTo

\* A handler that returns creates nothing.
LEMMA ReturnsCreate ==
  ASSUME NEW own, WorkInv(own), NEW g \in Goroutines, Becomes(g, Idle)
  PROVE  NoNewCreator
<1>1. Idle.step # "create"
  BY DEF Idle
<1> QED
  BY <1>1, MovesOn, Zenon

\* A handler that starts addNode has no subnet yet.
LEMMA StartCreates ==
  ASSUME NEW own, WorkInv(own), NEW g \in Goroutines, NEW n, NEW uid, NEW ip,
         StartAddNode(g, n, uid, ip)
  PROVE  NoNewCreator
<1> DEFINE w == [Idle EXCEPT !.step = "get", !.name = n, !.uid = uid, !.ip = ip]
<1>1. w.step # "create"
  BY DEF Idle
<1>2. Becomes(g, w) \/ Becomes(g, Idle)
  BY Zenon DEF StartAddNode
<1> HIDE DEF w
<1> QED
  BY <1>1, <1>2, MovesOn, ReturnsCreate, Zenon

\* addNode reads the HostSubnet.
LEMMA GetHarmless ==
  ASSUME NEW own, Static(own), NEW g \in Goroutines, addNodeGet(g)
  PROVE  Harmless
<1> DEFINE w == worker[g]
           hs == hostSubnets[w.name]
<1>1. WorkInv(own) /\ phase # "synced"
  BY Busy, Zenon DEF addNodeGet
<1>2. UNCHANGED <<hostSubnets, subnetEvents, subnetCache, loose, phase, allocators>>
  BY DEF addNodeGet, api, subnetInformer, startup
<1>3. \/ GoesTo(g, "allocate") \/ GoesTo(g, "deleteInvalid") \/ Becomes(g, Idle)
      \/ Becomes(g, [w EXCEPT !.step = "update", !.version = hs.version])
  BY Zenon DEF addNodeGet, Returns
<1>4. w \in Worker
  BY <1>1 DEF WorkInv, Workers
<1>5. [w EXCEPT !.step = "update", !.version = hs.version].step # "create"
  BY <1>4 DEF Worker
<1>6. "allocate" # "create" /\ "deleteInvalid" # "create"
  OBVIOUS
<1>7. NoNewCreator
  BY <1>1, <1>3, <1>5, <1>6, GoesOn, ReturnsCreate, MovesOn, Zenon
<1> QED
  BY <1>1, <1>2, <1>7, SameHistories, Zenon DEF Harmless

\* addNode deletes the HostSubnet of an earlier node of the name.
LEMMA DeleteInvalidHarmless ==
  ASSUME NEW own, Static(own), NEW g \in Goroutines, addNodeDelete(g)
  PROVE  Harmless
<1>1. HostInv(own) /\ WorkInv(own) /\ worker[g].name \in Names /\ phase # "synced"
  BY Busy, Zenon DEF addNodeDelete
<1>2. UNCHANGED <<subnetCache, loose, phase, allocators>>
  BY DEF addNodeDelete, startup, memory
<1>3. \E o : Delete(o, worker[g].name)
  BY Zenon DEF addNodeDelete
<1>4. NoNewCreator
  <2>1. "allocate" # "create"
    OBVIOUS
  <2> QED
    BY <1>1, <2>1, GoesOn, Zenon DEF addNodeDelete
<1> QED
  BY <1>1, <1>2, <1>3, <1>4, DeleteHistories, Zenon DEF Harmless

\* addNode writes the new address, and the subnet that was there.
LEMMA UpdateHarmless ==
  ASSUME NEW own, Static(own), NEW g \in Goroutines, addNodeUpdate(g)
  PROVE  Harmless
<1> DEFINE w == worker[g]
           hs == hostSubnets[w.name]
           new == [hs EXCEPT !.ip = w.ip]
           valid == Exists(hs) /\ hs.version = w.version
<1>1. /\ HostInv(own) /\ WorkInv(own) /\ w.name \in Names /\ hs \in Objs(own)
      /\ w.ip \in NodeIPs /\ phase # "synced"
  BY Busy DEF addNodeUpdate, AddSteps
<1>2. UNCHANGED <<subnetCache, loose, phase, allocators>>
  BY DEF addNodeUpdate, startup
<1>3. PICK o : Call(o, valid, w.name, new) /\ Becomes(g, Idle)
  BY Zenon DEF addNodeUpdate, Returns
<1>4. valid => new \in Objs(own) /\ new.subnet = hs.subnet
  BY <1>1, UpdateIsObj, Zenon
<1>5. NoNewCreator
  BY <1>1, <1>3, ReturnsCreate, Zenon
<1> HIDE DEF new, valid
<1>6. \A x \in Nat : \A n \in Names : Within(hist(n)', hist(n), x)
  <2> SUFFICES ASSUME NEW x \in Nat
               PROVE  \A n \in Names : Within(hist(n)', hist(n), x)
    OBVIOUS
  <2>1. x # Gap
    BY NatIsSubnet, Zenon
  <2>2. valid /\ new.subnet = x => hostSubnets[w.name].subnet = x
    BY <1>4, Zenon
  <2>3. valid => new \in Objs(own)
    BY <1>4, Zenon
  <2> HIDE DEF w
  <2> QED
    BY <1>1, <1>2, <1>3, <2>1, <2>2, <2>3, CallHistories, Zenon
<1> QED
  BY <1>1, <1>2, <1>5, <1>6, Zenon DEF Harmless

\* deleteNode deletes the HostSubnet of the name.
LEMMA DeleteNodeHarmless ==
  ASSUME NEW own, Static(own), deleteNode
  PROVE  Harmless
<1>0. "node" \in Goroutines /\ worker["node"].step # "idle"
  BY DEF deleteNode, Goroutines
<1>1. HostInv(own) /\ WorkInv(own) /\ worker["node"].name \in Names /\ phase # "synced"
  BY <1>0, Busy, Zenon
<1>2. UNCHANGED <<subnetCache, loose, phase, allocators>>
  BY DEF deleteNode, startup, memory
<1>3. (\E o : Delete(o, worker["node"].name)) /\ Becomes("node", Idle)
  BY Zenon DEF deleteNode
<1>4. NoNewCreator
  BY <1>0, <1>1, <1>3, ReturnsCreate, Zenon
<1> QED
  BY <1>1, <1>2, <1>3, <1>4, DeleteHistories, Zenon DEF Harmless

\* The HostSubnet handler writes the uid, and the subnet that was there.
LEMMA StampHarmless ==
  ASSUME NEW own, Static(own), stampUID
  PROVE  Harmless
<1> DEFINE w == worker["subnet"]
           hs == hostSubnets[w.name]
           new == [hs EXCEPT !.uid = w.uid]
           valid == Exists(hs) /\ hs.version = w.version
<1>0. "subnet" \in Goroutines /\ w.step # "idle" /\ w.step # "create"
  BY DEF stampUID, Goroutines
<1>1. /\ HostInv(own) /\ WorkInv(own) /\ w.name \in Names /\ hs \in Objs(own)
      /\ w \in Workers(own) /\ phase # "synced"
  BY <1>0, Busy, Zenon
<1>2. UNCHANGED <<subnetCache, loose, phase, allocators>>
  BY DEF stampUID, startup, memory
<1>3. PICK o : Call(o, valid, w.name, new) /\ Becomes("subnet", AfterReconcile(w))
  BY Zenon DEF stampUID
<1>4. valid => new \in Objs(own) /\ new.subnet = hs.subnet
  <2>1. w.uid \in UIDs \cup {NoUID}
    BY <1>1 DEF Workers, Worker
  <2> QED
    BY <1>1, <2>1, UpdateIsObj, Zenon
<1>5. NoNewCreator
  BY <1>0, <1>1, <1>3, AfterReconcileKeeps, MovesOn, Zenon
<1> HIDE DEF new, valid
<1>6. \A x \in Nat : \A n \in Names : Within(hist(n)', hist(n), x)
  <2> SUFFICES ASSUME NEW x \in Nat
               PROVE  \A n \in Names : Within(hist(n)', hist(n), x)
    OBVIOUS
  <2>1. x # Gap
    BY NatIsSubnet, Zenon
  <2>2. valid /\ new.subnet = x => hostSubnets[w.name].subnet = x
    BY <1>4, Zenon
  <2>3. valid => new \in Objs(own)
    BY <1>4, Zenon
  <2> HIDE DEF w
  <2> QED
    BY <1>1, <1>2, <1>3, <2>1, <2>2, <2>3, CallHistories, Zenon
<1> QED
  BY <1>1, <1>2, <1>5, <1>6, Zenon DEF Harmless

\* The HostSubnet handler deletes a HostSubnet.
LEMMA DeleteStaleHarmless ==
  ASSUME NEW own, Static(own), deleteStale \/ handleAssignHostSubnetAnnotation
  PROVE  Harmless
<1> DEFINE w == worker["subnet"]
<1>0. "subnet" \in Goroutines /\ w.step # "idle" /\ w.step # "create"
  BY DEF deleteStale, handleAssignHostSubnetAnnotation, Goroutines
<1>1. /\ HostInv(own) /\ WorkInv(own) /\ w.name \in Names /\ w \in Workers(own)
      /\ phase # "synced"
  BY <1>0, Busy, Zenon
<1>2. UNCHANGED <<subnetCache, loose, phase, allocators>>
  BY DEF deleteStale, handleAssignHostSubnetAnnotation, startup, memory
<1>3. /\ \E o : Delete(o, w.name)
      /\ \/ Becomes("subnet", AfterReconcile(w)) \/ Becomes("subnet", Idle)
         \/ StartAddNode("subnet", w.name, NoUID, w.ip)
  BY Zenon DEF deleteStale, handleAssignHostSubnetAnnotation
<1>4. NoNewCreator
  BY <1>0, <1>1, <1>3, AfterReconcileKeeps, MovesOn, ReturnsCreate, StartCreates, Zenon
<1> QED
  BY <1>1, <1>2, <1>3, <1>4, DeleteHistories, ZenonT(40) DEF Harmless

\* The Node handler starts.
LEMMA NodeHandlerHarmless ==
  ASSUME NEW own, Static(own), handleAddOrUpdateNode \/ handleDeleteNode
  PROVE  Harmless
<1> DEFINE call == Head(nodePending)
           w == [Idle EXCEPT !.step = "deleteNode", !.name = call.name]
<1>1. WorkInv(own) /\ "node" \in Goroutines
  BY DEF Static, Goroutines
<1>2. /\ UNCHANGED <<hostSubnets, subnetEvents, subnetCache, loose, phase, allocators>>
      /\ phase # "synced"
  BY DEF handleAddOrUpdateNode, handleDeleteNode, api, subnetInformer, startup, memory,
         NextNodeCall, watchingNodes
<1>3. \/ UNCHANGED worker \/ StartAddNode("node", call.name, call.node.uid, call.node.ip)
      \/ Becomes("node", w)
  BY Zenon DEF handleAddOrUpdateNode, handleDeleteNode
<1>4. w.step # "create"
  BY DEF Idle
<1> HIDE DEF w, call
<1>5. NoNewCreator
  <2>1. CASE UNCHANGED worker
    BY <2>1, Zenon DEF NoNewCreator
  <2> QED
    BY <1>1, <1>3, <1>4, <2>1, StartCreates, MovesOn, Zenon
<1> QED
  BY <1>2, <1>5, SameHistories, Zenon DEF Harmless

\* Steps of the Node informer, of users, and none at all.
LEMMA ElsewhereHarmless ==
  ASSUME UNCHANGED <<hostSubnets, subnetEvents, subnetCache, loose, allocators, worker>>,
         phase' # "synced" => phase # "synced"
  PROVE  Harmless
<1>1. NoNewCreator
  BY Zenon DEF NoNewCreator
<1> QED
  BY <1>1, SameHistories, Zenon DEF Harmless

\* The HostSubnet handler starts on an object that was added or updated.
LEMMA SubnetHandlerHarmless ==
  ASSUME NEW own, Static(own), handleAddOrUpdateSubnet
  PROVE  Harmless
<1>1. HostInv(own) /\ WorkInv(own) /\ "subnet" \in Goroutines
  BY DEF Static, Goroutines
<1>2. /\ UNCHANGED <<hostSubnets, loose, phase, allocators>> /\ phase # "synced"
      /\ subnetEvents # <<>> /\ subnetEvents' = Tail(subnetEvents)
      /\ subnetCache' = [subnetCache EXCEPT ![Head(subnetEvents).name] = Head(subnetEvents).obj]
  BY DEF handleAddOrUpdateSubnet, NextSubnetCall, api, startup, memory
<1>3. NoNewCreator
  <2>1. CASE UNCHANGED worker
    BY <2>1, Zenon DEF NoNewCreator
  <2> QED
    BY <1>1, <2>1, SubnetHandlerKeeps, MovesOn, Zenon
<1> QED
  BY <1>1, <1>2, <1>3, DeliveredHistories, Zenon DEF Harmless

\* The HostSubnet informer takes an event before there is a handler.
LEMMA SyncSubnetsHarmless ==
  ASSUME NEW own, Static(own), syncSubnetCache
  PROVE  Harmless
<1>1. HostInv(own)
  BY DEF Static
<1>2. /\ UNCHANGED <<hostSubnets, loose, phase, allocators, worker>>
      /\ subnetEvents # <<>> /\ subnetEvents' = Tail(subnetEvents)
      /\ subnetCache' = [subnetCache EXCEPT ![Head(subnetEvents).name] = Head(subnetEvents).obj]
  BY DEF syncSubnetCache, api, startup, memory
<1>3. NoNewCreator
  BY <1>2, Zenon DEF NoNewCreator
<1> QED
  BY <1>1, <1>2, <1>3, DeliveredHistories, Zenon DEF Harmless

\* The HostSubnets of the cache are delivered again.
LEMMA ReplayHarmless ==
  ASSUME Facts, NEW own, Static(own), watchSubnets \/ resyncSubnets
  PROVE  Harmless
<1>1. HostInv(own)
  BY DEF Static
<1>2. UNCHANGED <<loose, allocators, worker>> /\ phase # "synced"
  BY DEF watchSubnets, resyncSubnets, startup, memory
<1>3. /\ UNCHANGED <<hostSubnets, subnetCache>>
      /\ \E replay \in AllSubnets : subnetEvents' = replay \o subnetEvents
  BY WatchSubnetsKeeps, Zenon
<1>4. NoNewCreator
  BY <1>2, Zenon DEF NoNewCreator
<1>5. \A x \in Nat : \A n \in Names : Within(hist(n)', hist(n), x)
  BY <1>1, <1>3, ReplayedHistories, NatIsSubnet, Zenon
<1> QED
  BY <1>2, <1>4, <1>5, Zenon DEF Harmless

\* An administrator claims a name without a subnet, or deletes a HostSubnet.
LEMMA AdministratorsHarmless ==
  ASSUME NEW own, Static(own), NEW n \in ClaimedNames,
         \/ \E ip \in NodeIPs, assign \in BOOLEAN : CreateHostSubnet(n, ip, assign)
         \/ DeleteHostSubnet(n)
  PROVE  Harmless
<1>1. HostInv(own)
  BY DEF Static
<1>2. /\ UNCHANGED <<subnetCache, phase, loose, allocators, worker>> /\ n \in Names
      /\ \E hs \in Objs(own) : hs.subnet = NoSubnet /\ Write(n, hs)
  BY AdministratorsKeep, Zenon
<1>3. NoNewCreator
  BY <1>2, Zenon DEF NoNewCreator
<1>4. \A x \in Nat : \A m \in Names : Within(hist(m)', hist(m), x)
  BY <1>1, <1>2, WrittenHistories, NatIsSubnet, Zenon
<1> QED
  BY <1>2, <1>3, <1>4, Zenon DEF Harmless

\* A new master starts, and the histories with it.
LEMMA RestartHarmless ==
  ASSUME NEW own, Static(own), Restart
  PROVE  Harmless
<1>1. HostInv(own)
  BY DEF Static
<1>2. /\ UNCHANGED <<hostSubnets, loose>> /\ phase' = "synced"
      /\ subnetCache' = hostSubnets /\ subnetEvents' = <<>>
      /\ worker' = [g \in Goroutines |-> Idle]
  BY DEF Restart, api
<1>3. NoNewCreator
  BY <1>2 DEF NoNewCreator, Idle
<1> QED
  BY <1>1, <1>2, <1>3, RestartedHistories, Zenon DEF Harmless

-----------------------------------------------------------------------------
(***************************************************************************)
(* Steps that take a subnet, put it to use, or release it.                 *)
(***************************************************************************)
\* A subnet that nobody has and nobody creates is in order.
LEMMA Unused ==
  ASSUME NEW x, \A n \in Names : ~Held(n, x), \A g \in Goroutines : ~Creating(g, x)
  PROVE  Own(x)
<1>1. \A n \in Names : Convex(hist(n), x)
  BY DEF Held, Has, Convex
<1> QED
  BY <1>1, Zenon DEF Own

\* addNodeAllocate takes a subnet that is free, and so is in no history, and
\* that nobody else is about to create.
LEMMA AllocateOwned ==
  ASSUME Facts, NEW own, Static(own), Ownership, NEW g \in Goroutines, addNodeAllocate(g)
  PROVE  Ownership'
<1> DEFINE r == allocateNetwork(allocators)
           y == r.subnet
           w == [worker[g] EXCEPT !.step = "create", !.subnet = y]
<1>1. WorkInv(own) /\ AllocInv(own) /\ phase # "synced" /\ worker[g] \in Worker
  BY Busy DEF addNodeAllocate, Workers
<1>2. /\ UNCHANGED <<hostSubnets, subnetEvents, subnetCache, loose, phase>>
      /\ allocators' = r.list
  BY DEF addNodeAllocate, api, subnetInformer, startup
<1>3. \/ y = NoSubnet /\ Becomes(g, Idle)
      \/ y # NoSubnet /\ Becomes(g, w)
  BY Zenon DEF addNodeAllocate
<1>4. \/ y = NoSubnet /\ Taken(r.list) = Taken(allocators)
      \/ y \in own \ Taken(allocators) /\ Taken(r.list) = Taken(allocators) \cup {y}
  BY <1>1, Allocated DEF AllocInv, Facts
<1>5. Taken(allocators) \subseteq Taken(allocators)'
  BY <1>2, <1>4, Zenon
<1>6. w.step = "create" /\ w.subnet = y
  BY <1>1 DEF Worker
<1>7. \A n \in Names : hist(n)' = hist(n)
  BY <1>2, Zenon DEF hist
<1> HIDE DEF r, y, w
<1>8. \A k \in Goroutines \ {g} : worker'[k] = worker[k]
  BY <1>1, <1>3 DEF WorkInv, Becomes
<1>9. y # NoSubnet => worker'[g] = w
  BY <1>1, <1>3 DEF WorkInv, Becomes
<1> SUFFICES ASSUME NEW x \in Nat
             PROVE  Own(x)'
  BY DEF Ownership
<1>10. Own(x) /\ x # NoSubnet
  BY NatIsSubnet, Zenon DEF Ownership
<1>11. CASE \A k \in Goroutines : Creating(k, x)' => Creating(k, x)
  <2>1. Shrinks(x)
    BY <1>2, <1>11, SameHistories, Zenon DEF Shrinks
  <2> QED
    BY <1>1, <1>2, <1>5, <1>10, <2>1, ShrinksKeeps, Zenon
<1>12. CASE \E k \in Goroutines : Creating(k, x)' /\ ~Creating(k, x)
  <2>1. Creating(g, x)' /\ ~Creating(g, x)
    BY <1>8, <1>12, Zenon DEF Creating
  <2>2. y = x /\ worker'[g] = w
    <3>1. CASE y = NoSubnet
      <4>1. worker'[g] = Idle
        BY <1>1, <1>3, <3>1 DEF WorkInv, Becomes
      <4> QED
        BY <2>1, <4>1 DEF Creating, Idle
    <3> QED
      BY <1>6, <1>9, <2>1, <3>1, Zenon DEF Creating
  <2>3. x \notin Taken(allocators) /\ x \in Taken(allocators)'
    BY <1>2, <1>4, <1>10, <2>2, Zenon
  <2>4. x \notin loose' => /\ \A n \in Names : ~Held(n, x) /\ Convex(hist(n), x)
                           /\ \A k \in Goroutines : ~Creating(k, x)
    BY <1>1, <1>2, <1>10, <2>3, Zenon DEF Own
  <2>5. x \notin loose' => \A n \in Names : ~Held(n, x)' /\ Convex(hist(n), x)'
    BY <1>7, <2>4, Zenon DEF Held
  <2>6. x \notin loose' => \A k \in Goroutines : Creating(k, x)' => k = g
    BY <1>8, <2>4, Zenon DEF Creating
  <2> QED
    BY <2>3, <2>5, <2>6, Zenon DEF Own
<1> QED
  BY <1>11, <1>12, Zenon

\* initSubnetAllocators takes what the stored HostSubnets have; whatever else is
\* in a history, it leaves free, and that is loose.
LEMMA InitOwned ==
  ASSUME NEW own, Static(own), Ownership, initSubnetAllocators
  PROVE  Ownership'
<1>1. HostInv(own) /\ \A g \in Goroutines : worker[g].step = "idle"
  BY DEF Static, Started, initSubnetAllocators
<1>2. /\ UNCHANGED <<hostSubnets, subnetEvents, subnetCache, worker>>
      /\ loose' = loose \cup (Leaving \ (Stored \cup {NoSubnet}))
  BY DEF initSubnetAllocators, api, subnetInformer
<1>3. Taken(allocators') = Stored
  BY ListedTakes, Zenon
<1>4. \A n \in Names : hist(n)' = hist(n)
  BY <1>2, Zenon DEF hist
<1>5. \A g \in Goroutines : \A x : ~Creating(g, x)'
  BY <1>1, <1>2 DEF Creating
<1> SUFFICES ASSUME NEW x \in Nat, x \notin loose'
             PROVE  Own(x)'
  BY Zenon DEF Ownership, Own
<1>6. Own(x) /\ x # NoSubnet /\ x # Gap /\ x \notin loose
  BY <1>2, NatIsSubnet, Zenon DEF Ownership
<1>7. ASSUME NEW n \in Names, Held(n, x)
      PROVE  x \in Stored
  <2> DEFINE f == hist(n)
  <2>1. Entries(f, subnetCache, subnetEvents, hostSubnets, n)
    BY <1>1, HistoryEntries, Zenon DEF HostInv, hist
  <2>2. PICK i \in DOMAIN f : f[i] = x
    BY <1>7, Zenon DEF Held, Has
  <2> HIDE DEF f
  <2>3. i = 0 \/ i = Len(subnetEvents) + 1 \/ i \in 1 .. Len(subnetEvents)
    BY <2>1, <2>2 DEF Entries
  <2>4. CASE i = 0
    <3>1. x = subnetCache[n].subnet
      BY <2>1, <2>2, <2>4, Zenon DEF Entries
    <3> QED
      BY <1>2, <1>6, <3>1, Zenon DEF Leaving
  <2>5. CASE i = Len(subnetEvents) + 1
    <3>1. x = hostSubnets[n].subnet
      BY <2>1, <2>2, <2>5, Zenon DEF Entries
    <3> QED
      BY <1>6, <3>1, Zenon DEF Stored, Assigned
  <2>6. CASE i \in 1 .. Len(subnetEvents)
    <3>1. x = subnetEvents[i].obj.subnet
      BY <1>6, <2>1, <2>2, <2>6, Zenon DEF Entries
    <3>2. i \in DOMAIN subnetEvents
      BY <1>1, <2>6 DEF HostInv
    <3> QED
      BY <1>2, <1>6, <3>1, <3>2, Zenon DEF Leaving
  <2> QED
    BY <2>3, <2>4, <2>5, <2>6, Zenon
<1>8. \A n \in Names : Held(n, x)' => Held(n, x) /\ x \in Taken(allocators)'
  BY <1>3, <1>4, <1>7, Zenon DEF Held
<1>9. \A n \in Names : Convex(hist(n), x)'
  BY <1>4, <1>6, Zenon DEF Own
<1>10. \A m, n \in Names : Held(m, x) /\ Held(n, x) => m = n
  BY <1>6, Zenon DEF Own
<1> QED
  BY <1>5, <1>8, <1>9, <1>10, Zenon DEF Own

\* handleDeleteSubnet releases the subnet the name had; it is in no history then,
\* because the deletion that is delivered is the end of it in the only one.
LEMMA SubnetDeletedOwned ==
  ASSUME NEW own, Static(own), Ownership, handleDeleteSubnet
  PROVE  Ownership'
<1> DEFINE e == Head(subnetEvents)
           n0 == e.name
           y == subnetCache[n0].subnet
<1>1. HostInv(own) /\ ListOK(allocators)
  BY Zenon DEF Static, AllocInv
<1>2. /\ UNCHANGED <<hostSubnets, phase, loose, worker>> /\ phase # "synced"
      /\ subnetEvents # <<>> /\ subnetEvents' = Tail(subnetEvents)
      /\ subnetCache' = [subnetCache EXCEPT ![n0] = e.obj]
      /\ ~Exists(e.obj) /\ allocators' = releaseDeleted(allocators, subnetCache[n0])
  BY DEF handleDeleteSubnet, NextSubnetCall, api, startup
<1>3. Taken(allocators)' = Taken(allocators) \/ Taken(allocators)' = Taken(allocators) \ {y}
  <2>1. allocators' = allocators \/ allocators' = releaseNetwork(allocators, y)
    BY <1>2, Zenon DEF releaseDeleted
  <2> QED
    BY <1>1, <2>1, Released, Zenon
<1>4. n0 \in Names /\ e.obj \in Objs(own)
  BY <1>1, <1>2, Delivered, Zenon
<1>5. e.obj.subnet = NoSubnet
  BY <1>2, <1>4, Zenon DEF Objs
<1>6. \A x : \A n \in Names : Within(hist(n)', hist(n), x)
  BY <1>1, <1>2, DeliveredHistories, Zenon
<1>7. \A g \in Goroutines : \A x : Creating(g, x)' <=> Creating(g, x)
  BY <1>2, Zenon DEF Creating
<1> SUFFICES ASSUME NEW x \in Nat, x \notin loose
             PROVE  Own(x)'
  BY <1>2, Zenon DEF Ownership, Own
<1>8. Own(x) /\ Shrinks(x)
  BY <1>6, <1>7, Zenon DEF Ownership, Shrinks
<1>9. CASE x # y
  BY <1>2, <1>3, <1>8, <1>9, ShrinksKeeps, Zenon
<1>10. CASE x = y
  <2>1. x # NoSubnet /\ x # Gap /\ NoSubnet # Gap
    BY NatIsSubnet DEF NoSubnet, Gap
  <2>2. Held(n0, x)
    <3> DEFINE f == hist(n0)
    <3>1. Entries(f, subnetCache, subnetEvents, hostSubnets, n0)
      BY <1>1, HistoryEntries, Zenon DEF HostInv, hist
    <3> HIDE DEF f
    <3>2. 0 \in DOMAIN f /\ f[0] = x
      BY <1>1, <1>10, <3>1 DEF Entries, HostInv
    <3> QED
      BY <3>2, Zenon DEF Held, Has, f
  <2>3. PICK m \in Names : m = n0
    BY <1>4, Zenon
  <2>4. /\ \A n \in Names : Held(n, x) => n = m
        /\ \A g \in Goroutines : ~Creating(g, x)
        /\ Convex(hist(m), x)
    BY <1>8, <2>2, <2>3, Zenon DEF Own
  <2>5. ~Held(m, x)'
    <3>1. subnetCache \in [Names -> Objs(own)] /\ subnetEvents \in Seq(Events(own))
      BY <1>1, Zenon DEF HostInv
    <3>2. Convex(History(subnetCache, subnetEvents, hostSubnets, n0), x)
      BY <2>3, <2>4, Zenon DEF hist
    <3>3. e.obj.subnet \notin {x, Gap}
      BY <1>5, <2>1, Zenon
    <3>4. ~Has(History([subnetCache EXCEPT ![n0] = e.obj], Tail(subnetEvents), hostSubnets, n0), x)
      BY <1>2, <1>4, <1>10, <3>1, <3>2, <3>3, DeletedHistory, Zenon
    <3> QED
      BY <1>2, <2>3, <3>4, Zenon DEF Held, hist
  <2>6. \A n \in Names : ~Held(n, x)'
    BY <1>6, <2>4, <2>5, Zenon DEF Within, Held
  <2> QED
    BY <1>2, <1>7, <1>8, <2>4, <2>6, ShrinksKeeps, Zenon
<1> QED
  BY <1>9, <1>10, Zenon

\* addNodeCreate puts the subnet it took to use, or releases it; if the answer is
\* lost it does both, and the subnet is loose.
LEMMA CreateOwned ==
  ASSUME NEW own, Static(own), Ownership, NEW g \in Goroutines, addNodeCreate(g)
  PROVE  Ownership'
<1> DEFINE w == worker[g]
           valid == ~Exists(hostSubnets[w.name])
           hs == [Absent EXCEPT !.uid = w.uid, !.ip = w.ip, !.subnet = w.subnet]
<1>0. w.step = "create"
  BY Zenon DEF addNodeCreate
<1>1. /\ HostInv(own) /\ AllocInv(own) /\ WorkInv(own) /\ w \in Workers(own)
      /\ w.name \in Names /\ w.ip \in NodeIPs /\ phase # "synced"
  BY <1>0, Busy DEF AddSteps
<1>2. UNCHANGED <<subnetCache, phase>>
  BY DEF addNodeCreate
<1>3. PICK o \in {"ok"} \cup Faults :
        /\ Call(o, valid, w.name, hs) /\ Becomes(g, Idle)
        /\ allocators' = IF Succeeds(o, valid) THEN allocators
                         ELSE createFailed(allocators, w.subnet)
        /\ loose' = IF valid /\ o = "lost" THEN loose \cup {w.subnet} ELSE loose
  BY Zenon DEF addNodeCreate, Returns
<1>4. /\ w.subnet \in own /\ own \subseteq Nat /\ w.uid \in UIDs \cup {NoUID}
      /\ o \in {"ok", "error", "lost"}
  <2>1. w.subnet \in own /\ own \subseteq Nat /\ w.uid \in UIDs \cup {NoUID}
    BY <1>0, <1>1, OwnedNat DEF Workers, Worker
  <2>2. o \in {"ok", "error", "lost"}
    BY BoundsAssumption, Zenon
  <2> QED
    BY <2>1, <2>2, Zenon
<1>5. hs \in Objs(own) /\ hs.subnet = w.subnet
  <2>1. hs \in Objs(own)
    BY <1>1, <1>4, CreatedIsObj, Zenon
  <2>2. hs.subnet = w.subnet
    BY DEF Absent
  <2> QED
    BY <2>1, <2>2, Zenon
<1>6. \/ Succeeds(o, valid) /\ allocators' = allocators
      \/ ~Succeeds(o, valid) /\ Taken(allocators)' = Taken(allocators) \ {w.subnet}
  BY <1>1, <1>3, Released, Zenon DEF AllocInv, createFailed
<1>7. NoNewCreator /\ loose \subseteq loose'
  BY <1>1, <1>3, ReturnsCreate, Zenon
<1>8. worker'[g].step # "create"
  BY <1>1, <1>3 DEF WorkInv, Becomes, Idle
<1> HIDE DEF hs
<1> SUFFICES ASSUME NEW x \in Nat, x \notin loose'
             PROVE  Own(x)'
  BY Zenon DEF Ownership, Own
<1>9. /\ Own(x) /\ x # Gap /\ x \notin loose
      /\ \A k \in Goroutines : Creating(k, x)' => Creating(k, x)
  BY <1>7, NatIsSubnet, CreatorsShrink, Zenon DEF Ownership
<1>10. CASE x # w.subnet
  <2>1. \A n \in Names : Within(hist(n)', hist(n), x)
    <3> HIDE DEF w, valid
    <3> QED
      BY <1>1, <1>2, <1>3, <1>5, <1>9, <1>10, CallHistories, Zenon
  <2>2. x \in Taken(allocators) => x \in Taken(allocators)'
    BY <1>6, <1>10, Zenon
  <2>3. Shrinks(x)
    BY <1>9, <2>1, Zenon DEF Shrinks
  <2> QED
    BY <1>1, <1>2, <1>7, <1>9, <2>2, <2>3, ShrinksKeeps, Zenon
<1>11. CASE x = w.subnet
  <2>1. Creating(g, x)
    BY <1>0, <1>11, Zenon DEF Creating
  <2>2. /\ \A n \in Names : ~Held(n, x)
        /\ \A k \in Goroutines : Creating(k, x) => k = g
        /\ x \in Taken(allocators)
    BY <1>1, <1>9, <2>1, Zenon DEF Own
  <2>3. \A k \in Goroutines : ~Creating(k, x)'
    BY <1>8, <1>9, <2>2, Zenon DEF Creating
  <2>4. CASE ~(valid /\ o # "error")
    <3>1. UNCHANGED <<hostSubnets, subnetEvents, subnetCache>>
      BY <1>2, <1>3, <2>4, Zenon DEF Call
    <3>2. \A n \in Names : ~Held(n, x)'
      BY <2>2, <3>1, SameHistories, ZenonT(40) DEF Within, Held
    <3>3. Shrinks(x)
      BY <1>9, <3>1, SameHistories, Zenon DEF Shrinks
    <3> QED
      BY <1>7, <1>9, <2>3, <3>2, <3>3, ShrinksKeeps, ZenonT(40)
  <2>5. CASE valid /\ o # "error"
    <3>1. o # "lost"
      BY <1>3, <1>11, <2>5, ZenonT(40)
    <3>2. x \in Taken(allocators)'
      BY <1>4, <1>6, <2>2, <2>5, <3>1, Zenon DEF Succeeds
    <3>3. PICK m \in Names : m = w.name
      BY <1>1, Zenon
    <3>4. Write(m, hs)
      BY <1>3, <2>5, <3>3, Zenon DEF Call
    <3>5. PICK obj \in Objs(own) : obj.subnet = hs.subnet /\ Stores(m, obj)
      BY <1>1, <1>5, <3>4, WriteShape, Zenon
    <3>6. [name |-> m, obj |-> obj] \in Events(own)
      BY DEF Events
    <3>7. subnetEvents \in Seq(Events(own)) /\ hostSubnets \in [Names -> Objs(own)]
      BY <1>1, Zenon DEF HostInv
    <3> DEFINE new(n) == History(subnetCache, Append(subnetEvents, [name |-> m, obj |-> obj]),
                                 [hostSubnets EXCEPT ![m] = obj], n)
    <3>8. \A n \in Names : hist(n)' = new(n)
      BY <1>2, <3>5, Zenon DEF hist, Stores
    <3>9. \A n \in Names : ~Has(History(subnetCache, subnetEvents, hostSubnets, n), x)
      BY <2>2, Zenon DEF Held, hist
    <3>10. Convex(new(m), x)
      BY <3>6, <3>7, <3>9, CreatedHistory, ZenonT(40)
    <3>11. \A n \in Names : n # m => ~Has(new(n), x) /\ Convex(new(n), x)
      <4> SUFFICES ASSUME NEW n \in Names, n # m
                   PROVE  ~Has(new(n), x) /\ Convex(new(n), x)
        BY Zenon
      <4>1. Within(new(n), History(subnetCache, subnetEvents, hostSubnets, n), x)
        BY <1>9, <3>6, <3>7, WrittenHistory, Zenon
      <4>2. ~Has(new(n), x)
        BY <3>9, <4>1, Zenon DEF Within
      <4> HIDE DEF new
      <4> QED
        BY <4>2 DEF Has, Convex
    <3> HIDE DEF new
    <3>12. \A n \in Names : (Held(n, x)' => n = m) /\ Convex(hist(n), x)'
      BY <3>8, <3>10, <3>11, Zenon DEF Held
    <3> QED
      BY <2>3, <3>2, <3>12, Zenon DEF Own
  <2> QED
    BY <2>4, <2>5, Zenon
<1> QED
  BY <1>10, <1>11, Zenon

-----------------------------------------------------------------------------
\* At the start there is no HostSubnet, nor has been, and nobody makes one.
LEMMA InitOwnership ==
  ASSUME Init
  PROVE  Ownership
<1> SUFFICES ASSUME NEW x \in Nat
             PROVE  Own(x)
  BY DEF Ownership
<1>1. /\ subnetEvents = <<>> /\ hostSubnets = [n \in Names |-> Absent]
      /\ subnetCache = hostSubnets /\ worker = [g \in Goroutines |-> Idle]
  BY DEF Init
<1>2. \A g \in Goroutines : ~Creating(g, x)
  BY <1>1 DEF Creating, Idle
<1>3. x # NoSubnet
  BY NatIsSubnet, Zenon
<1>4. ASSUME NEW n \in Names
      PROVE  ~Held(n, x)
  <2> DEFINE f == hist(n)
  <2>1. subnetEvents \in Seq(Names) /\ Len(subnetEvents) = 0
    BY <1>1
  <2>2. Entries(f, subnetCache, subnetEvents, hostSubnets, n)
    BY <2>1, HistoryEntries, Zenon DEF hist
  <2> HIDE DEF f
  <2>3. subnetCache[n].subnet = NoSubnet /\ hostSubnets[n].subnet = NoSubnet
    BY <1>1, Zenon DEF Absent
  <2>4. DOMAIN f = 0 .. 1 /\ f[0] = NoSubnet /\ f[1] = NoSubnet
    BY <2>1, <2>2, <2>3 DEF Entries
  <2>5. ~Has(f, x)
    BY <1>3, <2>4 DEF Has
  <2> QED
    BY <2>5, Zenon DEF Held, f
<1> QED
  BY <1>2, <1>4, Unused, Zenon

\* No step brings a subnet to a second name.
LEMMA NextOwned ==
  ASSUME Facts, NEW own, Static(own), Ownership, [Next]_vars
  PROVE  Ownership'
<1>1. CASE startSubnetMaster
  <2>1. CASE watchNodes
    <3>1. /\ UNCHANGED <<hostSubnets, subnetEvents, subnetCache, loose, allocators, worker>>
          /\ phase # "synced"
      BY <2>1 DEF watchNodes, api, subnetInformer, memory
    <3> QED
      BY <3>1, ElsewhereHarmless, HarmlessKeeps, Zenon
  <2> QED
    BY <1>1, <2>1, InitOwned, ReplayHarmless, HarmlessKeeps, Zenon DEF startSubnetMaster
<1>2. CASE \E g \in Goroutines : addNode(g)
  BY <1>2, GetHarmless, DeleteInvalidHarmless, UpdateHarmless, HarmlessKeeps, AllocateOwned,
     CreateOwned, Zenon DEF addNode
<1>3. CASE handleAddOrUpdateNode \/ handleDeleteNode \/ deleteNode
  BY <1>3, NodeHandlerHarmless, DeleteNodeHarmless, HarmlessKeeps, Zenon
<1>4. CASE \/ handleAddOrUpdateSubnet \/ handleDeleteSubnet \/ stampUID \/ deleteStale
           \/ handleAssignHostSubnetAnnotation
  BY <1>4, SubnetHandlerHarmless, SubnetDeletedOwned, StampHarmless, DeleteStaleHarmless,
     HarmlessKeeps, Zenon
<1>5. CASE syncSubnetCache \/ resyncSubnets
  BY <1>5, SyncSubnetsHarmless, ReplayHarmless, HarmlessKeeps, Zenon
<1>6. CASE \/ syncNodeCache \/ resyncNodes \/ relistNodes \/ UNCHANGED vars
           \/ \E n \in NodeNames :
                \/ \E ip \in NodeIPs \cup {NoIP} : CreateNode(n, ip) \/ ChangeNodeIP(n, ip)
                \/ DeleteNode(n)
  <2>1. UNCHANGED <<hostSubnets, subnetEvents, subnetCache, loose, allocators, worker, phase>>
    <3>1. CASE syncNodeCache \/ resyncNodes \/ relistNodes \/ UNCHANGED vars
      BY <3>1, Zenon DEF syncNodeCache, resyncNodes, relistNodes, vars, api, subnetInformer, startup, memory
    <3>2. CASE \E n \in NodeNames :
                 \/ \E ip \in NodeIPs \cup {NoIP} : CreateNode(n, ip) \/ ChangeNodeIP(n, ip)
                 \/ DeleteNode(n)
      <4>1. \E n, node : WriteNode(n, node)
        BY <3>2, Zenon DEF CreateNode, ChangeNodeIP, DeleteNode
      <4> QED
        BY <4>1 DEF WriteNode, subnetInformer, startup, memory
    <3> QED
      BY <1>6, <3>1, <3>2, ZenonT(40)
  <2> QED
    BY <2>1, ElsewhereHarmless, HarmlessKeeps, Zenon
<1>7. CASE \E n \in ClaimedNames :
             \/ \E ip \in NodeIPs, assign \in BOOLEAN : CreateHostSubnet(n, ip, assign)
             \/ DeleteHostSubnet(n)
  BY <1>7, AdministratorsHarmless, HarmlessKeeps, Zenon
<1>8. CASE Restart
  BY <1>8, RestartHarmless, HarmlessKeeps, Zenon
<1>9. "node" \in Goroutines /\ "subnet" \in Goroutines
  BY DEF Goroutines
<1> QED
  BY <1>1, <1>2, <1>3, <1>4, <1>5, <1>6, <1>7, <1>8, <1>9, ZenonT(40)
  DEF Next, NodeGoroutine, SubnetGoroutine, Users

-----------------------------------------------------------------------------
(***************************************************************************)
(* The theorems.                                                           *)
(***************************************************************************)
IInv == (\E own : Static(own)) /\ Ownership

\* The subnet of a stored HostSubnet is in the history of its name.
LEMMA StoredIsHeld ==
  ASSUME NEW own, Static(own), NEW n \in Assigned
  PROVE  /\ n \in Names /\ hostSubnets[n].subnet \in Nat
         /\ Held(n, hostSubnets[n].subnet)
<1>1. HostInv(own) /\ AllocInv(own) /\ n \in Names /\ hostSubnets[n].subnet # NoSubnet
  BY Zenon DEF Static, Assigned
<1>2. hostSubnets[n].subnet \in own \cup {NoSubnet} /\ own \subseteq Nat
  BY <1>1, OwnedNat DEF HostInv, Objs
<1> DEFINE f == hist(n)
<1>3. Entries(f, subnetCache, subnetEvents, hostSubnets, n)
  BY <1>1, HistoryEntries, Zenon DEF HostInv, hist
<1> HIDE DEF f
<1>4. Len(subnetEvents) + 1 \in DOMAIN f /\ f[Len(subnetEvents) + 1] = hostSubnets[n].subnet
  BY <1>1, <1>3 DEF Entries, HostInv
<1>5. Has(f, hostSubnets[n].subnet)
  BY <1>4, Zenon DEF Has
<1> QED
  BY <1>1, <1>2, <1>5, Zenon DEF Held, f

\* The invariant is at least the properties.
LEMMA InvImplies ==
  ASSUME IInv
  PROVE  TypeOK /\ DisjointSubnets /\ StoredIsTaken
<1>1. PICK own : Static(own)
  BY Zenon DEF IInv
<1>2. \A x \in Nat : Own(x)
  BY Zenon DEF IInv, Ownership
<1>3. TypeOK
  <2>1. NodesInv /\ HostInv(own) /\ WorkInv(own) /\ MemoryInv /\ ListOK(allocators)
    BY <1>1, Zenon DEF Static, AllocInv
  <2>2. \A k \in DOMAIN allocators : allocators[k].allocMap \subseteq Subnets(allocators[k])
    BY <2>1 DEF ListOK, Sound
  <2>3. Objs(own) \subseteq HostSubnet /\ Workers(own) \subseteq Worker
    BY DEF Objs, Workers
  <2>4. hostSubnets \in [Names -> HostSubnet] /\ subnetCache \in [Names -> HostSubnet]
    BY <2>1, <2>3 DEF HostInv
  <2>5. worker \in [Goroutines -> Worker]
    BY <2>1, <2>3 DEF WorkInv
  <2>6. subnetEvents \in Seq(SubnetEvent)
    <3>1. Events(own) \subseteq SubnetEvent
      BY <2>3 DEF Events, SubnetEvent
    <3> HIDE DEF Events, SubnetEvent
    <3> QED
      BY <2>1, <3>1 DEF HostInv
  <2> QED
    BY <2>1, <2>2, <2>4, <2>5, <2>6, Zenon DEF NodesInv, MemoryInv, TypeOK
<1>4. DisjointSubnets
  BY <1>1, <1>2, StoredIsHeld, Zenon DEF DisjointSubnets, Own
<1>5. StoredIsTaken
  <2> SUFFICES ASSUME phase # "synced", NEW n \in Assigned
               PROVE  hostSubnets[n].subnet \in Taken(allocators) \cup loose
    BY Zenon DEF StoredIsTaken, Stored
  <2> QED
    BY <1>1, <1>2, StoredIsHeld, Zenon DEF Own
<1> QED
  BY <1>3, <1>4, <1>5
=============================================================================
