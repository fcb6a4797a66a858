----------------------- MODULE MasterVNIDCalm_proofs ------------------------
(***************************************************************************)
(* What is proved of a calm master, for every set of namespaces, range of  *)
(* VNIDs and set of requests without self-joins: the map and the stored    *)
(* NetNamespaces differ only while a request is pending, and the stored    *)
(* ones are an assignment of VNIDs.                                        *)
(***************************************************************************)
EXTENDS MasterVNID_proofs

\* Time enough for a leaf on a slow or busy machine.
USE SMTT(60)

USE RangeAssumption, NamespacesAssumption, RequestsAssumption, ModeAssumption,
    BoundsAssumption

-----------------------------------------------------------------------------
(***************************************************************************)
(* A calm master: users and resyncs wait until it has caught up, and no    *)
(* write is done and reported as failed.                                   *)
(*                                                                         *)
(* The copies of NetNamespace n on their way to the handler: copy 0 is the *)
(* one in cache c, copy i the one of event q[i] if that is about n.        *)
(***************************************************************************)
Newest(q, i, n) ==
  /\ i = 0 \/ q[i].ns = n
  /\ \A k \in i + 1 .. Len(q) : q[k].ns # n

Copy(c, q, i, n) == IF i = 0 THEN c[n] ELSE q[i].obj

\* The newest copy of every NetNamespace is the stored one.
Follows(c, q, h) ==
  \A n \in Namespaces : \A i \in 0 .. Len(q) : Newest(q, i, n) => Copy(c, q, i, n) = h[n]

\* An informer that has just listed has the stored objects.
LEMMA FollowsFresh ==
  ASSUME NEW h
  PROVE  Follows(h, <<>>, h)
BY DEF Follows, Newest, Copy

\* With no event left the cache is what is stored.
LEMMA FollowsEmpty ==
  ASSUME NEW c, NEW h, Follows(c, <<>>, h), NEW n \in Namespaces
  PROVE  c[n] = h[n]
<1>1. Len(<<>>) = 0 /\ 0 \in 0 .. Len(<<>>)
  OBVIOUS
<1>2. Newest(<<>>, 0, n) /\ Copy(c, <<>>, 0, n) = c[n]
  BY <1>1 DEF Newest, Copy
<1> QED
  BY <1>1, <1>2, Zenon DEF Follows

\* The only event is about the object as it is stored.
LEMMA FollowsOne ==
  ASSUME NEW S, NEW c, NEW q \in Seq(S), NEW h, Follows(c, q, h), Len(q) = 1,
         q[1].ns \in Namespaces
  PROVE  q[1].obj = h[q[1].ns]
<1>1. 1 \in 0 .. Len(q) /\ Newest(q, 1, q[1].ns) /\ Copy(c, q, 1, q[1].ns) = q[1].obj
  BY DEF Newest, Copy
<1> QED
  BY <1>1, Zenon DEF Follows

\* The oldest event goes to the cache.
LEMMA FollowsTaken ==
  ASSUME NEW S, NEW T, NEW c \in [Namespaces -> T], NEW q \in Seq(S), NEW h, q # <<>>,
         Head(q).ns \in Namespaces, Follows(c, q, h)
  PROVE  Follows([c EXCEPT ![Head(q).ns] = Head(q).obj], Tail(q), h)
<1> DEFINE m == Head(q).ns
           d == [c EXCEPT ![m] = Head(q).obj]
           r == Tail(q)
<1>1. /\ Len(q) \in Nat \ {0} /\ Len(r) = Len(q) - 1
      /\ \A i \in 1 .. Len(r) : r[i] = q[i + 1]
      /\ Head(q) = q[1]
  OBVIOUS
<1>2. \A n \in Namespaces : d[n] = IF n = m THEN q[1].obj ELSE c[n]
  BY <1>1
<1> SUFFICES Follows(d, r, h)
  BY Zenon
<1> HIDE DEF d, r
<1> SUFFICES ASSUME NEW n \in Namespaces, NEW i \in 0 .. Len(r), Newest(r, i, n)
             PROVE  Copy(d, r, i, n) = h[n]
  BY DEF Follows
\* The copy was number j.
<1> DEFINE j == IF i = 0 THEN IF n = m THEN 1 ELSE 0 ELSE i + 1
<1>3. j \in 0 .. Len(q) /\ j <= i + 1 /\ (j = 0 \/ q[j].ns = n)
  BY <1>1 DEF Newest
<1>4. Copy(d, r, i, n) = Copy(c, q, j, n)
  BY <1>1, <1>2 DEF Copy
<1>5. \A k \in j + 1 .. Len(q) : q[k].ns # n
  <2> SUFFICES ASSUME NEW k \in j + 1 .. Len(q)
               PROVE  q[k].ns # n
    OBVIOUS
  <2>1. CASE k = 1
    BY <1>1, <2>1
  <2>2. CASE k # 1
    <3>1. k - 1 \in i + 1 .. Len(r) /\ k - 1 \in 1 .. Len(r) /\ (k - 1) + 1 = k
      BY <1>1, <2>2
    <3>2. r[k - 1].ns # n
      BY <3>1 DEF Newest
    <3>3. r[k - 1] = q[(k - 1) + 1]
      BY <1>1, <3>1
    <3> QED
      BY <3>1, <3>2, <3>3
  <2> QED
    BY <2>1, <2>2
<1> HIDE DEF j
<1>6. Newest(q, j, n)
  BY <1>3, <1>5, Zenon DEF Newest
<1> QED
  BY <1>3, <1>4, <1>6, Zenon DEF Follows

\* An object is stored, and the event of it is the last.
LEMMA FollowsStored ==
  ASSUME NEW S, NEW T, NEW c, NEW q \in Seq(S), NEW h \in [Namespaces -> T],
         NEW m \in Namespaces, NEW obj, [ns |-> m, obj |-> obj] \in S, Follows(c, q, h)
  PROVE  Follows(c, Append(q, [ns |-> m, obj |-> obj]), [h EXCEPT ![m] = obj])
<1> DEFINE e == [ns |-> m, obj |-> obj]
           r == Append(q, e)
           g == [h EXCEPT ![m] = obj]
<1>1. /\ Len(q) \in Nat /\ Len(r) = Len(q) + 1 /\ r[Len(q) + 1] = e
      /\ \A i \in 1 .. Len(q) : r[i] = q[i]
      /\ e.ns = m /\ e.obj = obj
  OBVIOUS
<1>2. \A n \in Namespaces : g[n] = IF n = m THEN obj ELSE h[n]
  OBVIOUS
<1> SUFFICES Follows(c, r, g)
  BY Zenon
<1> HIDE DEF e, r, g
<1> SUFFICES ASSUME NEW n \in Namespaces, NEW i \in 0 .. Len(r), Newest(r, i, n)
             PROVE  Copy(c, r, i, n) = g[n]
  BY DEF Follows
<1>3. CASE i = Len(q) + 1
  BY <1>1, <1>2, <1>3 DEF Newest, Copy
<1>4. CASE i # Len(q) + 1
  <2>1. i \in 0 .. Len(q) /\ Len(q) + 1 \in i + 1 .. Len(r)
    BY <1>1, <1>4
  <2>2. n # m
    BY <1>1, <2>1 DEF Newest
  <2>3. i = 0 \/ r[i] = q[i]
    BY <1>1, <2>1
  <2>4. \A k \in i + 1 .. Len(q) : k \in i + 1 .. Len(r) /\ r[k] = q[k]
    BY <1>1, <2>1
  <2>5. Newest(q, i, n)
    BY <2>3, <2>4, Zenon DEF Newest
  <2>6. Copy(c, r, i, n) = Copy(c, q, i, n)
    BY <2>3, Zenon DEF Copy
  <2>7. Copy(c, q, i, n) = h[n]
    BY <2>1, <2>5, Zenon DEF Follows
  <2> QED
    BY <1>2, <2>2, <2>6, <2>7, Zenon
<1> QED
  BY <1>3, <1>4

-----------------------------------------------------------------------------
(***************************************************************************)
(* The invariant of a calm master.  A namespace's event finds no other     *)
(* event on its way, nor does a request; so whoever handles an object with *)
(* a request has it as it is stored, and its Update meets no conflict.     *)
(***************************************************************************)
CalmFaults == Calm /\ Faults \subseteq {"error"}

Asks(obj) == obj.request # NoRequest

NoAsks(q) == \A i \in 1 .. Len(q) : ~Asks(q[i].obj)

AllReplayed == phase = "running" /\ nsReplay = {} /\ netnsReplay = {}

OneNamespaceEvent ==
  nsEvents # <<>> =>
    /\ AllReplayed /\ netnsEvents = <<>> /\ Len(nsEvents) = 1
    /\ Head(nsEvents).type = "delete" => Head(nsEvents).ns # Default

OneRequest ==
  NoAsks(netnsEvents) \/ (AllReplayed /\ nsEvents = <<>> /\ Len(netnsEvents) = 1)

\* The copies in the cache that the handler will be given again.
CachedAreCurrent ==
  \A n \in Namespaces :
    (phase # "running" \/ n \in netnsReplay) /\ Asks(netnsCache[n]) => netns[n] = netnsCache[n]

StoredAsk == \A n \in Namespaces : Asks(netns[n]) => Exists(n)

\* Only a failed Update makes the map and the store differ.
Agreement ==
  \A n \in Namespaces :
    vmap.ids[n] # netns[n].netid => Faults # {} /\ vmap.allowRenumbering /\ Asks(netns[n])

CalmInv ==
  /\ Follows(netnsCache, netnsEvents, netns)
  /\ OneNamespaceEvent /\ OneRequest /\ CachedAreCurrent /\ StoredAsk
  /\ phase # "synced" => Agreement

-----------------------------------------------------------------------------
(***************************************************************************)
(* What the three locked operations do to the map and to the store.        *)
(***************************************************************************)
\* NetNamespace n is stored with VNID id, and no request.
Stored(n, id, pending) ==
  \E obj \in NetNamespace :
    /\ obj.netid = id /\ ~Asks(obj)
    /\ netns' = [netns EXCEPT ![n] = obj]
    /\ netnsEvents' = Append(pending, [ns |-> n, obj |-> obj])

\* The VNIDs that n may be stored with.
Allowed(n, id) ==
  \/ id = netns[n].netid
  \/ ~Exists(n) /\ id \in NewNetIDs(n)
  \/ /\ Exists(n)
     /\ \/ id = GlobalVNID
        \/ n # Default /\ id \in Free(vmap) \cup {NoVNID}
        \/ \E k \in Namespaces : Found(vmap, k) /\ id = vmap.ids[k]

\* n gets the VNID in the map and in the store.
Moves(n, pending) ==
  \E id : /\ Allowed(n, id) /\ Stored(n, id, pending)
          /\ vmap'.ids = [vmap.ids EXCEPT ![n] = id]

\* Nothing is written; if that is because an Update failed, n may have moved in
\* the map.
Leaves(n, pending) ==
  /\ NoWrite(pending)
  /\ \/ vmap'.ids = vmap.ids
     \/ /\ Faults # {} /\ vmap.allowRenumbering /\ Asks(netns[n])
        /\ \E id : vmap'.ids = [vmap.ids EXCEPT ![n] = id]

Effect(n, pending) ==
  /\ vmap'.allowRenumbering = vmap.allowRenumbering
  /\ Moves(n, pending) \/ Leaves(n, pending)

\* A call that succeeds stores; one that does not leaves the store alone, and it
\* is a fault if the server would have accepted it.
LEMMA CallEffect ==
  ASSUME CalmFaults, StoreInv, NEW o \in {"ok"} \cup Faults, NEW valid \in BOOLEAN,
         NEW n \in Namespaces, NEW id \in VNIDs \cup {NoVNID}, NEW pending,
         Call(o, valid, n, id, NoRequest, pending)
  PROVE  \/ Succeeds(o, valid) /\ Stored(n, id, pending)
         \/ ~Succeeds(o, valid) /\ NoWrite(pending) /\ (valid => Faults # {})
<1>1. o = "ok" \/ (o = "error" /\ Faults # {})
  BY DEF CalmFaults
<1>2. CASE valid /\ o = "ok"
  <2> DEFINE obj == [netid |-> id, request |-> NoRequest, version |-> netns[n].version + 1]
  <2>1. netns[n].version + 1 \in Nat
    BY DEF StoreInv, NetNamespace
  <2>2. obj \in NetNamespace /\ obj.netid = id /\ ~Asks(obj)
    BY <2>1 DEF NetNamespace, Asks
  <2>3. Write(n, id, NoRequest, pending)
    BY <1>2 DEF Call
  <2>4. /\ netns' = [netns EXCEPT ![n] = obj]
        /\ netnsEvents' = Append(pending, [ns |-> n, obj |-> obj])
    BY <2>3, Zenon DEF Write
  <2> HIDE DEF obj
  <2> QED
    BY <1>2, <2>2, <2>4, Zenon DEF Stored, Succeeds
<1>3. CASE ~(valid /\ o = "ok")
  <2>1. ~(valid /\ o # "error")
    BY <1>1, <1>3
  <2> QED
    BY <1>1, <1>3, <2>1 DEF Call, Succeeds
<1> QED
  BY <1>2, <1>3

\* assignVNID stores a NetNamespace that is not there, or changes nothing.
LEMMA AssignEffect ==
  ASSUME CalmFaults, OpInv, NEW n \in Namespaces, assignVNID(n)
  PROVE  Effect(n, netnsEvents) /\ (Exists(n) => NoWrite(netnsEvents))
<1>0. vmap \in VNIDMap /\ Matches(vmap) /\ StoreInv
  BY DEF OpInv
<1>1. CASE NoWrite(netnsEvents) /\ UNCHANGED <<vmap, budget>>
  BY <1>1, Zenon DEF Effect, Leaves
<1>2. CASE ~Found(vmap, n) /\ \E id \in NewNetIDs(n), o \in {"ok"} \cup Faults :
             /\ Call(o, ~Exists(n), n, id, NoRequest, netnsEvents)
             /\ vmap' = LET m == allocateNetID(vmap, n, id)
                        IN  IF Succeeds(o, ~Exists(n)) THEN m ELSE createFailed(m, n)
  <2>1. PICK id \in NewNetIDs(n), o \in {"ok"} \cup Faults :
             /\ Call(o, ~Exists(n), n, id, NoRequest, netnsEvents)
             /\ vmap' = LET m == allocateNetID(vmap, n, id)
                        IN  IF Succeeds(o, ~Exists(n)) THEN m ELSE createFailed(m, n)
    BY <1>2, Zenon
  <2>2. id \in VNIDs \cup {NoVNID}
    BY DEF NewNetIDs, Free, VNIDs
  <2> DEFINE m == allocateNetID(vmap, n, id)
  <2>3. m \in VNIDMap
    BY <1>0, <1>2, AllocateMatches DEF NewNetIDs
  <2>4. m.ids = [vmap.ids EXCEPT ![n] = id] /\ m.allowRenumbering = vmap.allowRenumbering
    BY <1>0 DEF allocateNetID, setVNID, Allocate, VNIDMap
  <2>5. \/ Succeeds(o, ~Exists(n)) /\ Stored(n, id, netnsEvents)
        \/ ~Succeeds(o, ~Exists(n)) /\ NoWrite(netnsEvents)
    BY <1>0, <2>1, <2>2, CallEffect, Zenon DEF Exists
  <2>6. vmap' = IF Succeeds(o, ~Exists(n)) THEN m ELSE releaseNetID(m, n)
    BY <2>1, Zenon DEF createFailed
  <2> HIDE DEF m
  <2>7. CASE Succeeds(o, ~Exists(n)) /\ Stored(n, id, netnsEvents)
    <3>1. ~Exists(n) /\ vmap' = m
      BY <2>6, <2>7, Zenon DEF Succeeds
    <3> QED
      BY <2>4, <2>7, <3>1, Zenon DEF Effect, Moves, Allowed
  <2>8. CASE ~Succeeds(o, ~Exists(n)) /\ NoWrite(netnsEvents)
    <3>1. /\ vmap'.ids = [m.ids EXCEPT ![n] = NoVNID]
          /\ vmap'.allowRenumbering = m.allowRenumbering
      BY <2>3, <2>6, <2>8, ReleaseShape, Zenon
    <3>2. vmap.ids \in [Namespaces -> VNIDs \cup {NoVNID}] /\ vmap.ids[n] = NoVNID
      BY <1>0, <1>2 DEF VNIDMap, Found
    <3>3. vmap'.ids = vmap.ids
      BY <2>4, <3>1, <3>2
    <3> QED
      BY <2>4, <2>8, <3>1, <3>3, Zenon DEF Effect, Leaves
  <2> QED
    BY <2>5, <2>7, <2>8, Zenon
<1> QED
  BY <1>1, <1>2, Zenon DEF assignVNID

\* revokeVNID deletes the NetNamespace and forgets its VNID, or does neither.
LEMMA RevokeEffect ==
  ASSUME CalmFaults, OpInv, NEW n \in Namespaces, n # Default, revokeVNID(n)
  PROVE  Effect(n, netnsEvents)
<1>0. vmap \in VNIDMap /\ StoreInv
  BY DEF OpInv
<1>1. PICK o \in {"ok"} \cup Faults :
        /\ Call(o, Exists(n), n, NoVNID, NoRequest, netnsEvents)
        /\ vmap' = IF Succeeds(o, Exists(n)) /\ Found(vmap, n)
                   THEN releaseNetID(vmap, n) ELSE vmap
  BY Zenon DEF revokeVNID
<1>2. \/ Succeeds(o, Exists(n)) /\ Stored(n, NoVNID, netnsEvents)
      \/ ~Succeeds(o, Exists(n)) /\ NoWrite(netnsEvents)
  BY <1>0, <1>1, CallEffect, Zenon DEF Exists
<1>3. CASE Succeeds(o, Exists(n)) /\ Stored(n, NoVNID, netnsEvents)
  <2>1. /\ vmap'.ids = [vmap.ids EXCEPT ![n] = NoVNID]
        /\ vmap'.allowRenumbering = vmap.allowRenumbering
    <3>1. CASE Found(vmap, n)
      <4>1. vmap' = releaseNetID(vmap, n)
        BY <1>1, <1>3, <3>1, Zenon
      <4> QED
        BY <1>0, <4>1, ReleaseShape, Zenon
    <3>2. CASE ~Found(vmap, n)
      BY <1>0, <1>1, <3>2 DEF Found, VNIDMap
    <3> QED
      BY <3>1, <3>2
  <2>2. Allowed(n, NoVNID)
    BY <1>3 DEF Allowed, Succeeds
  <2> QED
    BY <1>3, <2>1, <2>2, Zenon DEF Effect, Moves
<1>4. CASE ~Succeeds(o, Exists(n)) /\ NoWrite(netnsEvents)
  BY <1>1, <1>4, Zenon DEF Effect, Leaves
<1> QED
  BY <1>2, <1>3, <1>4

\* n is given id, and no other VNID is changed.
Renumbers(m, m2, n, id) ==
  /\ m2.ids = [m.ids EXCEPT ![n] = id] /\ m2.ids[n] = id
  /\ m2.allowRenumbering = m.allowRenumbering

MayGet(m, n, id) ==
  \/ id = GlobalVNID
  \/ n # Default /\ id \in Free(m)
  \/ \E k \in Namespaces : Found(m, k) /\ id = m.ids[k]

\* What Renumber leaves.
LEMMA RenumberShape ==
  ASSUME NEW m \in VNIDMap, NEW n \in Namespaces, NEW id \in VNIDs
  PROVE  Renumbers(m, Renumber(m, n, id), n, id)
<1> DEFINE r == releaseNetID(m, n)
<1>1. /\ r \in VNIDMap /\ r.ids = [m.ids EXCEPT ![n] = NoVNID]
      /\ r.allowRenumbering = m.allowRenumbering
  BY ReleaseShape, Zenon
<1>2. Renumber(m, n, id) = setVNID(r, n, id)
  BY Zenon DEF Renumber
<1> HIDE DEF r
<1>3. /\ setVNID(r, n, id).ids = [r.ids EXCEPT ![n] = id]
      /\ setVNID(r, n, id).allowRenumbering = r.allowRenumbering
  BY <1>1 DEF setVNID, VNIDMap
<1>4. /\ [[m.ids EXCEPT ![n] = NoVNID] EXCEPT ![n] = id] = [m.ids EXCEPT ![n] = id]
      /\ [m.ids EXCEPT ![n] = id][n] = id
  BY DEF VNIDMap
<1> QED
  BY <1>1, <1>2, <1>3, <1>4, Zenon DEF Renumbers

\* The VNIDs updateNetID may give n; it changes no other namespace's.
LEMMA UpdateIds ==
  ASSUME NEW m \in VNIDMap, NEW n \in Namespaces, NEW r \in Request,
         NEW m2 \in updateNetID(m, n, r)
  PROVE  \E id \in VNIDs : Renumbers(m, m2, n, id) /\ MayGet(m, n, id)
<1>0. /\ r.args \in Namespaces /\ m.ids \in [Namespaces -> VNIDs \cup {NoVNID}]
      /\ GlobalVNID \in VNIDs /\ Free(m) \subseteq VNIDs
      /\ \A k \in Namespaces : Found(m, k) => m.ids[k] \in VNIDs
  BY DEF Request, VNIDMap, VNIDs, Free, Found
<1>1. CASE Found(m, n) /\ r.action = "global"
  <2>1. m2 = Renumber(m, n, GlobalVNID)
    BY <1>1 DEF updateNetID
  <2>2. Renumbers(m, m2, n, GlobalVNID)
    BY <1>0, <2>1, RenumberShape, Zenon
  <2> QED
    BY <1>0, <2>2, Zenon DEF MayGet
<1>2. CASE Found(m, n) /\ r.action = "join" /\ Found(m, r.args)
  <2>1. m2 = Renumber(m, n, m.ids[r.args])
    BY <1>2 DEF updateNetID
  <2>2. Renumbers(m, m2, n, m.ids[r.args])
    BY <1>0, <1>2, <2>1, RenumberShape, Zenon
  <2> QED
    BY <1>0, <1>2, <2>2, Zenon DEF MayGet
<1>3. CASE Found(m, n) /\ r.action = "isolate"
  <2>1. m2 \in isolatePodNetwork(m, n)
    BY <1>3 DEF updateNetID
  <2>2. CASE m2 = m
    <3>1. Renumbers(m, m, n, m.ids[n])
      BY <1>0 DEF Renumbers
    <3> QED
      BY <1>0, <1>3, <2>2, <3>1, Zenon DEF MayGet
  <2>3. CASE n # Default /\ \E id \in Free(m) : m2 = Renumber(Allocate(m, id), n, id)
    <3>1. PICK id \in Free(m) : m2 = Renumber(Allocate(m, id), n, id)
      BY <2>3
    <3> DEFINE a == Allocate(m, id)
    <3>2. a \in VNIDMap /\ a.ids = m.ids /\ a.allowRenumbering = m.allowRenumbering
      BY DEF Allocate, Free, VNIDMap
    <3>3. m2 = Renumber(a, n, id) /\ id \in VNIDs
      BY <1>0, <3>1
    <3> HIDE DEF a
    <3>4. Renumbers(a, m2, n, id)
      BY <3>2, <3>3, RenumberShape, Zenon
    <3>5. Renumbers(m, m2, n, id)
      BY <3>2, <3>4, Zenon DEF Renumbers
    <3> QED
      BY <2>3, <3>3, <3>5, Zenon DEF MayGet
  <2> QED
    BY <2>1, <2>2, <2>3, Zenon DEF isolatePodNetwork
<1>4. CASE ~(Found(m, n) /\ r.action \in {"global", "isolate"})
           /\ ~(Found(m, n) /\ r.action = "join" /\ Found(m, r.args))
  BY <1>4 DEF updateNetID
<1> QED
  BY <1>1, <1>2, <1>3, <1>4

\* updateVNID, given the object as it is stored if it asks for anything, moves n
\* as asked in the map and in the store, or only in the map if the Update fails.
LEMMA UpdateEffect ==
  ASSUME CalmFaults, OpInv, Agreement, StoredAsk, NEW n \in Namespaces, NEW pending,
         NEW obj \in NetNamespace, obj.request \in Asked(n), Asks(obj) => obj = netns[n],
         updateVNID(n, obj, pending)
  PROVE  Effect(n, pending)
<1>0. vmap \in VNIDMap /\ StoreInv /\ netns[n] \in NetNamespace
  BY DEF OpInv, StoreInv
<1>1. CASE NoWrite(pending) /\ UNCHANGED vmap
  BY <1>1, Zenon DEF Effect, Leaves
<1>2. CASE /\ obj.request # NoRequest /\ ~vmap.allowRenumbering
           /\ \E o \in {"ok"} \cup Faults :
                Call(o, obj.version = netns[n].version, n, obj.netid, NoRequest, pending)
           /\ UNCHANGED vmap
  <2>1. PICK o \in {"ok"} \cup Faults :
                Call(o, obj.version = netns[n].version, n, obj.netid, NoRequest, pending)
    BY <1>2, Zenon
  <2>2. obj.netid \in VNIDs \cup {NoVNID}
    BY DEF NetNamespace
  <2>3. Stored(n, obj.netid, pending) \/ NoWrite(pending)
    BY <1>0, <2>1, <2>2, CallEffect, Zenon
  <2>4. CASE Stored(n, obj.netid, pending)
    <3>1. obj = netns[n] /\ vmap.ids[n] = netns[n].netid
      BY <1>2 DEF Asks, Agreement
    <3>2. vmap' = vmap /\ vmap.ids = [vmap.ids EXCEPT ![n] = obj.netid]
      BY <1>0, <1>2, <3>1 DEF VNIDMap
    <3>3. Allowed(n, obj.netid)
      BY <3>1, Zenon DEF Allowed
    <3> QED
      BY <2>4, <3>2, <3>3, Zenon DEF Effect, Moves
  <2> QED
    BY <1>1, <1>2, <2>3, <2>4, Zenon
<1>3. CASE /\ obj.request # NoRequest /\ vmap.allowRenumbering
           /\ vmap' \in updateNetID(vmap, n, obj.request)
           /\ \E o \in {"ok"} \cup Faults :
                Call(o, obj.version = netns[n].version, n, vmap'.ids[n], NoRequest, pending)
  <2>1. PICK o \in {"ok"} \cup Faults :
                Call(o, obj.version = netns[n].version, n, vmap'.ids[n], NoRequest, pending)
    BY <1>3, Zenon
  <2>2. obj.request \in Request
    BY <1>3 DEF Asked, NetNamespace
  <2>3. \E id \in VNIDs : Renumbers(vmap, vmap', n, id) /\ MayGet(vmap, n, id)
    <3> DEFINE m2 == vmap'
    <3>1. m2 \in updateNetID(vmap, n, obj.request)
      BY <1>3
    <3> HIDE DEF m2
    <3>2. \E id \in VNIDs : Renumbers(vmap, m2, n, id) /\ MayGet(vmap, n, id)
      BY <1>0, <2>2, <3>1, UpdateIds, Zenon
    <3> QED
      BY <3>2 DEF m2
  <2>4. PICK id \in VNIDs : Renumbers(vmap, vmap', n, id) /\ MayGet(vmap, n, id)
    BY <2>3, Zenon
  <2>5. obj = netns[n] /\ Exists(n) /\ Asks(netns[n])
    BY <1>3 DEF Asks, StoredAsk
  <2>6. Allowed(n, id)
    BY <2>4, <2>5, Zenon DEF Allowed, MayGet
  <2>7. vmap'.ids[n] = id /\ obj.version = netns[n].version
    BY <2>4, <2>5, Zenon DEF Renumbers
  <2>8. Call(o, obj.version = netns[n].version, n, id, NoRequest, pending)
    BY <2>1, <2>7, Zenon
  <2>9. Stored(n, id, pending) \/ (NoWrite(pending) /\ Faults # {})
    BY <1>0, <2>7, <2>8, CallEffect, Zenon
  <2>10. /\ vmap'.ids = [vmap.ids EXCEPT ![n] = id]
         /\ vmap'.allowRenumbering = vmap.allowRenumbering
    BY <2>4, Zenon DEF Renumbers
  <2> QED
    BY <1>3, <2>5, <2>6, <2>9, <2>10, Zenon DEF Effect, Moves, Leaves
<1> QED
  BY <1>1, <1>2, <1>3, Zenon DEF updateVNID

-----------------------------------------------------------------------------
(***************************************************************************)
(* What an effect does to the invariant.                                   *)
(***************************************************************************)
\* The namespaces other than n are stored as before.
LEMMA EffectElsewhere ==
  ASSUME OpInv, NEW n \in Namespaces, NEW pending, Effect(n, pending),
         NEW k \in Namespaces, k # n \/ NoWrite(pending)
  PROVE  netns'[k] = netns[k]
<1>1. CASE NoWrite(pending)
  BY <1>1, Zenon DEF NoWrite
<1>2. CASE Moves(n, pending) /\ k # n
  <2>1. PICK obj \in NetNamespace : netns' = [netns EXCEPT ![n] = obj]
    BY <1>2, Zenon DEF Moves, Stored
  <2>2. netns \in [Namespaces -> NetNamespace]
    BY DEF OpInv, StoreInv
  <2> QED
    BY <1>2, <2>1, <2>2
<1> QED
  BY <1>1, <1>2, Zenon DEF Effect, Leaves

\* The map and the store agree, or a request is pending, as before.
LEMMA EffectAgrees ==
  ASSUME OpInv, NEW n \in Namespaces, NEW pending, Effect(n, pending), StoredAsk, Agreement
  PROVE  StoredAsk' /\ Agreement'
<1>0. /\ netns \in [Namespaces -> NetNamespace]
      /\ vmap.ids \in [Namespaces -> VNIDs \cup {NoVNID}]
  BY DEF OpInv, StoreInv, VNIDMap
<1>1. CASE Moves(n, pending)
  <2>1. PICK id : Stored(n, id, pending) /\ vmap'.ids = [vmap.ids EXCEPT ![n] = id]
    BY <1>1, Zenon DEF Moves
  <2>2. PICK obj \in NetNamespace :
          obj.netid = id /\ ~Asks(obj) /\ netns' = [netns EXCEPT ![n] = obj]
    BY <2>1, Zenon DEF Stored
  <2>3. \A k \in Namespaces :
          /\ netns'[k] = IF k = n THEN obj ELSE netns[k]
          /\ vmap'.ids[k] = IF k = n THEN id ELSE vmap.ids[k]
    BY <1>0, <2>1, <2>2
  <2>4. \A k \in Namespaces : Asks(netns'[k]) => Exists(k)'
    BY <2>2, <2>3 DEF StoredAsk, Exists
  <2>5. \A k \in Namespaces :
          vmap'.ids[k] # netns'[k].netid
            => Faults # {} /\ vmap'.allowRenumbering /\ Asks(netns'[k])
    BY <2>2, <2>3, Zenon DEF Agreement, Effect
  <2> QED
    BY <2>4, <2>5 DEF StoredAsk, Agreement, Asks
<1>2. CASE Leaves(n, pending)
  <2>1. netns' = netns
    BY <1>2, Zenon DEF Leaves, NoWrite
  <2>2. \A k \in Namespaces : vmap'.ids[k] = vmap.ids[k]
          \/ (Faults # {} /\ vmap.allowRenumbering /\ Asks(netns[k]))
    <3>1. CASE vmap'.ids = vmap.ids
      BY <3>1
    <3>2. CASE vmap'.ids # vmap.ids
      <4>1. PICK id : vmap'.ids = [vmap.ids EXCEPT ![n] = id]
        BY <1>2, <3>2, Zenon DEF Leaves
      <4>2. \A k \in Namespaces : k = n \/ vmap'.ids[k] = vmap.ids[k]
        BY <1>0, <4>1
      <4> QED
        BY <1>2, <3>2, <4>2, Zenon DEF Leaves
    <3> QED
      BY <3>1, <3>2
  <2>3. StoredAsk'
    BY <2>1 DEF StoredAsk, Exists, Asks
  <2>4. \A k \in Namespaces :
          vmap'.ids[k] # netns'[k].netid
            => Faults # {} /\ vmap'.allowRenumbering /\ Asks(netns'[k])
    BY <2>1, <2>2, Zenon DEF Agreement, Effect
  <2> QED
    BY <2>3, <2>4 DEF Agreement, Asks
<1> QED
  BY <1>1, <1>2, Zenon DEF Effect

\* The cache follows the store, and no request is added to the events.
LEMMA EffectFollows ==
  ASSUME OpInv, NEW n \in Namespaces, NEW pending \in Seq(AskedEvent), Effect(n, pending),
         NEW c, Follows(c, pending, netns)
  PROVE  Follows(c, netnsEvents', netns') /\ (NoAsks(pending) => NoAsks(netnsEvents'))
<1>1. CASE Moves(n, pending)
  <2>1. PICK obj \in NetNamespace :
          /\ ~Asks(obj) /\ netns' = [netns EXCEPT ![n] = obj]
          /\ netnsEvents' = Append(pending, [ns |-> n, obj |-> obj])
    BY <1>1, Zenon DEF Moves, Stored
  <2> DEFINE e == [ns |-> n, obj |-> obj]
  <2>2. e \in AskedEvent /\ ~Asks(e.obj)
    BY <2>1 DEF AskedEvent, Asks, Asked
  <2>3. netns \in [Namespaces -> NetNamespace]
    BY DEF OpInv, StoreInv
  <2>4. Follows(c, netnsEvents', netns')
    BY <2>1, <2>2, <2>3, FollowsStored, Zenon
  <2>5. netnsEvents' = Append(pending, e)
    BY <2>1
  <2> HIDE DEF e
  <2>6. NoAsks(pending) => NoAsks(netnsEvents')
    BY <2>2, <2>5 DEF NoAsks
  <2> QED
    BY <2>4, <2>6
<1>2. CASE Leaves(n, pending)
  BY <1>2, Zenon DEF Leaves, NoWrite
<1> QED
  BY <1>1, <1>2, Zenon DEF Effect

-----------------------------------------------------------------------------
(***************************************************************************)
(* Each action keeps the invariant.                                        *)
(***************************************************************************)
\* The parts of the typing that the steps use.
LEMMA CalmTypes ==
  ASSUME IInv
  PROVE  /\ OpInv
         /\ nsEvents \in Seq([type : {"add", "delete"}, ns : Namespaces])
         /\ netnsEvents \in Seq(AskedEvent)
         /\ netnsCache \in [Namespaces -> NetNamespace]
         /\ \A n \in Namespaces : netnsCache[n].request \in Asked(n)
BY Parts, Zenon DEF OpInv, StoreInv, RestInv

\* A namespace given to the handler again.
LEMMA ReplayNamespaceCalm ==
  ASSUME CalmFaults, IInv, CalmInv, NEW n \in Namespaces, replayNamespace(n)
  PROVE  CalmInv' /\ phase # "synced" /\ Effect(n, netnsEvents)
<1>0. /\ phase' = phase /\ phase # "synced" /\ nsEvents' = nsEvents
      /\ netnsCache' = netnsCache /\ netnsReplay' = netnsReplay
      /\ n \in nsReplay /\ assignVNID(n)
  BY DEF replayNamespace, watchingNamespaces
<1>1. Effect(n, netnsEvents) /\ (Exists(n) => NoWrite(netnsEvents))
  BY <1>0, CalmTypes, AssignEffect, Zenon
<1>2. StoredAsk' /\ Agreement'
  BY <1>0, <1>1, CalmTypes, EffectAgrees, Zenon DEF CalmInv
<1>3. nsEvents = <<>> /\ NoAsks(netnsEvents)
  BY <1>0 DEF CalmInv, OneNamespaceEvent, OneRequest, AllReplayed
<1>4. Follows(netnsCache, netnsEvents', netns') /\ NoAsks(netnsEvents')
  BY <1>1, <1>3, CalmTypes, EffectFollows, Zenon DEF CalmInv
<1>5. CachedAreCurrent'
  <2> SUFFICES ASSUME NEW k \in Namespaces, phase' # "running" \/ k \in netnsReplay',
                      Asks(netnsCache'[k])
               PROVE  netns'[k] = netnsCache'[k]
    BY Zenon DEF CachedAreCurrent
  <2>1. netns[k] = netnsCache[k] /\ Exists(k)
    BY <1>0 DEF CalmInv, CachedAreCurrent, StoredAsk
  <2>2. netns'[k] = netns[k]
    BY <1>1, <2>1, CalmTypes, EffectElsewhere, Zenon
  <2> QED
    BY <1>0, <2>1, <2>2
<1>6. OneNamespaceEvent' /\ OneRequest'
  BY <1>0, <1>3, <1>4 DEF OneNamespaceEvent, OneRequest, NoAsks
<1> QED
  BY <1>0, <1>1, <1>2, <1>4, <1>5, <1>6, Zenon DEF CalmInv

\* The event of a Namespace, of which there is no other.
LEMMA NamespaceEventCalm ==
  ASSUME CalmFaults, IInv, CalmInv, NEW n \in Namespaces,
         handleAddOrUpdateNamespace(n) \/ handleDeleteNamespace(n)
  PROVE  CalmInv' /\ phase # "synced" /\ Effect(n, netnsEvents)
<1>0. /\ phase' = phase /\ phase # "synced" /\ nsEvents # <<>> /\ nsEvents' = Tail(nsEvents)
      /\ netnsCache' = netnsCache /\ netnsReplay' = netnsReplay
  BY DEF handleAddOrUpdateNamespace, handleDeleteNamespace, watchingNamespaces
<1>1. Effect(n, netnsEvents)
  <2>1. CASE handleAddOrUpdateNamespace(n)
    <3>1. assignVNID(n)
      BY <2>1, Zenon DEF handleAddOrUpdateNamespace
    <3> QED
      BY <3>1, CalmTypes, AssignEffect, Zenon
  <2>2. CASE handleDeleteNamespace(n)
    <3>1. revokeVNID(n) /\ Head(nsEvents) = [type |-> "delete", ns |-> n]
      BY <2>2, Zenon DEF handleDeleteNamespace
    <3>2. n # Default
      BY <1>0, <3>1 DEF CalmInv, OneNamespaceEvent
    <3> QED
      BY <3>1, <3>2, CalmTypes, RevokeEffect, Zenon
  <2> QED
    BY <2>1, <2>2
<1>2. StoredAsk' /\ Agreement'
  BY <1>0, <1>1, CalmTypes, EffectAgrees, Zenon DEF CalmInv
<1>3. AllReplayed /\ netnsEvents = <<>> /\ Len(nsEvents) = 1
  BY <1>0, Zenon DEF CalmInv, OneNamespaceEvent
<1>4. nsEvents' = <<>>
  <2>1. nsEvents \in Seq([type : {"add", "delete"}, ns : Namespaces])
    BY CalmTypes, Zenon
  <2> QED
    BY <1>0, <1>3, <2>1
<1>5. NoAsks(netnsEvents)
  BY <1>3 DEF NoAsks
<1>6. Follows(netnsCache, netnsEvents', netns') /\ NoAsks(netnsEvents')
  BY <1>1, <1>5, CalmTypes, EffectFollows, Zenon DEF CalmInv
<1>7. CachedAreCurrent'
  BY <1>0, <1>3 DEF CachedAreCurrent, AllReplayed
<1>8. OneNamespaceEvent' /\ OneRequest'
  BY <1>4, <1>6 DEF OneNamespaceEvent, OneRequest, NoAsks
<1> QED
  BY <1>0, <1>1, <1>2, <1>6, <1>7, <1>8, Zenon DEF CalmInv

\* A NetNamespace given to the handler again.
LEMMA ReplayNetNamespaceCalm ==
  ASSUME CalmFaults, IInv, CalmInv, NEW n \in Namespaces, replayNetNamespace(n)
  PROVE  CalmInv' /\ phase # "synced" /\ Effect(n, netnsEvents)
<1>0. /\ phase' = phase /\ phase = "running" /\ nsEvents' = nsEvents
      /\ netnsCache' = netnsCache /\ netnsReplay' = netnsReplay \ {n}
      /\ n \in netnsReplay /\ updateVNID(n, netnsCache[n], netnsEvents)
  BY DEF replayNetNamespace, nsInformer
<1>1. Effect(n, netnsEvents)
  <2>1. StoredAsk /\ Agreement
    BY <1>0 DEF CalmInv
  <2>2. netnsCache[n] \in NetNamespace /\ netnsCache[n].request \in Asked(n)
    BY CalmTypes
  <2>3. Asks(netnsCache[n]) => netnsCache[n] = netns[n]
    BY <1>0 DEF CalmInv, CachedAreCurrent
  <2> QED
    BY <1>0, <2>1, <2>2, <2>3, CalmTypes, UpdateEffect, Zenon
<1>2. StoredAsk' /\ Agreement'
  BY <1>0, <1>1, CalmTypes, EffectAgrees, Zenon DEF CalmInv
<1>3. nsEvents = <<>> /\ NoAsks(netnsEvents)
  BY <1>0 DEF CalmInv, OneNamespaceEvent, OneRequest, AllReplayed
<1>4. Follows(netnsCache, netnsEvents', netns') /\ NoAsks(netnsEvents')
  BY <1>1, <1>3, CalmTypes, EffectFollows, Zenon DEF CalmInv
<1>5. CachedAreCurrent'
  <2> SUFFICES ASSUME NEW k \in Namespaces, phase' # "running" \/ k \in netnsReplay',
                      Asks(netnsCache'[k])
               PROVE  netns'[k] = netnsCache'[k]
    BY Zenon DEF CachedAreCurrent
  <2>1. netns[k] = netnsCache[k] /\ k # n
    BY <1>0 DEF CalmInv, CachedAreCurrent
  <2>2. netns'[k] = netns[k]
    BY <1>1, <2>1, CalmTypes, EffectElsewhere, Zenon
  <2> QED
    BY <1>0, <2>1, <2>2
<1>6. OneNamespaceEvent' /\ OneRequest'
  BY <1>0, <1>3, <1>4 DEF OneNamespaceEvent, OneRequest, NoAsks
<1> QED
  BY <1>0, <1>1, <1>2, <1>4, <1>5, <1>6 DEF CalmInv

\* The event of a NetNamespace: if it carries a request there is no other event,
\* so the object is the stored one.
LEMMA NetNamespaceEventCalm ==
  ASSUME CalmFaults, IInv, CalmInv, NEW n \in Namespaces, handleAddOrUpdateNetNamespace(n)
  PROVE  CalmInv' /\ phase # "synced" /\ Effect(n, Tail(netnsEvents))
<1> DEFINE obj == Head(netnsEvents).obj
           rest == Tail(netnsEvents)
           cache == [netnsCache EXCEPT ![n] = obj]
<1>0. /\ phase' = phase /\ phase = "running" /\ nsEvents' = nsEvents
      /\ netnsReplay' = netnsReplay /\ netnsReplay = {}
      /\ netnsEvents # <<>> /\ Head(netnsEvents).ns = n /\ netnsCache' = cache
  BY DEF handleAddOrUpdateNetNamespace, nsInformer
<1>1. \/ NoWrite(rest) /\ UNCHANGED vmap
      \/ updateVNID(n, obj, rest)
  BY Zenon DEF handleAddOrUpdateNetNamespace
<1>2. Head(netnsEvents) \in AskedEvent /\ rest \in Seq(AskedEvent)
  BY <1>0, CalmTypes, HeadAndTail, Zenon
<1>3. obj \in NetNamespace /\ obj.request \in Asked(n)
  BY <1>0, <1>2 DEF AskedEvent
<1>4. nsEvents = <<>>
  BY <1>0, Zenon DEF CalmInv, OneNamespaceEvent
<1>5. NoAsks(rest) /\ (Asks(obj) => Len(netnsEvents) = 1)
  <2>1. netnsEvents \in Seq(AskedEvent)
    BY CalmTypes, Zenon
  <2>2. NoAsks(netnsEvents) \/ Len(netnsEvents) = 1
    BY DEF CalmInv, OneRequest
  <2> QED
    BY <1>0, <2>1, <2>2 DEF NoAsks
<1>6. Asks(obj) => obj = netns[n]
  <2> SUFFICES ASSUME Asks(obj)
               PROVE  obj = netns[n]
    OBVIOUS
  <2>1. netnsEvents \in Seq(AskedEvent) /\ Len(netnsEvents) = 1
    BY <1>5, CalmTypes, Zenon
  <2>2. netnsEvents[1] = Head(netnsEvents)
    BY <2>1
  <2>3. Follows(netnsCache, netnsEvents, netns)
    BY DEF CalmInv
  <2>4. netnsEvents[1].ns \in Namespaces
    BY <1>0, <2>2
  <2>5. netnsEvents[1].obj = netns[netnsEvents[1].ns]
    BY <2>1, <2>3, <2>4, FollowsOne, ZenonT(40)
  <2> QED
    BY <1>0, <2>2, <2>5, Zenon
<1>7. Follows(cache, rest, netns)
  <2>1. /\ netnsEvents \in Seq(AskedEvent) /\ netnsCache \in [Namespaces -> NetNamespace]
        /\ Follows(netnsCache, netnsEvents, netns)
    BY CalmTypes, Zenon DEF CalmInv
  <2> QED
    BY <1>0, <2>1, FollowsTaken, Zenon
<1> HIDE DEF obj, rest, cache
<1>8. Effect(n, rest)
  <2>1. CASE NoWrite(rest) /\ UNCHANGED vmap
    BY <2>1, Zenon DEF Effect, Leaves
  <2>2. CASE updateVNID(n, obj, rest)
    <3>1. StoredAsk /\ Agreement
      BY <1>0 DEF CalmInv
    <3> QED
      BY <1>3, <1>6, <2>2, <3>1, CalmTypes, UpdateEffect, Zenon
  <2> QED
    BY <1>1, <2>1, <2>2, Zenon
<1>9. StoredAsk' /\ Agreement'
  BY <1>0, <1>8, CalmTypes, EffectAgrees DEF CalmInv
<1>10. Follows(cache, netnsEvents', netns') /\ NoAsks(netnsEvents')
  BY <1>2, <1>5, <1>7, <1>8, CalmTypes, EffectFollows, Zenon
<1>11. CachedAreCurrent'
  BY <1>0 DEF CachedAreCurrent
<1>12. OneNamespaceEvent' /\ OneRequest'
  BY <1>0, <1>4, <1>10 DEF OneNamespaceEvent, OneRequest, NoAsks
<1> QED
  BY <1>0, <1>8, <1>9, <1>10, <1>11, <1>12 DEF CalmInv, rest

\* Before the handlers are registered there is no request on its way.
LEMMA StartUpCalm ==
  ASSUME IInv, CalmInv, initNetIDAllocator \/ watchNamespaces \/ watchNetNamespaces
  PROVE  CalmInv' /\ netns' = netns
<1>0. /\ phase # "running" /\ phase' # "synced"
      /\ netns' = netns /\ netnsCache' = netnsCache /\ netnsEvents' = netnsEvents
      /\ nsEvents' = nsEvents
  BY DEF initNetIDAllocator, watchNamespaces, watchNetNamespaces, nsInformer, netnsInformer
<1>1. nsEvents = <<>> /\ NoAsks(netnsEvents)
  BY <1>0, Zenon DEF CalmInv, OneNamespaceEvent, OneRequest, AllReplayed
<1>2. OneNamespaceEvent' /\ OneRequest'
  BY <1>0, <1>1, Zenon DEF OneNamespaceEvent, OneRequest, NoAsks, Asks
<1>3. CachedAreCurrent'
  BY <1>0 DEF CalmInv, CachedAreCurrent, Asks
<1>4. StoredAsk' /\ Follows(netnsCache', netnsEvents', netns')
  BY <1>0 DEF CalmInv, StoredAsk, Exists, Asks
<1>5. Agreement'
  <2>1. CASE initNetIDAllocator
    <3>1. vmap \in VNIDMap
      BY CalmTypes DEF OpInv
    <3>2. vmap'.ids = [n \in Namespaces |-> netns[n].netid]
      BY <2>1, <3>1 DEF initNetIDAllocator, markAllocatedNetID, VNIDMap
    <3> QED
      BY <1>0, <3>2 DEF Agreement
  <2>2. CASE watchNamespaces \/ watchNetNamespaces
    <3>1. vmap' = vmap /\ phase # "synced"
      BY <2>2 DEF watchNamespaces, watchNetNamespaces
    <3> QED
      BY <1>0, <3>1 DEF CalmInv, Agreement, Asks
  <2> QED
    BY <2>1, <2>2
<1> QED
  BY <1>0, <1>2, <1>3, <1>4, <1>5, Zenon DEF CalmInv

\* The caches follow the API server.
LEMMA CachesCalm ==
  ASSUME IInv, CalmInv, syncNamespaceCache \/ syncNetNamespaceCache
  PROVE  CalmInv' /\ netns' = netns
<1>1. CASE syncNamespaceCache
  BY <1>1 DEF syncNamespaceCache, CalmInv, OneNamespaceEvent, AllReplayed
<1>2. CASE syncNetNamespaceCache
  <2> DEFINE m == Head(netnsEvents).ns
             obj == Head(netnsEvents).obj
             rest == Tail(netnsEvents)
             cache == [netnsCache EXCEPT ![m] = obj]
  <2>0. /\ phase # "running" /\ phase' = phase /\ netns' = netns /\ vmap' = vmap
        /\ nsEvents' = nsEvents /\ netnsEvents # <<>>
        /\ netnsEvents' = rest /\ netnsCache' = cache
    BY <1>2 DEF syncNetNamespaceCache, nsInformer
  <2>1. /\ netnsEvents \in Seq(AskedEvent) /\ netnsCache \in [Namespaces -> NetNamespace]
        /\ Follows(netnsCache, netnsEvents, netns)
    BY CalmTypes, Zenon DEF CalmInv
  <2>2. m \in Namespaces
    <3>1. Head(netnsEvents) \in AskedEvent
      BY <2>0, <2>1, HeadAndTail, Zenon
    <3> QED
      BY <3>1 DEF AskedEvent
  <2>3. Follows(cache, rest, netns)
    BY <2>0, <2>1, <2>2, FollowsTaken, Zenon
  <2>4. nsEvents = <<>> /\ NoAsks(netnsEvents)
    BY <2>0, Zenon DEF CalmInv, OneNamespaceEvent, OneRequest, AllReplayed
  <2>5. NoAsks(rest) /\ ~Asks(obj)
    BY <2>0, <2>1, <2>4 DEF NoAsks
  <2>6. \A k \in Namespaces : cache[k] = IF k = m THEN obj ELSE netnsCache[k]
    BY <2>1, <2>2
  <2> HIDE DEF m, obj, rest, cache
  <2>7. OneNamespaceEvent' /\ OneRequest'
    BY <2>0, <2>4, <2>5 DEF OneNamespaceEvent, OneRequest, NoAsks, Asks
  <2>8. CachedAreCurrent'
    BY <2>0, <2>5, <2>6 DEF CalmInv, CachedAreCurrent, Asks
  <2>9. StoredAsk' /\ (phase' # "synced" => Agreement')
    BY <2>0 DEF CalmInv, StoredAsk, Agreement, Exists, Asks
  <2> QED
    BY <2>0, <2>3, <2>7, <2>8, <2>9 DEF CalmInv
<1> QED
  BY <1>1, <1>2

\* A resync waits until the master has caught up.
LEMMA ResyncCalm ==
  ASSUME CalmFaults, IInv, CalmInv, resyncNamespaces \/ resyncNetNamespaces
  PROVE  CalmInv' /\ netns' = netns
<1>0. /\ CaughtUp /\ phase' = phase /\ vmap' = vmap /\ netns' = netns
      /\ nsEvents' = nsEvents /\ netnsCache' = netnsCache /\ netnsEvents' = netnsEvents
  BY DEF resyncNamespaces, resyncNetNamespaces, CalmFaults, master, nsInformer, netnsInformer
<1>1. phase = "running" /\ nsEvents = <<>> /\ netnsEvents = <<>>
  BY <1>0 DEF CaughtUp
<1>2. OneNamespaceEvent' /\ OneRequest'
  BY <1>0, <1>1 DEF OneNamespaceEvent, OneRequest, NoAsks
<1>3. CachedAreCurrent'
  <2>1. Follows(netnsCache, <<>>, netns)
    BY <1>1 DEF CalmInv
  <2>2. \A n \in Namespaces : netnsCache[n] = netns[n]
    BY <2>1, FollowsEmpty, Zenon
  <2> QED
    BY <1>0, <2>2 DEF CachedAreCurrent
<1>4. StoredAsk' /\ Agreement'
  BY <1>0, <1>1 DEF CalmInv, StoredAsk, Agreement, Exists, Asks
<1> QED
  BY <1>0, <1>2, <1>3, <1>4 DEF CalmInv

\* So do the users, who make one event.
LEMMA UsersCalm ==
  ASSUME CalmFaults, IInv, CalmInv, NEW n \in Namespaces,
         CreateNamespace(n) \/ DeleteNamespace(n)
  PROVE  CalmInv' /\ netns' = netns
<1>0. /\ CaughtUp /\ phase' = phase /\ vmap' = vmap /\ netns' = netns
      /\ nsReplay' = nsReplay /\ netnsReplay' = netnsReplay
      /\ netnsCache' = netnsCache /\ netnsEvents' = netnsEvents
  BY DEF CreateNamespace, DeleteNamespace, UserActs, CalmFaults, master, netnsInformer
<1>1. /\ AllReplayed /\ nsEvents = <<>> /\ netnsEvents = <<>>
  BY <1>0 DEF CaughtUp, AllReplayed
<1>2. \/ nsEvents' = <<[type |-> "add", ns |-> n]>>
      \/ nsEvents' = <<[type |-> "delete", ns |-> n]>> /\ n # Default
  BY <1>1 DEF CreateNamespace, DeleteNamespace
<1>3. OneNamespaceEvent' /\ OneRequest'
  BY <1>0, <1>1, <1>2 DEF OneNamespaceEvent, OneRequest, NoAsks, AllReplayed
<1>4. CachedAreCurrent'
  BY <1>0, <1>1, Zenon DEF CachedAreCurrent, AllReplayed
<1>5. StoredAsk' /\ Agreement'
  BY <1>0, <1>1 DEF CalmInv, StoredAsk, Agreement, Exists, Asks, AllReplayed
<1> QED
  BY <1>0, <1>3, <1>4, <1>5 DEF CalmInv

\* And the administrators, who leave the VNID alone.
LEMMA AnnotateCalm ==
  ASSUME CalmFaults, IInv, CalmInv, NEW n \in Namespaces, NEW r \in Requests[n],
         AnnotateNetNamespace(n, r)
  PROVE  CalmInv' /\ \A k \in Namespaces : netns'[k].netid = netns[k].netid
<1> DEFINE obj == [netid |-> netns[n].netid, request |-> r, version |-> netns[n].version + 1]
<1>0. /\ CaughtUp /\ phase' = phase /\ vmap' = vmap /\ Exists(n)
      /\ nsReplay' = nsReplay /\ netnsReplay' = netnsReplay
      /\ netnsCache' = netnsCache /\ nsEvents' = nsEvents
  BY DEF AnnotateNetNamespace, UserActs, CalmFaults, master, nsInformer
<1>1. AllReplayed /\ nsEvents = <<>> /\ netnsEvents = <<>>
  BY <1>0 DEF CaughtUp, AllReplayed
<1>2. Write(n, netns[n].netid, r, netnsEvents)
  BY Zenon DEF AnnotateNetNamespace
<1>3. /\ netns' = [netns EXCEPT ![n] = obj]
      /\ netnsEvents' = Append(netnsEvents, [ns |-> n, obj |-> obj])
  BY <1>2, Zenon DEF Write
<1>4. netns \in [Namespaces -> NetNamespace] /\ netnsEvents \in Seq(AskedEvent)
  BY CalmTypes DEF OpInv, StoreInv
<1>5. r \in Request /\ r # NoRequest /\ r \in Asked(n)
  <2>1. r \in Request /\ r \in Asked(n)
    BY DEF Asked
  <2>2. r.action # "none" /\ NoRequest.action = "none"
    BY <2>1 DEF Request, PodNetworkAction, NoRequest
  <2> QED
    BY <2>1, <2>2
<1>6. /\ obj.netid = netns[n].netid /\ obj \in NetNamespace /\ Asks(obj)
      /\ obj.request \in Asked(n)
  <2>1. netns[n].netid \in VNIDs \cup {NoVNID} /\ netns[n].version + 1 \in Nat
    BY <1>4 DEF NetNamespace
  <2> QED
    BY <1>5, <2>1 DEF NetNamespace, Asks
<1> HIDE DEF obj
<1>7. [ns |-> n, obj |-> obj] \in AskedEvent
  BY <1>6 DEF AskedEvent
<1>8. Follows(netnsCache, netnsEvents', netns')
  BY <1>3, <1>4, <1>7, FollowsStored, Zenon DEF CalmInv
<1>9. \A k \in Namespaces : netns'[k] = IF k = n THEN obj ELSE netns[k]
  BY <1>3, <1>4
<1>10. OneNamespaceEvent' /\ OneRequest'
  BY <1>0, <1>1, <1>3 DEF OneNamespaceEvent, OneRequest, AllReplayed
<1>11. CachedAreCurrent'
  BY <1>0, <1>1 DEF CachedAreCurrent, AllReplayed
<1>12. \A k \in Namespaces : netns'[k].netid = netns[k].netid
  BY <1>6, <1>9, Zenon
<1>13. \A k \in Namespaces : Asks(netns'[k]) => netns'[k].netid # NoVNID
  BY <1>0, <1>6, <1>9, <1>12, Zenon DEF CalmInv, StoredAsk, Exists
<1>14. \A k \in Namespaces : Asks(netns[k]) => Asks(netns'[k])
  BY <1>6, <1>9, Zenon
<1>15. StoredAsk' /\ Agreement'
  BY <1>0, <1>1, <1>12, <1>13, <1>14
     DEF CalmInv, StoredAsk, Agreement, Exists, AllReplayed, Asks
<1> QED
  BY <1>0, <1>8, <1>10, <1>11, <1>12, <1>15 DEF CalmInv

\* A new master begins with the stored objects in its caches.
LEMMA RestartCalm ==
  ASSUME IInv, CalmInv, Restart
  PROVE  CalmInv' /\ netns' = netns
<1>0. /\ phase' = "synced" /\ nsEvents' = <<>> /\ netns' = netns
      /\ netnsCache' = netns /\ netnsEvents' = <<>>
  BY DEF Restart
<1>1. Follows(netnsCache', netnsEvents', netns')
  BY <1>0, FollowsFresh, Zenon
<1>2. OneNamespaceEvent' /\ OneRequest'
  BY <1>0 DEF OneNamespaceEvent, OneRequest, NoAsks
<1>3. CachedAreCurrent'
  BY <1>0 DEF CachedAreCurrent
<1>4. StoredAsk'
  BY <1>0 DEF CalmInv, StoredAsk, Exists, Asks
<1> QED
  BY <1>0, <1>1, <1>2, <1>3, <1>4 DEF CalmInv

\* So does the first one, when nothing is stored.
LEMMA InitIsCalm == Init => CalmInv
<1> SUFFICES ASSUME Init
             PROVE  CalmInv
  OBVIOUS
<1>1. /\ phase = "synced" /\ nsEvents = <<>> /\ netnsEvents = <<>> /\ netnsCache = netns
      /\ \A n \in Namespaces : ~Asks(netns[n])
  BY DEF Init, Asks
<1>2. Follows(netnsCache, netnsEvents, netns)
  BY <1>1, FollowsFresh, Zenon
<1> QED
  BY <1>1, <1>2 DEF CalmInv, OneNamespaceEvent, OneRequest, NoAsks, CachedAreCurrent, StoredAsk

MasterActs == phase # "synced" /\ \E n \in Namespaces : \E pending : Effect(n, pending)

SameVNIDs == \A n \in Namespaces : netns'[n].netid = netns[n].netid

\* A step of the master's own, of which the effect is known, or one that changes
\* no stored VNID.
LEMMA CalmStep ==
  ASSUME CalmFaults, IInv, CalmInv, [Next]_vars
  PROVE  /\ CalmInv'
         /\ MasterActs \/ SameVNIDs
<1>1. CASE initNetIDAllocator \/ watchNamespaces \/ watchNetNamespaces
  BY <1>1, StartUpCalm, Zenon DEF SameVNIDs
<1>2. CASE syncNamespaceCache \/ syncNetNamespaceCache
  BY <1>2, CachesCalm, Zenon DEF SameVNIDs
<1>3. CASE resyncNamespaces \/ resyncNetNamespaces
  BY <1>3, ResyncCalm, Zenon DEF SameVNIDs
<1>4. CASE Restart
  BY <1>4, RestartCalm, Zenon DEF SameVNIDs
<1>5. ASSUME NEW n \in Namespaces, replayNamespace(n)
      PROVE  CalmInv' /\ MasterActs
  BY <1>5, ReplayNamespaceCalm, Zenon DEF MasterActs
<1>6. ASSUME NEW n \in Namespaces, handleAddOrUpdateNamespace(n) \/ handleDeleteNamespace(n)
      PROVE  CalmInv' /\ MasterActs
  BY <1>6, NamespaceEventCalm, Zenon DEF MasterActs
<1>7. ASSUME NEW n \in Namespaces, replayNetNamespace(n)
      PROVE  CalmInv' /\ MasterActs
  BY <1>7, ReplayNetNamespaceCalm, Zenon DEF MasterActs
<1>8. ASSUME NEW n \in Namespaces, handleAddOrUpdateNetNamespace(n)
      PROVE  CalmInv' /\ MasterActs
  BY <1>8, NetNamespaceEventCalm, Zenon DEF MasterActs
<1>9. ASSUME NEW n \in Namespaces, CreateNamespace(n) \/ DeleteNamespace(n)
      PROVE  CalmInv' /\ SameVNIDs
  BY <1>9, UsersCalm, Zenon DEF SameVNIDs
<1>10. ASSUME NEW n \in Namespaces, NEW r \in Requests[n], AnnotateNetNamespace(n, r)
       PROVE  CalmInv' /\ SameVNIDs
  BY <1>10, AnnotateCalm, ZenonT(40) DEF SameVNIDs
<1>11. CASE UNCHANGED vars
  <2>1. UNCHANGED <<vmap, phase, netns, nsEvents, nsReplay, netnsCache, netnsEvents, netnsReplay>>
    BY <1>11 DEF vars, master, nsInformer, netnsInformer
  <2> QED
    BY <2>1 DEF CalmInv, OneNamespaceEvent, OneRequest, NoAsks, CachedAreCurrent, StoredAsk,
                Agreement, AllReplayed, Exists, Asks, SameVNIDs
<1> QED
  BY <1>1, <1>2, <1>3, <1>4, <1>5, <1>6, <1>7, <1>8, <1>9, <1>10, <1>11, Zenon DEF Next

\* When the master is calm and a write that is reported as failed was not done,
\* masterVNIDMap and the stored NetNamespaces differ only about a namespace whose
\* request updateVNID has still to carry out.
THEOREM CalmDivergence ==
  NoSelfJoin /\ CalmFaults => (Spec => []DivergenceIsPending)
<1> SUFFICES ASSUME NoSelfJoin, CalmFaults
             PROVE  Spec => []DivergenceIsPending
  OBVIOUS
<1>1. IInv /\ CalmInv /\ [Next]_vars => CalmInv'
  BY CalmStep, Zenon
<1>2. CalmInv => DivergenceIsPending
  BY DEF CalmInv, Agreement, Asks, DivergenceIsPending
<1>3. Spec => []IInv
  BY Invariance
<1> QED
  BY <1>1, <1>2, <1>3, InitIsCalm, PTL DEF Spec

-----------------------------------------------------------------------------
(***************************************************************************)
(* The stored NetNamespaces are an assignment of VNIDs, as VNIDAssignment  *)
(* defines it.                                                             *)
(***************************************************************************)
NetIDs == [n \in Namespaces |-> netns[n].netid]

MapIsStored == \A n \in Namespaces : vmap.ids[n] = netns[n].netid

\* A free VNID is in no stored NetNamespace either, if the map and the store
\* agree.
LEMMA FreeIsUnused ==
  ASSUME vmap \in VNIDMap, Matches(vmap), NEW id \in Free(vmap),
         MapIsStored
  PROVE  id \in Assignment!Unused
<1>1. id \in MinVNID .. MaxVNID /\ id \notin InUse(vmap) /\ id \notin {NoVNID, GlobalVNID}
  BY DEF Matches, Free, NetIDRange, NoVNID, GlobalVNID
<1>2. \A k \in Namespaces : NetIDs[k] # id
  <2>1. \A k \in Namespaces : vmap.ids[k] # id
    BY <1>1, Zenon DEF InUse
  <2> QED
    BY <2>1, Zenon DEF NetIDs, MapIsStored
<1> QED
  BY <1>1, <1>2, Zenon DEF Assignment!Unused, NetIDs

\* Each VNID that n may be stored with is one that the assignment allows.
LEMMA MoveIsAssignment ==
  ASSUME OpInv, NEW n \in Namespaces, NEW pending, Moves(n, pending),
         MapIsStored
  PROVE  Assignment!Next \/ NetIDs' = NetIDs
<1>0. netns \in [Namespaces -> NetNamespace] /\ vmap \in VNIDMap /\ Matches(vmap)
  BY DEF OpInv, StoreInv
<1>1. PICK id : Allowed(n, id) /\ Stored(n, id, pending)
  BY Zenon DEF Moves
<1>2. PICK obj \in NetNamespace : obj.netid = id /\ netns' = [netns EXCEPT ![n] = obj]
  BY <1>1, Zenon DEF Stored
<1>3. NetIDs' = [NetIDs EXCEPT ![n] = id]
  <2>1. \A k \in Namespaces : netns'[k].netid = IF k = n THEN id ELSE netns[k].netid
    BY <1>0, <1>2
  <2> DEFINE f == NetIDs
             g == NetIDs'
  <2>2. /\ f \in [Namespaces -> VNIDs \cup {NoVNID}]
        /\ g \in [Namespaces -> VNIDs \cup {NoVNID}]
    <3>1. \A k \in Namespaces : /\ netns[k].netid \in VNIDs \cup {NoVNID}
                                /\ netns'[k].netid \in VNIDs \cup {NoVNID}
      BY <1>0, <1>2, <2>1 DEF NetNamespace
    <3> QED
      BY <3>1, Zenon DEF NetIDs
  <2>3. \A k \in Namespaces : g[k] = IF k = n THEN id ELSE f[k]
    BY <2>1, Zenon DEF NetIDs
  <2> HIDE DEF f, g
  <2>4. g = [f EXCEPT ![n] = id]
    BY <2>2, <2>3
  <2> QED
    BY <2>4 DEF f, g
<1>4. Assignment!Renumbered(n, id)
  BY <1>3, Zenon DEF Assignment!Renumbered, NetIDs
<1>5. \A k \in Namespaces : NetIDs[k] = netns[k].netid
  BY Zenon DEF NetIDs
<1>6. \A k \in Namespaces : Assignment!Has(k) <=> Exists(k)
  <2>1. Assignment!NoVNID = NoVNID
    BY DEF Assignment!NoVNID, NoVNID
  <2> QED
    BY <1>5, <2>1, Zenon DEF Assignment!Has, Exists, NetIDs
<1>7. \A x \in Free(vmap) : x \in Assignment!Unused /\ x \in MinVNID .. MaxVNID
  BY <1>0, FreeIsUnused DEF Free, NetIDRange
<1>8. CASE id = netns[n].netid
  <2> DEFINE f == NetIDs
  <2>1. f \in [Namespaces -> VNIDs \cup {NoVNID}] /\ f[n] = id
    <3>1. \A k \in Namespaces : netns[k].netid \in VNIDs \cup {NoVNID}
      BY <1>0 DEF NetNamespace
    <3> QED
      BY <1>8, <3>1, Zenon DEF NetIDs
  <2> HIDE DEF f
  <2>2. [f EXCEPT ![n] = id] = f
    BY <2>1
  <2> QED
    BY <1>3, <2>2 DEF f
<1>9. CASE ~Exists(n) /\ id \in NewNetIDs(n)
  <2>1. CASE n = Default
    <3>1. id = GlobalVNID
      BY <1>9, <2>1 DEF NewNetIDs, isAdminNamespace
    <3>2. Assignment!Assign(n, id) /\ id \in {Assignment!GlobalVNID}
      BY <1>4, <1>6, <1>9, <2>1, <3>1
         DEF Assignment!Assign, Assignment!GlobalVNID, GlobalVNID
    <3> QED
      BY <3>2 DEF Assignment!Next
  <2>2. CASE n # Default
    <3>1. id \in Free(vmap)
      BY <1>9, <2>2 DEF NewNetIDs, isAdminNamespace
    <3>2. Assignment!Assign(n, id) /\ id \in MinVNID .. MaxVNID
      BY <1>4, <1>6, <1>7, <1>9, <2>2, <3>1 DEF Assignment!Assign
    <3> QED
      BY <3>2 DEF Assignment!Next
  <2> QED
    BY <2>1, <2>2
<1>10. CASE Exists(n) /\ id = GlobalVNID
  <2>1. Assignment!MakeGlobal(n)
    BY <1>4, <1>6, <1>10 DEF Assignment!MakeGlobal, Assignment!GlobalVNID, GlobalVNID
  <2> QED
    BY <2>1 DEF Assignment!Next
<1>11. CASE Exists(n) /\ n # Default /\ id = NoVNID
  <2>1. Assignment!Revoke(n)
    BY <1>4, <1>6, <1>11 DEF Assignment!Revoke, Assignment!NoVNID, NoVNID
  <2> QED
    BY <2>1 DEF Assignment!Next
<1>12. CASE Exists(n) /\ n # Default /\ id \in Free(vmap)
  <2>1. Assignment!Isolate(n, id) /\ id \in MinVNID .. MaxVNID
    BY <1>4, <1>6, <1>7, <1>12 DEF Assignment!Isolate
  <2> QED
    BY <2>1 DEF Assignment!Next
<1>13. CASE Exists(n) /\ \E k \in Namespaces : Found(vmap, k) /\ id = vmap.ids[k]
  <2>1. PICK k \in Namespaces : Found(vmap, k) /\ id = vmap.ids[k]
    BY <1>13
  <2>2. Exists(k) /\ id = NetIDs[k]
    BY <1>5, <2>1, Zenon DEF Found, Exists, MapIsStored
  <2>3. Assignment!Has(n) /\ Assignment!Has(k)
    BY <1>6, <1>13, <2>2, Zenon
  <2>4. id = [m \in Namespaces |-> netns[m].netid][k]
    BY <2>2, Zenon DEF NetIDs
  <2>5. Assignment!Join(n, k)
    BY <1>3, <2>3, <2>4, Zenon DEF Assignment!Join, Assignment!Renumbered, NetIDs
  <2> QED
    BY <2>5 DEF Assignment!Next
<1> QED
  BY <1>1, <1>8, <1>9, <1>10, <1>11, <1>12, <1>13 DEF Allowed

\* A step of a calm master, of which no write fails, is one of the assignment or
\* leaves it alone.
LEMMA StepIsAssignment ==
  ASSUME CalmFaults, Faults = {}, IInv, CalmInv, [Next]_vars
  PROVE  Assignment!Next \/ NetIDs' = NetIDs
<1>1. CASE SameVNIDs
  BY <1>1 DEF SameVNIDs, NetIDs
<1>2. CASE MasterActs
  <2>1. PICK n \in Namespaces : \E pending : Effect(n, pending)
    BY <1>2, Zenon DEF MasterActs
  <2>2. PICK pending : Effect(n, pending)
    BY <2>1, Zenon
  <2>3. MapIsStored
    BY <1>2 DEF MasterActs, CalmInv, Agreement, MapIsStored
  <2>4. CASE Moves(n, pending)
    BY <2>3, <2>4, CalmTypes, MoveIsAssignment, Zenon
  <2>5. CASE Leaves(n, pending)
    BY <2>5 DEF Leaves, NoWrite, NetIDs
  <2> QED
    BY <2>2, <2>4, <2>5, Zenon DEF Effect
<1> QED
  BY <1>1, <1>2, CalmStep, Zenon

\* Whatever the map, the allocator and the informers do, restarts included, each
\* write of a NetNamespace is one that VNIDAssignment allows: a calm master whose
\* writes do not fail implements it.
THEOREM AssignmentImplemented ==
  NoSelfJoin /\ Calm /\ Faults = {} => (Spec => AssignmentSpec)
<1> SUFFICES ASSUME NoSelfJoin, Calm, Faults = {}
             PROVE  Spec => AssignmentSpec
  OBVIOUS
<1>0. CalmFaults
  BY DEF CalmFaults
<1>1. IInv /\ CalmInv /\ [Next]_vars => CalmInv'
  BY <1>0, CalmStep, Zenon
<1>2. Init => Assignment!Init
  BY DEF Init, Assignment!Init, Assignment!NoVNID, NoVNID
<1>3. IInv /\ CalmInv /\ [Next]_vars
        => [Assignment!Next]_[n \in Namespaces |-> netns[n].netid]
  BY <1>0, StepIsAssignment DEF NetIDs
<1>4. Spec => []IInv
  BY Invariance
<1> QED
  BY <1>1, <1>2, <1>3, <1>4, InitIsCalm, PTL DEF Spec, AssignmentSpec, Assignment!Spec

=============================================================================
