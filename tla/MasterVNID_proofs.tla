------------------------- MODULE MasterVNID_proofs --------------------------
(***************************************************************************)
(* Proofs about MasterVNID, for every set of namespaces, range of VNIDs    *)
(* and number of faults, restarts and user actions.                        *)
(***************************************************************************)
EXTENDS MasterVNID, TLAPS

\* Time enough for a leaf on a slow or busy machine.
USE SMTT(60)

USE RangeAssumption, NamespacesAssumption, RequestsAssumption, ModeAssumption,
    BoundsAssumption

-----------------------------------------------------------------------------
(***************************************************************************)
(* The operations of masterVNIDMap: each keeps the bitmap equal to the     *)
(* VNIDs in use.                                                           *)
(***************************************************************************)
Matches(m) == m.allocated = InUse(m)

\* What it means that n alone has a VNID of the allocator's range.
SoleHolder(m, n) ==
  /\ m.ids[n] \notin {NoVNID, GlobalVNID}
  /\ \A k \in Namespaces \ {n} : m.ids[k] # m.ids[n]

\* releaseNetID unsets the VNID of n and frees it when nobody else has it.
LEMMA ReleaseShape ==
  ASSUME NEW m \in VNIDMap, NEW n \in Namespaces
  PROVE  /\ releaseNetID(m, n) \in VNIDMap
         /\ releaseNetID(m, n).ids = [m.ids EXCEPT ![n] = NoVNID]
         /\ releaseNetID(m, n).allocated =
              IF SoleHolder(m, n) THEN m.allocated \ {m.ids[n]} ELSE m.allocated
         /\ releaseNetID(m, n).allowRenumbering = m.allowRenumbering
<1> DEFINE unset == setVNID(m, n, NoVNID)
<1>1. /\ unset \in VNIDMap
      /\ unset.ids = [m.ids EXCEPT ![n] = NoVNID]
      /\ unset.allocated = m.allocated
      /\ unset.allowRenumbering = m.allowRenumbering
  BY DEF setVNID, VNIDMap, NoVNID
<1>2. HoldersOf(unset, m.ids[n]) = {} <=> \A k \in Namespaces : unset.ids[k] # m.ids[n]
  BY Zenon DEF HoldersOf
<1>3. m.ids[n] # GlobalVNID /\ HoldersOf(unset, m.ids[n]) = {} <=> SoleHolder(m, n)
  BY <1>1, <1>2 DEF SoleHolder, VNIDMap
<1>4. CASE SoleHolder(m, n)
  <2>1. releaseNetID(m, n) = Release(unset, m.ids[n])
    BY <1>3, <1>4 DEF releaseNetID
  <2> HIDE DEF unset
  <2> QED
    BY <1>1, <1>4, <2>1 DEF Release, VNIDMap
<1>5. CASE ~SoleHolder(m, n)
  <2>1. releaseNetID(m, n) = unset
    BY <1>3, <1>5 DEF releaseNetID
  <2> HIDE DEF unset
  <2> QED
    BY <1>1, <1>5, <2>1
<1> QED
  BY <1>4, <1>5

\* releaseNetID keeps the allocator in step with the map.
LEMMA ReleaseMatches ==
  ASSUME NEW m \in VNIDMap, NEW n \in Namespaces, Matches(m)
  PROVE  Matches(releaseNetID(m, n))
<1> DEFINE r == releaseNetID(m, n)
<1>1. /\ r \in VNIDMap
      /\ r.ids = [m.ids EXCEPT ![n] = NoVNID]
      /\ r.allocated = IF SoleHolder(m, n) THEN m.allocated \ {m.ids[n]} ELSE m.allocated
  BY ReleaseShape
<1> HIDE DEF r
<1>2. ASSUME NEW id PROVE id \in InUse(r) <=> id \in r.allocated
  BY <1>1, m.allocated = InUse(m) DEF Matches, InUse, SoleHolder, VNIDMap
<1> QED
  BY ZenonT(30), <1>2 DEF Matches, r

\* Giving n the global VNID, or that of another namespace, keeps them in step.
LEMMA RenumberMatches ==
  ASSUME NEW m \in VNIDMap, NEW n \in Namespaces, Matches(m), NEW id \in VNIDs,
         id = GlobalVNID \/ \E k \in Namespaces \ {n} : m.ids[k] = id
  PROVE  Renumber(m, n, id) \in VNIDMap /\ Matches(Renumber(m, n, id))
<1> DEFINE r == releaseNetID(m, n)
<1>1. r \in VNIDMap /\ Matches(r) /\ r.ids = [m.ids EXCEPT ![n] = NoVNID]
  BY ZenonT(30), ReleaseShape, ReleaseMatches
<1> HIDE DEF r
<1>2. id = GlobalVNID \/ id \in InUse(r)
  BY <1>1 DEF InUse, VNIDMap, VNIDs, NetIDRange, NoVNID, GlobalVNID
<1> DEFINE s == setVNID(r, n, id)
<1>3. s \in VNIDMap /\ s.ids = [r.ids EXCEPT ![n] = id] /\ s.allocated = r.allocated
  BY <1>1 DEF setVNID, VNIDMap
<1> HIDE DEF s
<1>4. r.ids[n] = NoVNID
  BY <1>1 DEF VNIDMap
<1>5. InUse(s) = InUse(r)
  BY <1>1, <1>2, <1>3, <1>4 DEF InUse, VNIDMap
<1> QED
  BY <1>1, <1>3, <1>5 DEF Matches, Renumber, r, s

\* Giving n a VNID that nobody has, and marking it, keeps them in step.
LEMMA FreshMatches ==
  ASSUME NEW m \in VNIDMap, NEW n \in Namespaces, Matches(m), NEW id \in Free(m)
  PROVE  /\ Renumber(Allocate(m, id), n, id) \in VNIDMap
         /\ Matches(Renumber(Allocate(m, id), n, id))
<1> DEFINE a == Allocate(m, id)
<1>1. /\ a \in VNIDMap /\ a.ids = m.ids /\ a.allocated = m.allocated \cup {id}
      /\ id \in NetIDRange /\ id \notin InUse(m)
  BY DEF Allocate, Free, VNIDMap, Matches
<1> HIDE DEF a
<1>2. id \notin {NoVNID, GlobalVNID} /\ id \in VNIDs
  BY <1>1 DEF NetIDRange, VNIDs, NoVNID, GlobalVNID
<1>3. \A k \in Namespaces : m.ids[k] # id
  BY <1>1, <1>2 DEF InUse
<1> DEFINE r == releaseNetID(a, n)
<1>10. /\ r \in VNIDMap
      /\ r.ids = [a.ids EXCEPT ![n] = NoVNID]
      /\ r.allocated = IF SoleHolder(a, n) THEN a.allocated \ {a.ids[n]} ELSE a.allocated
  BY ZenonT(30), <1>1, ReleaseShape
<1> HIDE DEF r
<1>4. /\ r \in VNIDMap
      /\ r.ids = [m.ids EXCEPT ![n] = NoVNID]
      /\ r.allocated = IF SoleHolder(a, n) THEN a.allocated \ {m.ids[n]} ELSE a.allocated
  BY <1>1, <1>10
<1> DEFINE s == setVNID(r, n, id)
<1>5. s \in VNIDMap /\ s.ids = [r.ids EXCEPT ![n] = id] /\ s.allocated = r.allocated
  BY <1>2, <1>4 DEF setVNID, VNIDMap
<1> HIDE DEF s
<1>6. s.ids = [m.ids EXCEPT ![n] = id]
  BY <1>4, <1>5 DEF VNIDMap
<1>7. SoleHolder(a, n) <=> SoleHolder(m, n)
  BY <1>1 DEF SoleHolder
<1>8. s.allocated = (IF SoleHolder(m, n) THEN m.allocated \ {m.ids[n]} ELSE m.allocated)
                      \cup {id}
  BY <1>1, <1>3, <1>4, <1>5, <1>7
<1>9. ASSUME NEW x PROVE x \in InUse(s) <=> x \in s.allocated
  BY <1>2, <1>3, <1>6, <1>8, m.allocated = InUse(m)
     DEF Matches, InUse, SoleHolder, VNIDMap
<1> QED
  BY ZenonT(30), <1>5, <1>9 DEF Matches, Renumber, a, r, s

\* Every value updateNetID may leave is a map in step with its allocator,
\* provided that n is not asked to join itself.
LEMMA UpdateMatches ==
  ASSUME NEW m \in VNIDMap, NEW n \in Namespaces, Matches(m), NEW r \in Request,
         ~(r.action = "join" /\ r.args = n), NEW m2 \in updateNetID(m, n, r)
  PROVE  m2 \in VNIDMap /\ Matches(m2)
<1>1. r.args \in Namespaces
  BY DEF Request
<1>2. CASE Found(m, n) /\ r.action = "global"
  <2>1. m2 = Renumber(m, n, GlobalVNID)
    BY <1>2 DEF updateNetID
  <2> QED
    BY <2>1, RenumberMatches DEF VNIDs
<1>3. CASE Found(m, n) /\ r.action = "join" /\ Found(m, r.args)
  <2>1. m2 = Renumber(m, n, m.ids[r.args])
    BY <1>3 DEF updateNetID
  <2>2. m.ids[r.args] \in VNIDs
    BY <1>1, <1>3 DEF Found, VNIDMap
  <2> QED
    BY <1>1, <1>3, <2>1, <2>2, RenumberMatches
<1>4. CASE Found(m, n) /\ r.action = "isolate"
  <2>1. m2 \in isolatePodNetwork(m, n)
    BY <1>4 DEF updateNetID
  <2>2. m2 = m \/ \E id \in Free(m) : m2 = Renumber(Allocate(m, id), n, id)
    BY <2>1 DEF isolatePodNetwork
  <2> QED
    BY <2>2, FreshMatches
<1>5. CASE ~(Found(m, n) /\ r.action \in {"global", "isolate"})
           /\ ~(Found(m, n) /\ r.action = "join" /\ Found(m, r.args))
  BY <1>5 DEF updateNetID
<1> QED
  BY <1>2, <1>3, <1>4, <1>5

\* allocateNetID keeps them in step.
LEMMA AllocateMatches ==
  ASSUME NEW m \in VNIDMap, NEW n \in Namespaces, Matches(m), ~Found(m, n),
         NEW id, id \in IF isAdminNamespace(n) THEN {GlobalVNID} ELSE Free(m)
  PROVE  /\ allocateNetID(m, n, id) \in VNIDMap
         /\ Matches(allocateNetID(m, n, id))
<1>1. id \in VNIDs /\ id # NoVNID
  BY DEF Free, VNIDs, NetIDRange, NoVNID, GlobalVNID
<1>2. CASE isAdminNamespace(n)
  <2> DEFINE s == setVNID(m, n, GlobalVNID)
  <2>1. s \in VNIDMap /\ s.ids = [m.ids EXCEPT ![n] = GlobalVNID]
        /\ s.allocated = m.allocated
    BY DEF setVNID, VNIDMap, VNIDs
  <2> HIDE DEF s
  <2>2. InUse(s) = InUse(m)
    BY <2>1 DEF InUse, VNIDMap, Found
  <2> QED
    BY <1>2, <2>1, <2>2 DEF Matches, allocateNetID, s
<1>3. CASE ~isAdminNamespace(n)
  <2> DEFINE s == setVNID(Allocate(m, id), n, id)
  <2>1. s \in VNIDMap /\ s.ids = [m.ids EXCEPT ![n] = id]
        /\ s.allocated = m.allocated \cup {id}
    BY ZenonT(30), <1>1, <1>3 DEF setVNID, Allocate, Free, VNIDMap
  <2> HIDE DEF s
  <2>2. id \notin {NoVNID, GlobalVNID}
    BY <1>3 DEF Free, NetIDRange, NoVNID, GlobalVNID
  <2>3. InUse(s) = InUse(m) \cup {id}
    BY <2>1, <2>2 DEF InUse, VNIDMap, Found
  <2> QED
    BY ZenonT(30), <1>3, <2>1, <2>3 DEF Matches, allocateNetID, s
<1> QED
  BY <1>2, <1>3

-----------------------------------------------------------------------------
(***************************************************************************)
(* The inductive invariant.  Besides types and the allocator's agreement   *)
(* with the map it says that a new master starts with an empty bitmap, and *)
(* that the requests on stored, cached and travelling NetNamespaces are    *)
(* ones that administrators make (so that none is a namespace's request to *)
(* join itself, when they make none).                                      *)
(***************************************************************************)
Asked(n) == Requests[n] \cup {NoRequest}

AskedEvent ==
  {e \in [ns : Namespaces, obj : NetNamespace] : e.obj.request \in Asked(e.ns)}

IInv ==
  /\ TypeOK
  /\ AllocatorMatchesMap
  /\ phase = "synced" => vmap.allocated = {}
  /\ \A n \in Namespaces : /\ netns[n].request \in Asked(n)
                           /\ netnsCache[n].request \in Asked(n)
  /\ netnsEvents \in Seq(AskedEvent)

NoSelfJoin ==
  \A n \in Namespaces : \A r \in Requests[n] : ~(r.action = "join" /\ r.args = n)

\* The part of IInv that a write to the API server can disturb.
StoreInv ==
  /\ netns \in [Namespaces -> NetNamespace]
  /\ \A n \in Namespaces : netns[n].request \in Asked(n)
  /\ netnsEvents \in Seq(AskedEvent)

\* A write by the master or an administrator keeps StoreInv.
LEMMA WriteStore ==
  ASSUME StoreInv, NEW n \in Namespaces, NEW netid \in VNIDs \cup {NoVNID},
         NEW request \in Asked(n), NEW pending \in Seq(AskedEvent),
         Write(n, netid, request, pending)
  PROVE  StoreInv'
<1> DEFINE obj == [netid |-> netid, request |-> request, version |-> netns[n].version + 1]
<1>1. netns[n].version + 1 \in Nat
  BY DEF StoreInv, NetNamespace
<1>2. request \in Request \cup {NoRequest}
  BY DEF Asked
<1>3. obj \in NetNamespace /\ obj.request = request
  BY <1>1, <1>2 DEF NetNamespace
<1>4. /\ netns' = [netns EXCEPT ![n] = obj]
      /\ netnsEvents' = Append(pending, [ns |-> n, obj |-> obj])
  BY DEF Write
<1> HIDE DEF obj
<1>5. [ns |-> n, obj |-> obj] \in AskedEvent
  BY <1>3 DEF AskedEvent
<1> QED
  BY <1>3, <1>4, <1>5 DEF StoreInv

\* ... and so does an API call, whatever its outcome.
LEMMA CallStore ==
  ASSUME StoreInv, NEW o, NEW valid \in BOOLEAN, NEW n \in Namespaces,
         NEW netid \in VNIDs \cup {NoVNID}, NEW request \in Asked(n),
         NEW pending \in Seq(AskedEvent), budget \in [ops : Nat, faults : Nat, restarts : Nat],
         Call(o, valid, n, netid, request, pending)
  PROVE  StoreInv' /\ budget' \in [ops : Nat, faults : Nat, restarts : Nat]
<1>1. budget' \in [ops : Nat, faults : Nat, restarts : Nat]
  BY DEF Call, Outcome, Spend
<1>2. CASE Write(n, netid, request, pending)
  BY <1>1, <1>2, WriteStore
<1>3. CASE NoWrite(pending)
  BY <1>1, <1>3 DEF NoWrite, StoreInv
<1> QED
  BY <1>2, <1>3 DEF Call

Budget == [ops : Nat, faults : Nat, restarts : Nat]

\* What is spent was there.
LEMMA SpendKeepsBudget ==
  ASSUME budget \in Budget, NEW field \in {"ops", "faults", "restarts"}, Spend(field)
  PROVE  budget' \in Budget
<1>1. budget[field] \in Nat /\ budget[field] > 0
  BY DEF Budget, Spend
<1>2. budget[field] - 1 \in Nat
  BY <1>1
<1> QED
  BY <1>2 DEF Budget, Spend

\* What the three locked operations keep, of the variables they change.
OpInv == vmap \in VNIDMap /\ Matches(vmap) /\ StoreInv /\ budget \in Budget

\* assignVNID, a failed Create included, keeps the map, the bitmap and the store.
LEMMA AssignStep ==
  ASSUME OpInv, NEW n \in Namespaces, assignVNID(n)
  PROVE  OpInv'
<1>1. netnsEvents \in Seq(AskedEvent)
  BY DEF OpInv, StoreInv
<1>2. CASE NoWrite(netnsEvents) /\ UNCHANGED <<vmap, budget>>
  BY <1>1, <1>2 DEF OpInv, NoWrite, StoreInv, Matches, InUse
<1>3. CASE ~Found(vmap, n) /\ \E id \in NewNetIDs(n), o \in {"ok"} \cup Faults :
             /\ Call(o, ~Exists(n), n, id, NoRequest, netnsEvents)
             /\ vmap' = LET m == allocateNetID(vmap, n, id)
                        IN  IF Succeeds(o, ~Exists(n)) THEN m ELSE createFailed(m, n)
  <2>1. PICK id \in NewNetIDs(n), o \in {"ok"} \cup Faults :
             /\ Call(o, ~Exists(n), n, id, NoRequest, netnsEvents)
             /\ vmap' = LET m == allocateNetID(vmap, n, id)
                        IN  IF Succeeds(o, ~Exists(n)) THEN m ELSE createFailed(m, n)
    BY <1>3
  <2>2. id \in VNIDs
    BY DEF NewNetIDs, Free, VNIDs
  <2>3. NoRequest \in Asked(n)
    BY DEF Asked
  <2>4. StoreInv' /\ budget' \in Budget
    BY ZenonT(30), <1>1, <2>1, <2>2, <2>3, CallStore DEF OpInv, Budget, Exists
  <2> DEFINE m == allocateNetID(vmap, n, id)
  <2>5. m \in VNIDMap /\ Matches(m)
    BY <1>3, AllocateMatches DEF OpInv, NewNetIDs
  <2>6. vmap' = m \/ vmap' = releaseNetID(m, n)
    BY <2>1 DEF createFailed
  <2> HIDE DEF m
  <2>7. vmap' \in VNIDMap /\ Matches(vmap')
    BY ZenonT(30), <2>5, <2>6, ReleaseShape, ReleaseMatches
  <2>8. Matches(vmap') <=> Matches(vmap)'
    BY DEF Matches, InUse
  <2> QED
    BY <2>4, <2>7, <2>8 DEF OpInv
<1> QED
  BY <1>2, <1>3 DEF assignVNID

\* revokeVNID, a failed Delete included, keeps them.
LEMMA RevokeStep ==
  ASSUME OpInv, NEW n \in Namespaces, revokeVNID(n)
  PROVE  OpInv'
<1>1. PICK o \in {"ok"} \cup Faults :
        /\ Call(o, Exists(n), n, NoVNID, NoRequest, netnsEvents)
        /\ vmap' = IF Succeeds(o, Exists(n)) /\ Found(vmap, n)
                   THEN releaseNetID(vmap, n) ELSE vmap
  BY DEF revokeVNID
<1>2. NoRequest \in Asked(n) /\ netnsEvents \in Seq(AskedEvent)
  BY DEF Asked, OpInv, StoreInv
<1>3. StoreInv' /\ budget' \in Budget
  BY ZenonT(30), <1>1, <1>2, CallStore DEF OpInv, Budget, Exists
<1>4. vmap' = vmap \/ vmap' = releaseNetID(vmap, n)
  BY <1>1
<1>5. vmap' \in VNIDMap /\ Matches(vmap')
  BY ZenonT(30), <1>4, ReleaseShape, ReleaseMatches DEF OpInv
<1> QED
  BY <1>3, <1>5 DEF OpInv, Matches, InUse

\* updateVNID, for any copy of the object that an administrator could have
\* annotated, keeps them: a failed Update included.
LEMMA UpdateStep ==
  ASSUME OpInv, NoSelfJoin, NEW n \in Namespaces, NEW obj \in NetNamespace,
         obj.request \in Asked(n), NEW pending \in Seq(AskedEvent),
         updateVNID(n, obj, pending)
  PROVE  OpInv'
<1> DEFINE current == obj.version = netns[n].version
<1>1. NoRequest \in Asked(n) /\ obj.netid \in VNIDs \cup {NoVNID}
  BY DEF Asked, NetNamespace
<1>2. CASE NoWrite(pending) /\ UNCHANGED <<vmap, budget>>
  BY <1>2 DEF OpInv, NoWrite, StoreInv, Matches, InUse
<1>3. CASE /\ UNCHANGED vmap
           /\ \E o \in {"ok"} \cup Faults :
                Call(o, current, n, obj.netid, NoRequest, pending)
  <2>1. PICK o \in {"ok"} \cup Faults : Call(o, current, n, obj.netid, NoRequest, pending)
    BY <1>3
  <2>2. StoreInv' /\ budget' \in Budget
    BY ZenonT(30), <1>1, <2>1, CallStore DEF OpInv, Budget
  <2> QED
    BY <1>3, <2>2 DEF OpInv, Matches, InUse
<1>4. CASE /\ obj.request # NoRequest
           /\ vmap' \in updateNetID(vmap, n, obj.request)
           /\ \E o \in {"ok"} \cup Faults :
                Call(o, current, n, vmap'.ids[n], NoRequest, pending)
  <2>1. obj.request \in Requests[n] /\ obj.request \in Request
    BY <1>4 DEF Asked
  <2>2. ~(obj.request.action = "join" /\ obj.request.args = n)
    BY <2>1 DEF NoSelfJoin
  <2>3. vmap' \in VNIDMap /\ Matches(vmap')
    BY <1>4, <2>1, <2>2, UpdateMatches DEF OpInv
  <2>4. vmap'.ids[n] \in VNIDs \cup {NoVNID}
    BY <2>3 DEF VNIDMap
  <2>5. PICK o \in {"ok"} \cup Faults : Call(o, current, n, vmap'.ids[n], NoRequest, pending)
    BY <1>4, Zenon
  <2>6. StoreInv' /\ budget' \in Budget
    BY ZenonT(30), <1>1, <2>4, <2>5, CallStore DEF OpInv, Budget
  <2> QED
    BY <2>3, <2>6 DEF OpInv, Matches, InUse
<1> QED
  BY ZenonT(30), <1>2, <1>3, <1>4 DEF updateVNID

-----------------------------------------------------------------------------
(***************************************************************************)
(* Every step keeps IInv.                                                  *)
(***************************************************************************)

\* The part of IInv that the three locked operations leave alone.
RestInv ==
  /\ phase \in {"synced", "listed", "watchingNamespaces", "running"}
  /\ namespaces \subseteq Namespaces
  /\ nsCache \subseteq Namespaces /\ nsReplay \subseteq Namespaces
  /\ nsEvents \in Seq([type : {"add", "delete"}, ns : Namespaces])
  /\ netnsCache \in [Namespaces -> NetNamespace] /\ netnsReplay \subseteq Namespaces
  /\ \A n \in Namespaces : netnsCache[n].request \in Asked(n)

\* A queue of events of one kind is a queue of events.
LEMMA SeqOfSubset ==
  ASSUME NEW S, NEW T, S \subseteq T, NEW s \in Seq(S)
  PROVE  s \in Seq(T)
<1>1. Len(s) \in Nat /\ s \in [1 .. Len(s) -> S]
  OBVIOUS
<1>2. s \in [1 .. Len(s) -> T]
  BY <1>1
<1> QED
  BY <1>1, <1>2

\* What is taken from a queue of events, and what remains.
LEMMA HeadAndTail ==
  ASSUME NEW S, NEW s \in Seq(S), s # <<>>
  PROVE  Head(s) \in S /\ Tail(s) \in Seq(S)
OBVIOUS

\* The invariant is the two parts, and the empty bitmap of a starting master.
LEMMA Parts ==
  IInv <=> OpInv /\ RestInv /\ (phase = "synced" => vmap.allocated = {})
<1>1. AskedEvent \subseteq [ns : Namespaces, obj : NetNamespace]
  BY DEF AskedEvent
<1>2. netnsEvents \in Seq(AskedEvent) => netnsEvents \in Seq([ns : Namespaces, obj : NetNamespace])
  BY ZenonT(30), <1>1, SeqOfSubset
<1> QED
  BY <1>2 DEF IInv, OpInv, RestInv, StoreInv, TypeOK, AllocatorMatchesMap, Matches, Budget

\* The same of the next state.
LEMMA PartsPrime ==
  IInv' <=> OpInv' /\ RestInv' /\ (phase' = "synced" => vmap'.allocated = {})
<1>1. AskedEvent \subseteq [ns : Namespaces, obj : NetNamespace]
  BY DEF AskedEvent
<1>2. netnsEvents' \in Seq(AskedEvent)
        => netnsEvents' \in Seq([ns : Namespaces, obj : NetNamespace])
  BY ZenonT(30), <1>1, SeqOfSubset
<1> QED
  BY <1>2 DEF IInv, OpInv, RestInv, StoreInv, TypeOK, AllocatorMatchesMap, Matches, Budget

\* The three steps of start-up.
LEMMA StartUpKeepsIInv ==
  ASSUME IInv, initNetIDAllocator \/ watchNamespaces \/ watchNetNamespaces
  PROVE  IInv'
<1> USE DEF IInv, TypeOK
<1>1. CASE initNetIDAllocator
  <2> DEFINE ids == {netns[n].netid : n \in {n \in Namespaces : Exists(n)}}
             new == [n \in Namespaces |-> netns[n].netid]
  <2>1. new \in [Namespaces -> VNIDs \cup {NoVNID}]
    BY DEF NetNamespace
  <2>2. vmap.allocated = {} /\ vmap \in VNIDMap
    BY <1>1 DEF initNetIDAllocator
  <2>3. /\ vmap'.ids = new /\ vmap'.allocated = ids \cap NetIDRange
        /\ vmap' \in VNIDMap
    BY ZenonT(30), <1>1, <2>1, <2>2 DEF initNetIDAllocator, markAllocatedNetID, VNIDMap
  <2>4. \A n \in Namespaces : netns[n].netid \in NetIDRange \cup {GlobalVNID, NoVNID}
    BY Zenon DEF NetNamespace, VNIDs
  <2>5. GlobalVNID \notin NetIDRange /\ NoVNID \notin NetIDRange
    BY DEF GlobalVNID, NoVNID, NetIDRange
  <2>6. ids \cap NetIDRange = {netns[n].netid : n \in Namespaces} \ {NoVNID, GlobalVNID}
    BY <2>4, <2>5 DEF Exists
  <2>7. {new[n] : n \in Namespaces} = {netns[n].netid : n \in Namespaces}
    OBVIOUS
  <2>8. AllocatorMatchesMap'
    BY <2>3, <2>6, <2>7 DEF AllocatorMatchesMap, InUse
  <2> QED
    BY <1>1, <2>3, <2>8 DEF initNetIDAllocator, nsInformer, netnsInformer
<1>2. CASE watchNamespaces
  BY <1>2 DEF watchNamespaces, netnsInformer, AllocatorMatchesMap, InUse
<1>3. CASE watchNetNamespaces
  BY <1>3 DEF watchNetNamespaces, nsInformer, AllocatorMatchesMap, InUse
<1> QED
  BY <1>1, <1>2, <1>3, Zenon

\* What the informers do by themselves: their caches follow the API server, and
\* a resync queues the cache for the handler.
LEMMA InformersKeepIInv ==
  ASSUME IInv, \/ syncNamespaceCache \/ syncNetNamespaceCache
               \/ resyncNamespaces \/ resyncNetNamespaces
  PROVE  IInv'
<1>0. OpInv /\ RestInv /\ (phase = "synced" => vmap.allocated = {})
  BY Parts
<1> SUFFICES OpInv' /\ RestInv' /\ UNCHANGED <<vmap, phase>>
  BY <1>0, PartsPrime
<1>1. CASE syncNamespaceCache
  <2>1. /\ Head(nsEvents) \in [type : {"add", "delete"}, ns : Namespaces]
        /\ nsEvents' \in Seq([type : {"add", "delete"}, ns : Namespaces])
    BY ZenonT(30), <1>0, <1>1, HeadAndTail DEF syncNamespaceCache, RestInv
  <2>2. nsCache' \subseteq Namespaces
    BY <1>0, <1>1, <2>1, Zenon DEF syncNamespaceCache, RestInv
  <2> QED
    BY <1>0, <1>1, <2>1, <2>2
       DEF syncNamespaceCache, netnsInformer, OpInv, RestInv, StoreInv, Matches, InUse
<1>2. CASE syncNetNamespaceCache
  <2>1. Head(netnsEvents) \in AskedEvent /\ Tail(netnsEvents) \in Seq(AskedEvent)
    BY <1>0, <1>2, HeadAndTail DEF syncNetNamespaceCache, OpInv, StoreInv
  <2>2. /\ netnsCache' \in [Namespaces -> NetNamespace]
        /\ \A n \in Namespaces : netnsCache'[n].request \in Asked(n)
    BY <1>0, <1>2, <2>1 DEF syncNetNamespaceCache, AskedEvent, RestInv
  <2> QED
    BY <1>0, <1>2, <2>1, <2>2
       DEF syncNetNamespaceCache, nsInformer, OpInv, RestInv, StoreInv, Matches, InUse
<1>3. CASE resyncNamespaces
  BY <1>0, <1>3
     DEF resyncNamespaces, master, netnsInformer, OpInv, RestInv, StoreInv, Matches, InUse
<1>4. CASE resyncNetNamespaces
  BY <1>0, <1>4
     DEF resyncNetNamespaces, master, nsInformer, OpInv, RestInv, StoreInv, Matches, InUse
<1> QED
  BY <1>1, <1>2, <1>3, <1>4

\* The handlers.
LEMMA HandlersKeepIInv ==
  ASSUME IInv, NoSelfJoin, NEW n \in Namespaces,
         \/ replayNamespace(n) \/ handleAddOrUpdateNamespace(n) \/ handleDeleteNamespace(n)
         \/ replayNetNamespace(n) \/ handleAddOrUpdateNetNamespace(n)
  PROVE  IInv'
<1>0. OpInv /\ RestInv
  BY Parts
<1> SUFFICES OpInv' /\ RestInv' /\ phase' # "synced"
  BY PartsPrime
<1>1. CASE replayNamespace(n)
  BY <1>0, <1>1, AssignStep DEF replayNamespace, watchingNamespaces, RestInv
<1>2. CASE handleAddOrUpdateNamespace(n)
  BY <1>0, <1>2, AssignStep, HeadAndTail
     DEF handleAddOrUpdateNamespace, watchingNamespaces, RestInv
<1>3. CASE handleDeleteNamespace(n)
  BY <1>0, <1>3, RevokeStep, HeadAndTail
     DEF handleDeleteNamespace, watchingNamespaces, RestInv
<1>4. CASE replayNetNamespace(n)
  <2>1. /\ netnsCache[n] \in NetNamespace /\ netnsCache[n].request \in Asked(n)
        /\ netnsEvents \in Seq(AskedEvent)
    BY <1>0 DEF OpInv, StoreInv, RestInv
  <2>2. OpInv'
    BY <1>0, <1>4, <2>1, UpdateStep DEF replayNetNamespace
  <2> QED
    BY <1>0, <1>4, <2>2 DEF replayNetNamespace, nsInformer, RestInv
<1>5. CASE handleAddOrUpdateNetNamespace(n)
  <2> DEFINE obj == Head(netnsEvents).obj
  <2>1. /\ Head(netnsEvents) \in AskedEvent /\ Tail(netnsEvents) \in Seq(AskedEvent)
        /\ Head(netnsEvents).ns = n
    BY <1>0, <1>5, HeadAndTail, Zenon DEF handleAddOrUpdateNetNamespace, OpInv, StoreInv
  <2>2. obj \in NetNamespace /\ obj.request \in Asked(n)
    BY <2>1, Zenon DEF AskedEvent
  <2>3. ASSUME obj.netid = NoVNID PROVE OpInv'
    <3>1. UNCHANGED <<netns, vmap, budget>> /\ netnsEvents' = Tail(netnsEvents)
      BY ZenonT(30), <1>5, <2>3 DEF handleAddOrUpdateNetNamespace, NoWrite
    <3> QED
      BY <1>0, <2>1, <3>1 DEF OpInv, StoreInv, Matches, InUse
  <2>4. ASSUME obj.netid # NoVNID PROVE OpInv'
    BY ZenonT(30), <1>0, <1>5, <2>1, <2>2, <2>4, UpdateStep DEF handleAddOrUpdateNetNamespace
  <2>5. OpInv'
    BY <2>3, <2>4
  <2>6. netnsCache' = [netnsCache EXCEPT ![n] = obj]
    BY ZenonT(30), <1>5 DEF handleAddOrUpdateNetNamespace
  <2>7. UNCHANGED <<phase, namespaces, nsInformer, netnsReplay>> /\ phase = "running"
    BY <1>5 DEF handleAddOrUpdateNetNamespace
  <2> QED
    BY <1>0, <2>2, <2>5, <2>6, <2>7, Zenon DEF nsInformer, RestInv
<1> QED
  BY <1>1, <1>2, <1>3, <1>4, <1>5

\* Users, administrators and crashes.
LEMMA EnvironmentKeepsIInv ==
  ASSUME IInv,
         \/ Restart
         \/ \E n \in Namespaces : \/ CreateNamespace(n) \/ DeleteNamespace(n)
                                  \/ \E r \in Requests[n] : AnnotateNetNamespace(n, r)
  PROVE  IInv'
<1>0. OpInv /\ RestInv /\ (phase = "synced" => vmap.allocated = {})
  BY Parts
<1> SUFFICES OpInv' /\ RestInv' /\ (UNCHANGED <<vmap, phase>> \/ vmap'.allocated = {})
  BY <1>0, PartsPrime
<1>1. CASE Restart
  <2> DEFINE fresh == newMasterVNIDMap(vmap.allowRenumbering)
  <2>1. fresh \in VNIDMap /\ fresh.allocated = {} /\ \A n \in Namespaces : fresh.ids[n] = NoVNID
    BY <1>0, Zenon DEF newMasterVNIDMap, VNIDMap, OpInv
  <2>2. vmap' \in VNIDMap /\ Matches(vmap)' /\ vmap'.allocated = {}
    BY <1>1, <2>1, Zenon DEF Restart, Matches, InUse
  <2>3. StoreInv' /\ RestInv'
    BY <1>0, <1>1 DEF Restart, OpInv, StoreInv, RestInv
  <2>4. budget' \in Budget
    BY <1>0, <1>1, SpendKeepsBudget, Zenon DEF Restart, OpInv
  <2> QED
    BY <2>2, <2>3, <2>4 DEF OpInv
<1>2. CASE \E n \in Namespaces : CreateNamespace(n) \/ DeleteNamespace(n)
  <2>1. PICK n \in Namespaces : CreateNamespace(n) \/ DeleteNamespace(n)
    BY <1>2
  <2> DEFINE Event == [type : {"add", "delete"}, ns : Namespaces]
  <2>2. PICK e \in Event : nsEvents' = Append(nsEvents, e)
    BY <2>1 DEF CreateNamespace, DeleteNamespace
  <2>3. nsEvents \in Seq(Event)
    BY <1>0 DEF RestInv
  <2>4. nsEvents' \in Seq(Event)
    <3> HIDE DEF Event
    <3> QED
      BY <2>2, <2>3
  <2>5. namespaces' \subseteq Namespaces /\ nsEvents' \in Seq(Event)
    BY <1>0, <2>1, <2>4, Zenon DEF CreateNamespace, DeleteNamespace, RestInv
  <2>6. UNCHANGED <<vmap, phase, netns, nsCache, nsReplay, netnsCache, netnsReplay, netnsEvents>>
    BY <2>1 DEF CreateNamespace, DeleteNamespace, master, netnsInformer
  <2>7. Spend("ops")
    BY <2>1 DEF CreateNamespace, DeleteNamespace, UserActs
  <2>8. budget' \in Budget
    BY <1>0, <2>7, SpendKeepsBudget, Zenon DEF OpInv
  <2> QED
    BY <1>0, <2>5, <2>6, <2>8 DEF OpInv, RestInv, StoreInv, Matches, InUse
<1>3. CASE \E n \in Namespaces : \E r \in Requests[n] : AnnotateNetNamespace(n, r)
  <2>0. PICK n \in Namespaces : \E r \in Requests[n] : AnnotateNetNamespace(n, r)
    BY <1>3
  <2>1. PICK r \in Requests[n] : AnnotateNetNamespace(n, r)
    BY <2>0, Zenon
  <2>2. /\ netns[n].netid \in VNIDs \cup {NoVNID} /\ r \in Asked(n)
        /\ netnsEvents \in Seq(AskedEvent)
    BY <1>0 DEF OpInv, StoreInv, NetNamespace, Asked
  <2>3. StoreInv'
    BY ZenonT(30), <1>0, <2>1, <2>2, WriteStore DEF AnnotateNetNamespace, OpInv
  <2>4. UNCHANGED <<vmap, phase, namespaces, nsCache, nsReplay, nsEvents, netnsCache, netnsReplay>>
    BY <2>1 DEF AnnotateNetNamespace, master, nsInformer
  <2>5. Spend("ops")
    BY <2>1 DEF AnnotateNetNamespace, UserActs
  <2>6. budget' \in Budget
    BY <1>0, <2>5, SpendKeepsBudget, Zenon DEF OpInv
  <2> QED
    BY <1>0, <2>3, <2>4, <2>6 DEF OpInv, RestInv, Matches, InUse
<1> QED
  BY <1>1, <1>2, <1>3

\* The initial states have the invariant.
LEMMA InitHasIInv == Init => IInv
<1> SUFFICES ASSUME Init PROVE IInv
  OBVIOUS
<1>1. PICK allow \in Modes : vmap = newMasterVNIDMap(allow)
  BY DEF Init
<1>2. /\ vmap \in VNIDMap /\ vmap.allocated = {}
      /\ \A n \in Namespaces : vmap.ids[n] = NoVNID
  BY <1>1 DEF newMasterVNIDMap, VNIDMap
<1>3. Matches(vmap)
  BY <1>2 DEF Matches, InUse
<1>4. netns \in [Namespaces -> NetNamespace]
      /\ \A n \in Namespaces : netns[n].request = NoRequest
  BY Zenon DEF Init, NetNamespace
<1>5. StoreInv /\ budget \in Budget
  BY <1>4 DEF Init, StoreInv, Asked, Budget
<1>6. RestInv
  BY <1>4 DEF Init, RestInv, Asked
<1> QED
  BY <1>2, <1>3, <1>5, <1>6, Parts DEF OpInv

\* Every step, or none, keeps the invariant.
LEMMA NextKeepsIInv ==
  ASSUME IInv, NoSelfJoin, [Next]_vars
  PROVE  IInv'
<1>1. CASE UNCHANGED vars
  <2>1. UNCHANGED <<vmap, phase, namespaces, netns, nsCache, nsReplay, nsEvents,
                    netnsCache, netnsReplay, netnsEvents, budget>>
    BY <1>1, Zenon DEF vars, nsInformer, netnsInformer
  <2>2. OpInv' /\ RestInv'
    BY <2>1, Parts DEF OpInv, RestInv, StoreInv, Matches, InUse
  <2> QED
    BY <2>1, <2>2, Parts, PartsPrime
<1>2. CASE Next
  BY <1>2, StartUpKeepsIInv, InformersKeepIInv, HandlersKeepIInv, EnvironmentKeepsIInv DEF Next
<1> QED
  BY <1>1, <1>2

\* Every reachable state satisfies the inductive invariant.
THEOREM Invariance == NoSelfJoin => (Spec => []IInv)
<1> SUFFICES ASSUME NoSelfJoin PROVE Spec => []IInv
  OBVIOUS
<1>1. IInv /\ [Next]_vars => IInv'
  BY NextKeepsIInv
<1> QED
  BY <1>1, InitHasIInv, PTL DEF Spec

\* masterVNIDMap, the stored NetNamespaces and the informers stay well formed.
THEOREM TypeCorrect == NoSelfJoin => (Spec => []TypeOK)
<1>1. IInv => TypeOK
  BY DEF IInv
<1> QED
  BY <1>1, Invariance, PTL

\* As long as no namespace is asked to join itself, the bitmap of netIDManager
\* holds exactly the VNIDs that some namespace of the map has, whatever API writes
\* fail and however the two informers' handlers interleave.
THEOREM AllocatorCorrect == NoSelfJoin => (Spec => []AllocatorMatchesMap)
<1>1. IInv => AllocatorMatchesMap
  BY DEF IInv
<1> QED
  BY <1>1, Invariance, PTL

-----------------------------------------------------------------------------
(***************************************************************************)
(* A step gives a namespace a VNID that another has only for a join.       *)
(***************************************************************************)
Unshared(k) ==
  \/ vmap'.ids[k] \in {vmap.ids[k], NoVNID, GlobalVNID}
  \/ Holders(k, vmap'.ids[k]) = {}

\* A VNID that is free in the bitmap is nobody's.
LEMMA FreeIsUnheld ==
  ASSUME vmap \in VNIDMap, Matches(vmap), NEW id \in Free(vmap), NEW k \in Namespaces
  PROVE  Holders(k, id) = {}
<1>1. id \notin InUse(vmap) /\ id \notin {NoVNID, GlobalVNID}
  BY DEF Matches, Free, NetIDRange, NoVNID, GlobalVNID
<1> QED
  BY <1>1 DEF InUse, Holders

\* assignVNID gives a VNID that nobody has, or the global one.
LEMMA AssignUnshared ==
  ASSUME OpInv, NEW n \in Namespaces, assignVNID(n), NEW k \in Namespaces
  PROVE  Unshared(k)
<1>0. vmap \in VNIDMap /\ Matches(vmap)
  BY DEF OpInv
<1>1. CASE UNCHANGED vmap
  BY <1>1, Zenon DEF Unshared
<1>2. CASE ~Found(vmap, n) /\ \E id \in NewNetIDs(n), o \in {"ok"} \cup Faults :
             vmap' = LET m == allocateNetID(vmap, n, id)
                     IN  IF Succeeds(o, ~Exists(n)) THEN m ELSE createFailed(m, n)
  <2>1. PICK id \in NewNetIDs(n), o \in {"ok"} \cup Faults :
             vmap' = LET m == allocateNetID(vmap, n, id)
                     IN  IF Succeeds(o, ~Exists(n)) THEN m ELSE createFailed(m, n)
    BY <1>2
  <2> DEFINE m == allocateNetID(vmap, n, id)
  <2>2. m \in VNIDMap /\ m.ids = [vmap.ids EXCEPT ![n] = id]
    <3>1. m \in VNIDMap
      BY <1>0, <1>2, AllocateMatches DEF NewNetIDs
    <3> QED
      BY <1>0, <3>1 DEF allocateNetID, setVNID, Allocate, VNIDMap
  <2>3. vmap' = m \/ vmap' = releaseNetID(m, n)
    BY <2>1 DEF createFailed
  <2> HIDE DEF m
  <2>4. \/ vmap'.ids = [vmap.ids EXCEPT ![n] = id]
        \/ vmap'.ids = [vmap.ids EXCEPT ![n] = NoVNID]
    <3>1. releaseNetID(m, n).ids = [m.ids EXCEPT ![n] = NoVNID]
      BY ZenonT(30), <2>2, ReleaseShape
    <3> QED
      BY <1>0, <2>2, <2>3, <3>1 DEF VNIDMap
  <2>5. id = GlobalVNID \/ Holders(n, id) = {}
    BY <1>0, FreeIsUnheld DEF NewNetIDs
  <2> QED
    BY <1>0, <2>4, <2>5 DEF Unshared, VNIDMap
<1> QED
  BY <1>1, <1>2 DEF assignVNID

\* revokeVNID gives no VNID.
LEMMA RevokeUnshared ==
  ASSUME OpInv, NEW n \in Namespaces, revokeVNID(n), NEW k \in Namespaces
  PROVE  Unshared(k)
<1>1. vmap \in VNIDMap /\ (vmap' = vmap \/ vmap' = releaseNetID(vmap, n))
  BY DEF revokeVNID, OpInv
<1>2. vmap'.ids = vmap.ids \/ vmap'.ids = [vmap.ids EXCEPT ![n] = NoVNID]
  BY ZenonT(30), <1>1, ReleaseShape
<1> QED
  BY <1>1, <1>2 DEF Unshared, VNIDMap

\* updateVNID gives n the VNID of another namespace only to join it.
LEMMA UpdateUnshared ==
  ASSUME OpInv, NEW n \in Namespaces, NEW obj \in NetNamespace, NEW pending,
         updateVNID(n, obj, pending), NEW k \in Namespaces
  PROVE  \/ Unshared(k)
         \/ /\ k = n /\ obj.request.action = "join"
            /\ vmap.ids[obj.request.args] = vmap'.ids[n]
<1>0. vmap \in VNIDMap /\ Matches(vmap)
  BY Zenon DEF OpInv
<1>1. CASE UNCHANGED vmap
  BY <1>1 DEF Unshared
<1>2. CASE obj.request # NoRequest /\ vmap' \in updateNetID(vmap, n, obj.request)
  <2> DEFINE r == obj.request
  <2>1. r \in Request
    BY <1>2, Zenon DEF NetNamespace
  <2>2. ASSUME NEW m \in VNIDMap, NEW id \in VNIDs
        PROVE  Renumber(m, n, id).ids = [m.ids EXCEPT ![n] = id]
    <3> DEFINE u == releaseNetID(m, n)
    <3>1. u \in VNIDMap /\ u.ids = [m.ids EXCEPT ![n] = NoVNID]
      BY ZenonT(30), ReleaseShape
    <3> HIDE DEF u
    <3>2. setVNID(u, n, id).ids = [m.ids EXCEPT ![n] = id]
      BY <3>1, Zenon DEF setVNID, VNIDMap
    <3> QED
      BY <3>2 DEF Renumber, u
  <2>3. CASE vmap' = Renumber(vmap, n, GlobalVNID)
    <3>1. vmap'.ids = [vmap.ids EXCEPT ![n] = GlobalVNID]
      BY <1>0, <2>2, <2>3, Zenon DEF VNIDs
    <3> QED
      BY <1>0, <3>1, Zenon DEF Unshared, VNIDMap
  <2>4. CASE r.action = "join" /\ Found(vmap, r.args) /\ vmap' = Renumber(vmap, n, vmap.ids[r.args])
    <3>1. vmap.ids[r.args] \in VNIDs
      BY <1>0, <2>1, <2>4, Zenon DEF Request, Found, VNIDMap
    <3>2. vmap'.ids = [vmap.ids EXCEPT ![n] = vmap.ids[r.args]]
      BY <1>0, <2>2, <2>4, <3>1, Zenon
    <3> QED
      BY <1>0, <2>4, <3>2, Zenon DEF Unshared, VNIDMap
  <2>5. CASE \E id \in Free(vmap) : vmap' = Renumber(Allocate(vmap, id), n, id)
    <3>1. PICK id \in Free(vmap) : vmap' = Renumber(Allocate(vmap, id), n, id)
      BY <2>5
    <3>2. Allocate(vmap, id) \in VNIDMap /\ Allocate(vmap, id).ids = vmap.ids /\ id \in VNIDs
      BY <1>0, Zenon DEF Allocate, Free, VNIDMap, VNIDs
    <3>3. vmap'.ids = [vmap.ids EXCEPT ![n] = id]
      BY <2>2, <3>1, <3>2
    <3> QED
      BY <1>0, <3>3, FreeIsUnheld DEF Unshared, VNIDMap
  <2> QED
    BY <1>1, <1>2, <2>3, <2>4, <2>5 DEF updateNetID, isolatePodNetwork
<1> QED
  BY <1>1, <1>2 DEF updateVNID

\* Each step shares a VNID only by a join.
LEMMA StepSharesByJoin ==
  ASSUME IInv, [Next]_vars
  PROVE  [SharesByJoin]_vars
<1>0. OpInv /\ RestInv
  BY Parts, Zenon
<1> SUFFICES ASSUME Next, phase # "synced", phase' # "synced", NEW k \in Namespaces
             PROVE  \/ Unshared(k)
                    \/ /\ netnsCache'[k].request.action = "join"
                       /\ vmap.ids[netnsCache'[k].request.args] = vmap'.ids[k]
  BY DEF SharesByJoin, Unshared
<1>1. CASE UNCHANGED vmap
  BY <1>1 DEF Unshared
<1>2. ASSUME NEW n \in Namespaces, replayNamespace(n) \/ handleAddOrUpdateNamespace(n)
      PROVE  Unshared(k)
  BY <1>0, <1>2, AssignUnshared DEF replayNamespace, handleAddOrUpdateNamespace
<1>3. ASSUME NEW n \in Namespaces, handleDeleteNamespace(n)
      PROVE  Unshared(k)
  BY <1>0, <1>3, RevokeUnshared, Zenon DEF handleDeleteNamespace
<1>4. ASSUME NEW n \in Namespaces, replayNetNamespace(n)
      PROVE  \/ Unshared(k)
             \/ /\ netnsCache'[k].request.action = "join"
                /\ vmap.ids[netnsCache'[k].request.args] = vmap'.ids[k]
  <2>1. netnsCache[n] \in NetNamespace
    BY <1>0, Zenon DEF RestInv
  <2> QED
    BY <1>0, <1>4, <2>1, UpdateUnshared DEF replayNetNamespace
<1>5. ASSUME NEW n \in Namespaces, handleAddOrUpdateNetNamespace(n)
      PROVE  \/ Unshared(k)
             \/ /\ netnsCache'[k].request.action = "join"
                /\ vmap.ids[netnsCache'[k].request.args] = vmap'.ids[k]
  <2> DEFINE obj == Head(netnsEvents).obj
  <2>1. Head(netnsEvents) \in AskedEvent
    BY <1>0, <1>5, HeadAndTail DEF handleAddOrUpdateNetNamespace, OpInv, StoreInv
  <2>2. obj \in NetNamespace
    BY <2>1, Zenon DEF AskedEvent
  <2>3. netnsCache'[n] = obj /\ netnsCache \in [Namespaces -> NetNamespace]
    BY <1>0, <1>5, Zenon DEF handleAddOrUpdateNetNamespace, RestInv
  <2>4. UNCHANGED vmap \/ updateVNID(n, obj, Tail(netnsEvents))
    BY <1>5 DEF handleAddOrUpdateNetNamespace
  <2> HIDE DEF obj
  <2> QED
    BY <1>0, <1>1, <2>2, <2>3, <2>4, UpdateUnshared
<1> QED
  BY ZenonT(30), <1>1, <1>2, <1>3, <1>4, <1>5
     DEF Next, initNetIDAllocator, watchNamespaces, watchNetNamespaces, syncNamespaceCache,
         syncNetNamespaceCache, resyncNamespaces, resyncNetNamespaces, Restart, master,
         CreateNamespace, DeleteNamespace, AnnotateNetNamespace

\* As long as no namespace is asked to join itself, the master never gives a
\* namespace the VNID of another except to join them.
THEOREM SharingCorrect == NoSelfJoin => (Spec => SharingNeedsJoin)
<1>1. IInv /\ [Next]_vars => [SharesByJoin]_vars
  BY StepSharesByJoin
<1> QED
  BY <1>1, Invariance, PTL DEF Spec, SharingNeedsJoin
=============================================================================
