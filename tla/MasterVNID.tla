----------------------------- MODULE MasterVNID -----------------------------
(***************************************************************************)
(* The VNID half of the SDN master: masterVNIDMap (the in-memory map from  *)
(* namespaces to VNIDs and the bitmap of VNIDs in use), the NetNamespace   *)
(* objects it keeps in the API server, and the informers whose events      *)
(* drive it.                                                               *)
(*                                                                         *)
(* The three locked operations (assignVNID, revokeVNID, updateVNID) hold   *)
(* vmap.lock across their API call, and the API call is the only thing in  *)
(* them that others can see, so each is one action with the outcome of the *)
(* call chosen in it.  A master that dies inside one loses its memory, and *)
(* is indistinguishable from one that dies just before or just after.      *)
(***************************************************************************)
EXTENDS Integers, Sequences

CONSTANTS
  Namespaces,        \* names of Namespaces; a NetNamespace has the same name
  Default,           \* metav1.NamespaceDefault, the one admin namespace
  MinVNID, MaxVNID,  \* the range of the allocator
  Requests,          \* Requests[n]: annotations an administrator puts on n
  Modes,             \* values of allowRenumbering: TRUE with the multitenant
                     \* plugin, FALSE with the networkpolicy one
  Faults,            \* ways an API write can go wrong, besides a conflict
  Calm,              \* users and resyncs wait until the master has caught up
  MaxOps,            \* bound on what users and administrators do
  MaxFaults,         \* bound on failed API writes
  MaxRestarts        \* bound on crashes of the master

GlobalVNID == 0
NoVNID == -1
NetIDRange == MinVNID .. MaxVNID
VNIDs == NetIDRange \cup {GlobalVNID}

PodNetworkAction == {"global", "join", "isolate", "invalid"}
Request == [action : PodNetworkAction, args : Namespaces]
NoRequest == [action |-> "none", args |-> Default]

ASSUME RangeAssumption ==
  MinVNID \in Nat \ {0} /\ MaxVNID \in Nat
ASSUME NamespacesAssumption ==
  Default \in Namespaces
ASSUME RequestsAssumption ==
  Requests \in [Namespaces -> SUBSET Request]
ASSUME ModeAssumption ==
  Modes \subseteq BOOLEAN /\ Calm \in BOOLEAN /\ Faults \subseteq {"error", "lost"}
ASSUME BoundsAssumption ==
  {MaxOps, MaxFaults, MaxRestarts} \subseteq Nat

VARIABLES
  vmap,         \* the masterVNIDMap: [ids, allocated, allowRenumbering]
  phase,        \* how far startVNIDMaster has got
  namespaces,   \* API server: the Namespaces that exist
  netns,        \* API server: the NetNamespaces (netid NoVNID: does not exist)
  nsCache,      \* Namespace informer: names in the local cache
  nsReplay,     \*   cached names whose Add or resync the handler has yet to see
  nsEvents,     \*   watch events not yet in the cache, oldest first
  netnsCache,   \* NetNamespace informer: the same three
  netnsReplay,
  netnsEvents,
  budget        \* what is left of the three bounds

master   == <<vmap, phase>>
nsInformer    == <<nsCache, nsReplay, nsEvents>>
netnsInformer == <<netnsCache, netnsReplay, netnsEvents>>
vars == <<vmap, phase, namespaces, netns, nsInformer, netnsInformer, budget>>

NetNamespace ==
  [netid : VNIDs \cup {NoVNID}, request : Request \cup {NoRequest}, version : Nat]

(***************************************************************************)
(* masterVNIDMap.  m is a value of vmap.                                   *)
(***************************************************************************)
VNIDMap ==
  [ids : [Namespaces -> VNIDs \cup {NoVNID}],
   allocated : SUBSET NetIDRange, allowRenumbering : BOOLEAN]

newMasterVNIDMap(allow) ==
  [ids |-> [n \in Namespaces |-> NoVNID], allocated |-> {}, allowRenumbering |-> allow]

Found(m, n) == m.ids[n] # NoVNID

setVNID(m, n, id) == [m EXCEPT !.ids[n] = id]

\* The namespaces getVNIDCount counts; the count is compared with 0 and 1 only.
HoldersOf(m, id) == {n \in Namespaces : m.ids[n] = id}

isAdminNamespace(n) == n = Default

\* netIDManager.AllocateNext may return any of these (the bitmap is scanned
\* from a random offset), and fails when there is none.
Free(m) == NetIDRange \ m.allocated

Allocate(m, id) == [m EXCEPT !.allocated = @ \cup {id}]

Release(m, id) == [m EXCEPT !.allocated = @ \ {id}]

releaseNetID_NoCount(m, n) == Release(setVNID(m, n, NoVNID), m.ids[n])

\* releaseNetID for a namespace that has a VNID.
releaseNetID(m, n) ==
  LET unset == setVNID(m, n, NoVNID)
      netid == m.ids[n]
  IN  IF netid # GlobalVNID /\ HoldersOf(unset, netid) = {}
      THEN Release(unset, netid)
      ELSE unset

\* The tail of updateNetID: the old VNID is released, then the new one is set.
Renumber(m, n, id) == setVNID(releaseNetID(m, n), n, id)

isolatePodNetwork_AlreadyIsolated(m, n) ==
  IF n = Default \/ HoldersOf(m, m.ids[n]) = {n} THEN {}
  ELSE {Renumber(Allocate(m, id), n, id) : id \in Free(m)}

\* The case IsolatePodNetwork of updateNetID.
isolatePodNetwork(m, n) ==
  IF n = Default THEN {}
  ELSE IF HoldersOf(m, m.ids[n]) = {n} THEN {m}
  ELSE {Renumber(Allocate(m, id), n, id) : id \in Free(m)}

\* The values updateNetID may leave vmap with: none when it returns an error.
updateNetID(m, n, r) ==
  CASE Found(m, n) /\ r.action = "global" -> {Renumber(m, n, GlobalVNID)}
    [] Found(m, n) /\ r.action = "join" /\ Found(m, r.args) ->
         {Renumber(m, n, m.ids[r.args])}
    [] Found(m, n) /\ r.action = "isolate" -> isolatePodNetwork(m, n)
    [] OTHER -> {}

-----------------------------------------------------------------------------
(***************************************************************************)
(* The API server.  A write makes a new version and a watch event; an      *)
(* Update is refused (conflict) unless it is based on the current version. *)
(* Outcomes: "ok"; "error", nothing written; "lost", written although the  *)
(* client is given an error (a timeout).                                   *)
(***************************************************************************)
Spend(field) == budget[field] > 0 /\ budget' = [budget EXCEPT ![field] = @ - 1]

Outcome(o) ==
  \/ o = "ok" /\ UNCHANGED budget
  \/ o \in Faults /\ Spend("faults")

\* Write object n; pending are the watch events still to be delivered.
Write(n, netid, request, pending) ==
  LET obj == [netid |-> netid, request |-> request, version |-> netns[n].version + 1]
  IN  /\ netns' = [netns EXCEPT ![n] = obj]
      /\ netnsEvents' = Append(pending, [ns |-> n, obj |-> obj])

NoWrite(pending) == UNCHANGED netns /\ netnsEvents' = pending

Exists(n) == netns[n].netid # NoVNID

\* A call to the API server that gets outcome o; valid: the server accepts it.
Call(o, valid, n, netid, request, pending) ==
  /\ Outcome(o)
  /\ IF valid /\ o # "error" THEN Write(n, netid, request, pending)
                             ELSE NoWrite(pending)

Succeeds(o, valid) == valid /\ o = "ok"

-----------------------------------------------------------------------------
(***************************************************************************)
(* The three locked operations.                                            *)
(***************************************************************************)
\* The VNIDs allocateNetID may pick for n: none when the range is exhausted.
NewNetIDs(n) == IF isAdminNamespace(n) THEN {GlobalVNID} ELSE Free(vmap)

allocateNetID_NoMark(m, n, id) == setVNID(m, n, id)

\* allocateNetID, once it has picked id for n.
allocateNetID(m, n, id) ==
  setVNID(IF isAdminNamespace(n) THEN m ELSE Allocate(m, id), n, id)

createFailed_KeepsVNID(m, n) == m

\* What assignVNID does when the NetNamespace cannot be created.
createFailed(m, n) == releaseNetID(m, n)

assignVNID(n) ==
  \/ /\ Found(vmap, n) \/ NewNetIDs(n) = {}
     /\ NoWrite(netnsEvents) /\ UNCHANGED <<vmap, budget>>
  \/ /\ ~Found(vmap, n)
     /\ \E id \in NewNetIDs(n), o \in {"ok"} \cup Faults :
          /\ Call(o, ~Exists(n), n, id, NoRequest, netnsEvents)
          /\ vmap' = LET m == allocateNetID(vmap, n, id)
                     IN  IF Succeeds(o, ~Exists(n)) THEN m ELSE createFailed(m, n)

revokeVNID(n) ==
  \E o \in {"ok"} \cup Faults :
    /\ Call(o, Exists(n), n, NoVNID, NoRequest, netnsEvents)
    /\ vmap' = IF Succeeds(o, Exists(n)) /\ Found(vmap, n)
               THEN releaseNetID(vmap, n) ELSE vmap

\* obj is the informer's copy of NetNamespace n, which may be out of date.
updateVNID(n, obj, pending) ==
  LET current == obj.version = netns[n].version
  IN  \/ /\ obj.request = NoRequest
         /\ NoWrite(pending) /\ UNCHANGED <<vmap, budget>>
      \/ /\ obj.request # NoRequest /\ ~vmap.allowRenumbering
         /\ \E o \in {"ok"} \cup Faults :
              Call(o, current, n, obj.netid, NoRequest, pending)
         /\ UNCHANGED vmap
      \/ /\ obj.request # NoRequest /\ vmap.allowRenumbering
         /\ updateNetID(vmap, n, obj.request) = {}
         /\ NoWrite(pending) /\ UNCHANGED <<vmap, budget>>
      \/ /\ obj.request # NoRequest /\ vmap.allowRenumbering
         /\ vmap' \in updateNetID(vmap, n, obj.request)
         /\ \E o \in {"ok"} \cup Faults :
              Call(o, current, n, vmap'.ids[n], NoRequest, pending)

-----------------------------------------------------------------------------
(***************************************************************************)
(* Start-up.  The informers have synced when startVNIDMaster begins: it    *)
(* lists the NetNamespaces from the API server and then registers the two  *)
(* handlers; registering one replays the informer's cache to it.           *)
(***************************************************************************)
markAllocatedNetID_Global(m, ids) == [m EXCEPT !.allocated = @ \cup ids]

markAllocatedNetID_Forgets(m, ids) == m

\* markAllocatedNetID for each of ids: the global VNID is skipped, and one that
\* is allocated already is no error.
markAllocatedNetID(m, ids) == [m EXCEPT !.allocated = @ \cup (ids \cap NetIDRange)]

initNetIDAllocator ==
  /\ phase = "synced" /\ phase' = "listed"
  /\ LET listed == {n \in Namespaces : Exists(n)}
     IN  vmap' = [markAllocatedNetID(vmap, {netns[n].netid : n \in listed})
                    EXCEPT !.ids = [n \in Namespaces |-> netns[n].netid]]
  /\ UNCHANGED <<namespaces, netns, nsInformer, netnsInformer, budget>>

watchNamespaces ==
  /\ phase = "listed" /\ phase' = "watchingNamespaces"
  /\ nsReplay' = nsCache
  /\ UNCHANGED <<vmap, namespaces, netns, nsCache, nsEvents, netnsInformer, budget>>

watchNetNamespaces ==
  /\ phase = "watchingNamespaces" /\ phase' = "running"
  /\ netnsReplay' = {n \in Namespaces : netnsCache[n].netid # NoVNID}
  /\ UNCHANGED <<vmap, namespaces, netns, nsInformer, netnsCache, netnsEvents, budget>>

\* The caches follow the API server before the handlers are registered too.
syncNamespaceCache ==
  /\ phase \in {"synced", "listed"} /\ nsEvents # <<>>
  /\ nsCache' = IF Head(nsEvents).type = "add" THEN nsCache \cup {Head(nsEvents).ns}
                                               ELSE nsCache \ {Head(nsEvents).ns}
  /\ nsEvents' = Tail(nsEvents)
  /\ UNCHANGED <<vmap, phase, namespaces, netns, nsReplay, netnsInformer, budget>>

syncNetNamespaceCache ==
  /\ phase # "running" /\ netnsEvents # <<>>
  /\ netnsCache' = [netnsCache EXCEPT ![Head(netnsEvents).ns] = Head(netnsEvents).obj]
  /\ netnsEvents' = Tail(netnsEvents)
  /\ UNCHANGED <<vmap, phase, namespaces, netns, nsInformer, netnsReplay, budget>>

-----------------------------------------------------------------------------
(***************************************************************************)
(* The handlers.  Each informer calls its handler for one event at a time, *)
(* in order; the two run on goroutines of their own.                       *)
(***************************************************************************)
watchingNamespaces == phase \in {"watchingNamespaces", "running"}

\* Every change in the API server has been handled.
CaughtUp ==
  /\ phase = "running"
  /\ nsEvents = <<>> /\ nsReplay = {} /\ netnsEvents = <<>> /\ netnsReplay = {}

\* The replayed Adds of registration, and the Updates of a resync.
replayNamespace(n) ==
  /\ watchingNamespaces /\ n \in nsReplay
  /\ nsReplay' = nsReplay \ {n}
  /\ assignVNID(n)
  /\ UNCHANGED <<phase, namespaces, nsCache, nsEvents, netnsCache, netnsReplay>>

handleAddOrUpdateNamespace(n) ==
  /\ watchingNamespaces /\ nsReplay = {} /\ nsEvents # <<>>
  /\ Head(nsEvents) = [type |-> "add", ns |-> n]
  /\ nsCache' = nsCache \cup {n} /\ nsEvents' = Tail(nsEvents)
  /\ assignVNID(n)
  /\ UNCHANGED <<phase, namespaces, nsReplay, netnsCache, netnsReplay>>

handleDeleteNamespace(n) ==
  /\ watchingNamespaces /\ nsReplay = {} /\ nsEvents # <<>>
  /\ Head(nsEvents) = [type |-> "delete", ns |-> n]
  /\ nsCache' = nsCache \ {n} /\ nsEvents' = Tail(nsEvents)
  /\ revokeVNID(n)
  /\ UNCHANGED <<phase, namespaces, nsReplay, netnsCache, netnsReplay>>

replayNetNamespace(n) ==
  /\ phase = "running" /\ n \in netnsReplay
  /\ netnsReplay' = netnsReplay \ {n}
  /\ updateVNID(n, netnsCache[n], netnsEvents)
  /\ UNCHANGED <<phase, namespaces, nsInformer, netnsCache>>

\* There is no handler for deleted NetNamespaces.
handleAddOrUpdateNetNamespace(n) ==
  /\ phase = "running" /\ netnsReplay = {} /\ netnsEvents # <<>>
  /\ Head(netnsEvents).ns = n
  /\ LET obj == Head(netnsEvents).obj
     IN  /\ netnsCache' = [netnsCache EXCEPT ![n] = obj]
         /\ IF obj.netid = NoVNID
            THEN NoWrite(Tail(netnsEvents)) /\ UNCHANGED <<vmap, budget>>
            ELSE updateVNID(n, obj, Tail(netnsEvents))
  /\ UNCHANGED <<phase, namespaces, nsInformer, netnsReplay>>

\* Every ten minutes an informer hands its whole cache to the handler again.
resyncNamespaces ==
  /\ watchingNamespaces /\ nsReplay = {} /\ nsReplay' = nsCache
  /\ Calm => CaughtUp
  /\ UNCHANGED <<master, budget, namespaces, netns, nsCache, nsEvents, netnsInformer>>

resyncNetNamespaces ==
  /\ phase = "running" /\ netnsReplay = {} /\ (Calm => CaughtUp)
  /\ netnsReplay' = {n \in Namespaces : netnsCache[n].netid # NoVNID}
  /\ UNCHANGED <<master, budget, namespaces, netns, nsInformer, netnsCache, netnsEvents>>

-----------------------------------------------------------------------------
(***************************************************************************)
(* Users, administrators, and crashes of the master.                       *)
(***************************************************************************)
UserActs == Spend("ops") /\ (Calm => CaughtUp)

CreateNamespace(n) ==
  /\ n \notin namespaces /\ namespaces' = namespaces \cup {n}
  /\ nsEvents' = Append(nsEvents, [type |-> "add", ns |-> n])
  /\ UserActs
  /\ UNCHANGED <<master, netns, nsCache, nsReplay, netnsInformer>>

DeleteNamespace(n) ==
  /\ n \in namespaces /\ n # Default /\ namespaces' = namespaces \ {n}
  /\ nsEvents' = Append(nsEvents, [type |-> "delete", ns |-> n])
  /\ UserActs
  /\ UNCHANGED <<master, netns, nsCache, nsReplay, netnsInformer>>

\* "oc adm pod-network" asks for a change by annotating the NetNamespace.
AnnotateNetNamespace(n, r) ==
  /\ Exists(n) /\ netns[n].request # r
  /\ Write(n, netns[n].netid, r, netnsEvents)
  /\ UserActs
  /\ UNCHANGED <<master, namespaces, nsInformer, netnsCache, netnsReplay>>

\* The master dies and a new one starts; its informers list afresh.
Restart ==
  /\ phase' = "synced" /\ vmap' = newMasterVNIDMap(vmap.allowRenumbering)
  /\ nsCache' = namespaces /\ nsReplay' = {} /\ nsEvents' = <<>>
  /\ netnsCache' = netns /\ netnsReplay' = {} /\ netnsEvents' = <<>>
  /\ Spend("restarts")
  /\ UNCHANGED <<namespaces, netns>>

Init ==
  /\ vmap \in {newMasterVNIDMap(allow) : allow \in Modes} /\ phase = "synced"
  /\ namespaces = {Default}
  /\ netns = [n \in Namespaces |->
                [netid |-> NoVNID, request |-> NoRequest, version |-> 0]]
  /\ nsCache = namespaces /\ nsReplay = {} /\ nsEvents = <<>>
  /\ netnsCache = netns /\ netnsReplay = {} /\ netnsEvents = <<>>
  /\ budget = [ops |-> MaxOps, faults |-> MaxFaults,
               restarts |-> MaxRestarts]

Next ==
  \/ initNetIDAllocator \/ watchNamespaces \/ watchNetNamespaces
  \/ syncNamespaceCache \/ syncNetNamespaceCache
  \/ resyncNamespaces \/ resyncNetNamespaces \/ Restart
  \/ \E n \in Namespaces :
       \/ replayNamespace(n) \/ handleAddOrUpdateNamespace(n)
       \/ handleDeleteNamespace(n)
       \/ replayNetNamespace(n) \/ handleAddOrUpdateNetNamespace(n)
       \/ CreateNamespace(n) \/ DeleteNamespace(n)
       \/ \E r \in Requests[n] : AnnotateNetNamespace(n, r)

Spec == Init /\ [][Next]_vars

(***************************************************************************)
(* The goroutines of the master and of its informers keep running, and the *)
(* resync timers keep firing.  (A resync waits for the other informer when *)
(* Calm, hence strong fairness.)  Users and crashes are not fair.          *)
(***************************************************************************)
HandleNamespaceEvent ==
  \E n \in Namespaces :
    replayNamespace(n) \/ handleAddOrUpdateNamespace(n) \/ handleDeleteNamespace(n)

HandleNetNamespaceEvent ==
  \E n \in Namespaces : replayNetNamespace(n) \/ handleAddOrUpdateNetNamespace(n)

Fairness ==
  /\ WF_vars(initNetIDAllocator \/ watchNamespaces \/ watchNetNamespaces)
  /\ WF_vars(HandleNamespaceEvent) /\ WF_vars(HandleNetNamespaceEvent)
  /\ SF_vars(resyncNamespaces) /\ SF_vars(resyncNetNamespaces)

FairSpec == Spec /\ Fairness

-----------------------------------------------------------------------------
\* What the map, the stored objects, the informers and the bounds may be; with
\* releaseNetID and updateNetID in play, that no VNID outside the allocator's
\* range, and not the global one, gets into the bitmap.
TypeOK ==
  /\ vmap \in VNIDMap
  /\ phase \in {"synced", "listed", "watchingNamespaces", "running"}
  /\ namespaces \subseteq Namespaces
  /\ netns \in [Namespaces -> NetNamespace]
  /\ nsCache \subseteq Namespaces /\ nsReplay \subseteq Namespaces
  /\ nsEvents \in Seq([type : {"add", "delete"}, ns : Namespaces])
  /\ netnsCache \in [Namespaces -> NetNamespace] /\ netnsReplay \subseteq Namespaces
  /\ netnsEvents \in Seq([ns : Namespaces, obj : NetNamespace])
  /\ budget \in [ops : Nat, faults : Nat, restarts : Nat]

\* The VNIDs in use: every one that some namespace has, except the global one.
InUse(m) == {m.ids[n] : n \in Namespaces} \ {NoVNID, GlobalVNID}

\* The bitmap holds exactly the VNIDs that some namespace has: none in use is
\* free to be handed out again, and none is leaked.  (What the unit tests check
\* after each call, here after any interleaving with failed API writes.)
AllocatorMatchesMap == vmap.allocated = InUse(vmap)

\* The namespaces that had id before this step, other than n.
Holders(n, id) == {m \in Namespaces \ {n} : vmap.ids[m] = id}

\* In a step after start-up's list, a namespace is given the VNID of another only
\* if the NetNamespace being handled asks to join a namespace that has it.
SharesByJoin ==
  phase # "synced" /\ phase' # "synced" =>
    \A n \in Namespaces :
      LET id  == vmap'.ids[n]
          ask == netnsCache'[n].request
      IN  id \notin {vmap.ids[n], NoVNID, GlobalVNID} /\ Holders(n, id) # {}
            => ask.action = "join" /\ vmap.ids[ask.args] = id

\* allocateNetID and updateNetID never give a namespace a VNID that another has,
\* unless the NetNamespace being handled asks for that join.
SharingNeedsJoin == [][SharesByJoin]_vars

\* When a failed Update (updateVNID) leaves the map and the stored NetNamespace
\* with different VNIDs, the request is still on the stored object, so that some
\* later event will carry it to updateVNID again; a failed Create (assignVNID) or
\* Delete (revokeVNID) leaves no difference.
DivergenceIsPending ==
  phase # "synced" =>
    \A n \in Namespaces :
      vmap.ids[n] # netns[n].netid => netns[n].request # NoRequest

\* ... and a resync does: the map and the stored object agree again.
AgreementRestored ==
  \A n \in Namespaces :
    vmap.ids[n] # netns[n].netid ~> vmap.ids[n] = netns[n].netid

\* Every Namespace that stays gets a NetNamespace, a failed Create
\* notwithstanding: a later resync calls assignVNID again.
NamespacesServed ==
  \A n \in Namespaces : n \in namespaces ~> (n \notin namespaces \/ Exists(n))

\* Two stored NetNamespaces have the same VNID only when their networks have
\* been joined (to be used without join requests).
SharedOnlyWhenJoined ==
  \A n, m \in Namespaces :
    n # m /\ Exists(n) /\ netns[n].netid # GlobalVNID => netns[n].netid # netns[m].netid

-----------------------------------------------------------------------------
Assignment ==
  INSTANCE VNIDAssignment WITH assigned <- [n \in Namespaces |-> netns[n].netid]

\* The stored NetNamespaces are an assignment of VNIDs: whatever the map, the
\* allocator and the informers do, a crash and restart at any moment included,
\* each write is one the abstract specification allows.
AssignmentSpec == Assignment!Spec

=============================================================================
