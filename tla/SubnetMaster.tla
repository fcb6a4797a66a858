---------------------------- MODULE SubnetMaster ----------------------------
(***************************************************************************)
(* The subnet half of the SDN master: it keeps a HostSubnet object, with a *)
(* subnet of its own, for every Node, and for every name an administrator  *)
(* asks one for (the F5 annotation).                                       *)
(*                                                                         *)
(* The Node handler and the HostSubnet handler run on goroutines of their  *)
(* own and share the allocators, each behind a mutex, and nothing else:    *)
(* between two calls of one of them to the API server anything may happen. *)
(* So every API call is a step, and a worker keeps what its goroutine has  *)
(* in local variables from one to the next.                                *)
(***************************************************************************)
EXTENDS SubnetAllocator

CONSTANTS
  NodeNames,        \* names that nodes may have
  ClaimedNames,     \* names administrators make HostSubnets for
  NodeIPs,          \* addresses of nodes
  BadIPs,           \* those of NodeIPs that are in the cluster's own networks
  MaxBirths,        \* bound on the nodes that have the same name, one by one
  Faults,           \* ways an API call can go wrong
  Scenarios         \* the cluster networks (a sequence of Shapes) with a bound
                    \* on what users, administrators, failures, watches and
                    \* crashes do; a behaviour has one of them

Names == NodeNames \cup ClaimedNames
NoName == "none"
NoIP == "none"
NoUID == 0
UIDs == 1 .. MaxBirths    \* with the name, it is unique

Node == [uid : UIDs \cup {NoUID}, ip : NodeIPs \cup {NoIP}]
NoNode == [uid |-> NoUID, ip |-> NoIP]

\* version is the resourceVersion; a HostSubnet with no ip does not exist.
HostSubnet ==
  [uid : UIDs \cup {NoUID}, ip : NodeIPs \cup {NoIP}, subnet : Int,
   assign : BOOLEAN, version : Nat]

NodeEvent == [name : Names, node : Node]
PendingNode == [name : Names, node : Node, deleted : BOOLEAN]
SubnetEvent == [name : Names, obj : HostSubnet]
Budget == [users : Nat, admins : Nat, faults : Nat, gaps : Nat, restarts : Nat]

ASSUME NamesAssumption ==
  IsFiniteSet(Names) /\ NoIP \notin NodeIPs /\ BadIPs \subseteq NodeIPs
ASSUME ScenariosAssumption ==
  \A s \in Scenarios :
    /\ s.budget \in Budget /\ s.networks \in Seq(Shape) /\ s.networks # <<>>
    /\ \A k \in DOMAIN s.networks :
         /\ ValidShape(s.networks[k])
         /\ \A j \in DOMAIN s.networks \ {k} : ~InNetwork(s.networks[j], s.networks[k].base)

\* Arithmetic of genSubnet: every network has subnets, all within it, none of
\* them in another network.
ASSUME NetworksAssumption ==
  \A s \in Scenarios : \A k \in DOMAIN s.networks :
    /\ numSubnets(s.networks[k]) \in Nat \ {0}
    /\ \A subnet \in Subnets(s.networks[k]) :
         /\ subnet \in Nat
         /\ \A j \in DOMAIN s.networks : InNetwork(s.networks[j], subnet) <=> j = k
ASSUME BoundsAssumption ==
  MaxBirths \in Nat \ {0} /\ Faults \subseteq {"error", "lost"}

VARIABLES
  nodes,         \* API server: the Nodes
  births,        \*   how many Nodes of each name there have been
  hostSubnets,   \* API server: the HostSubnets
  nodeEvents,    \* Node informer: watch events not yet in the cache
  nodeCache,     \*   the cache its lister reads
  nodePending,   \*   calls the handler has yet to get, oldest first
  subnetEvents,  \* HostSubnet informer: what the handler has yet to get
  subnetCache,   \*   the objects as last delivered
  phase,         \* how far startSubnetMaster has got
  loose,         \* subnets the allocators wrongly had free (not in the code)
  allocators,    \* subnetAllocatorList
  hostSubnetNodeIPs,  \* the address each node (name and UID) was given one for
  worker,        \* the two goroutines
  budget         \* what is left of the bounds

api == <<nodes, births, hostSubnets>>
nodeInformer == <<nodeEvents, nodeCache, nodePending>>
subnetInformer == <<subnetEvents, subnetCache>>
startup == <<phase, loose>>
memory == <<allocators, hostSubnetNodeIPs>>
vars == <<api, nodeInformer, subnetInformer, startup, memory, worker, budget>>

Goroutines == {"node", "subnet"}

\* What a goroutine is about to do, for whom: uid and ip are the arguments of
\* addNode, version that of the HostSubnet it read, subnet the one it took.
Steps ==
  {"idle", "get", "deleteInvalid", "update", "allocate", "create",
   "deleteNode", "stamp", "deleteStale", "assign"}
Worker ==
  [step : Steps, name : Names \cup {NoName}, uid : UIDs \cup {NoUID}, ip : NodeIPs \cup {NoIP},
   version : Nat, subnet : Int, assign : BOOLEAN]
Idle ==
  [step |-> "idle", name |-> NoName, uid |-> NoUID, ip |-> NoIP,
   version |-> 0, subnet |-> NoSubnet, assign |-> FALSE]

-----------------------------------------------------------------------------
(***************************************************************************)
(* The API server.  Outcomes of a call: "ok"; "error", nothing done;       *)
(* "lost", done although the client is given an error.                     *)
(***************************************************************************)
Spend(field) == budget[field] > 0 /\ budget' = [budget EXCEPT ![field] = @ - 1]

Outcome(o) ==
  \/ o = "ok" /\ UNCHANGED budget
  \/ o \in Faults /\ Spend("faults")

Exists(hs) == hs.ip # NoIP

Absent == [uid |-> NoUID, ip |-> NoIP, subnet |-> NoSubnet, assign |-> FALSE, version |-> 0]

Write(n, hs) ==
  LET obj == [hs EXCEPT !.version = hostSubnets[n].version + 1]
  IN  /\ hostSubnets' = [hostSubnets EXCEPT ![n] = obj]
      /\ subnetEvents' = Append(subnetEvents, [name |-> n, obj |-> obj])

\* A call with outcome o that writes hs under name n if the server accepts it.
Call(o, valid, n, hs) ==
  /\ Outcome(o)
  /\ IF valid /\ o # "error" THEN Write(n, hs)
                             ELSE UNCHANGED <<hostSubnets, subnetEvents>>

Succeeds(o, valid) == valid /\ o = "ok"

\* Deletes are by name, whatever object has it.
Delete(o, n) == Call(o, Exists(hostSubnets[n]), n, Absent)

ValidateHostSubnet(hs) == hs.subnet # NoSubnet \/ hs.assign
ValidateNodeIP(ip) == ip \notin BadIPs \cup {NoIP}

-----------------------------------------------------------------------------
(***************************************************************************)
(* addNode, on either goroutine: find the HostSubnet; return, replace or   *)
(* update it, or make a new one.                                           *)
(***************************************************************************)
Becomes(g, w) == worker' = [worker EXCEPT ![g] = w]
GoesTo(g, step) == Becomes(g, [worker[g] EXCEPT !.step = step])

StartAddNode(g, n, uid, ip) ==
  Becomes(g, IF ValidateNodeIP(ip)
             THEN [Idle EXCEPT !.step = "get", !.name = n, !.uid = uid, !.ip = ip]
             ELSE Idle)

Returns_Always(g, ok) ==
  /\ Becomes(g, Idle)
  /\ hostSubnetNodeIPs' =
       IF g = "node"
       THEN [hostSubnetNodeIPs EXCEPT ![<<worker[g].name, worker[g].uid>>] = worker[g].ip]
       ELSE hostSubnetNodeIPs

\* addNode returns; handleAddOrUpdateNode remembers the address it succeeded for.
Returns(g, ok) ==
  /\ Becomes(g, Idle)
  /\ hostSubnetNodeIPs' =
       IF g = "node" /\ ok
       THEN [hostSubnetNodeIPs EXCEPT ![<<worker[g].name, worker[g].uid>>] = worker[g].ip]
       ELSE hostSubnetNodeIPs

\* A HostSubnet that cannot be read counts as one that does not exist.
addNodeGet(g) ==
  LET w == worker[g]
      hs == hostSubnets[w.name]
  IN  /\ w.step = "get"
      /\ \E o \in {"ok"} \cup Faults :
           /\ Outcome(o)
           /\ CASE o # "ok" \/ ~Exists(hs) ->
                     GoesTo(g, "allocate") /\ UNCHANGED hostSubnetNodeIPs
                [] o = "ok" /\ Exists(hs) /\ ~ValidateHostSubnet(hs) ->
                     GoesTo(g, "deleteInvalid") /\ UNCHANGED hostSubnetNodeIPs
                [] o = "ok" /\ ValidateHostSubnet(hs) /\ hs.ip = w.ip -> Returns(g, TRUE)
                [] OTHER ->
                     /\ Becomes(g, [w EXCEPT !.step = "update", !.version = hs.version])
                     /\ UNCHANGED hostSubnetNodeIPs
      /\ UNCHANGED <<api, nodeInformer, subnetInformer, startup, allocators>>

addNodeDelete(g) ==
  /\ worker[g].step = "deleteInvalid"
  /\ \E o \in {"ok"} \cup Faults : Delete(o, worker[g].name)
  /\ GoesTo(g, "allocate")
  /\ UNCHANGED <<nodes, births, nodeInformer, subnetCache, startup, memory>>

addNodeUpdate(g) ==
  LET w == worker[g]
      hs == hostSubnets[w.name]
      valid == Exists(hs) /\ hs.version = w.version
  IN  /\ w.step = "update"
      /\ \E o \in {"ok"} \cup Faults :
           /\ Call(o, valid, w.name, [hs EXCEPT !.ip = w.ip])
           /\ Returns(g, Succeeds(o, valid))
      /\ UNCHANGED <<nodes, births, nodeInformer, subnetCache, startup, allocators>>

addNodeAllocate(g) ==
  LET r == allocateNetwork(allocators)
  IN  /\ worker[g].step = "allocate"
      /\ allocators' = r.list
      /\ IF r.subnet = NoSubnet THEN Becomes(g, Idle)
         ELSE Becomes(g, [worker[g] EXCEPT !.step = "create", !.subnet = r.subnet])
      /\ UNCHANGED <<api, nodeInformer, subnetInformer, startup, hostSubnetNodeIPs, budget>>

\* What addNode does with its subnet when the HostSubnet cannot be created.
createFailed(list, subnet) == releaseNetwork(list, subnet)

addNodeCreate(g) ==
  LET w == worker[g]
      valid == ~Exists(hostSubnets[w.name])
  IN  /\ w.step = "create"
      /\ \E o \in {"ok"} \cup Faults :
           /\ Call(o, valid, w.name, [Absent EXCEPT !.uid = w.uid, !.ip = w.ip, !.subnet = w.subnet])
           /\ Returns(g, Succeeds(o, valid))
           /\ allocators' = IF Succeeds(o, valid) THEN allocators
                            ELSE createFailed(allocators, w.subnet)
           /\ loose' = IF valid /\ o = "lost" THEN loose \cup {w.subnet} ELSE loose
      /\ UNCHANGED <<nodes, births, nodeInformer, subnetCache, phase>>

-----------------------------------------------------------------------------
(***************************************************************************)
(* The Node handler.                                                       *)
(***************************************************************************)
watchingNodes == phase \in {"watchingNodes", "running"}

NextNodeCall == watchingNodes /\ worker["node"].step = "idle" /\ nodePending # <<>>

handleAddOrUpdateNode ==
  LET n == Head(nodePending).name
      node == Head(nodePending).node
  IN  /\ NextNodeCall /\ ~Head(nodePending).deleted
      /\ nodePending' = Tail(nodePending)
      /\ IF node.ip = NoIP \/ hostSubnetNodeIPs[<<n, node.uid>>] = node.ip
         THEN UNCHANGED worker
         ELSE StartAddNode("node", n, node.uid, node.ip)
      /\ UNCHANGED <<api, nodeEvents, nodeCache, subnetInformer, startup, memory, budget>>

\* A node that never got a HostSubnet has nothing to delete.
handleDeleteNode ==
  LET n == Head(nodePending).name
      uid == Head(nodePending).node.uid
  IN  /\ NextNodeCall /\ Head(nodePending).deleted
      /\ nodePending' = Tail(nodePending)
      /\ hostSubnetNodeIPs' = [hostSubnetNodeIPs EXCEPT ![<<n, uid>>] = NoIP]
      /\ IF hostSubnetNodeIPs[<<n, uid>>] = NoIP THEN UNCHANGED worker
         ELSE Becomes("node", [Idle EXCEPT !.step = "deleteNode", !.name = n])
      /\ UNCHANGED <<api, nodeEvents, nodeCache, subnetInformer, startup, allocators, budget>>

\* A failure is only logged.
deleteNode ==
  /\ worker["node"].step = "deleteNode"
  /\ \E o \in {"ok"} \cup Faults : Delete(o, worker["node"].name)
  /\ Becomes("node", Idle)
  /\ UNCHANGED <<nodes, births, nodeInformer, subnetCache, startup, memory>>

-----------------------------------------------------------------------------
(***************************************************************************)
(* The HostSubnet handler.                                                 *)
(***************************************************************************)
reconcileHostSubnet_KeepsOrphans(hs, node) ==
  CASE node = NoNode -> "none"
    [] node # NoNode /\ hs.uid = NoUID -> "stamp"
    [] OTHER -> IF node.uid = hs.uid THEN "none" ELSE "deleteStale"

\* What reconcileHostSubnet does about HostSubnet hs when it has found node.
reconcileHostSubnet(hs, node) ==
  CASE node = NoNode /\ hs.uid = NoUID -> "none"
    [] node # NoNode /\ hs.uid = NoUID -> "stamp"
    [] node = NoNode /\ hs.uid # NoUID -> "deleteStale"
    [] OTHER -> IF node.uid = hs.uid THEN "none" ELSE "deleteStale"

\* The handler carries on with handleAssignHostSubnetAnnotation, or returns.
AfterReconcile(w) == IF w.assign THEN [w EXCEPT !.step = "assign"] ELSE Idle

Reconcile(n, hs, node) ==
  LET step == reconcileHostSubnet(hs, node)
      w == [Idle EXCEPT !.name = n, !.ip = hs.ip, !.assign = hs.assign]
  IN  Becomes("subnet",
        CASE step = "none" -> AfterReconcile(w)
          [] step = "stamp" -> [w EXCEPT !.step = step, !.uid = node.uid, !.version = hs.version]
          [] step = "deleteStale" -> [w EXCEPT !.step = step])

NextSubnetCall ==
  /\ phase = "running" /\ worker["subnet"].step = "idle" /\ subnetEvents # <<>>
  /\ LET e == Head(subnetEvents)
     IN  subnetCache' = [subnetCache EXCEPT ![e.name] = e.obj]
  /\ subnetEvents' = Tail(subnetEvents)

\* The node is looked up in the informer's cache, then in the API server; if
\* that fails the HostSubnet is not reconciled, but an annotation is acted on.
handleAddOrUpdateSubnet ==
  LET n == Head(subnetEvents).name
      hs == Head(subnetEvents).obj
  IN  /\ NextSubnetCall /\ Exists(hs)
      /\ IF ~ValidateHostSubnet(hs) THEN UNCHANGED <<worker, budget>>
         ELSE IF nodeCache[n] # NoNode THEN Reconcile(n, hs, nodeCache[n]) /\ UNCHANGED budget
         ELSE \E o \in {"ok"} \cup Faults :
                /\ Outcome(o)
                /\ IF o = "ok" THEN Reconcile(n, hs, nodes[n])
                   ELSE Becomes("subnet",
                          AfterReconcile([Idle EXCEPT !.name = n, !.ip = hs.ip, !.assign = hs.assign]))
      /\ UNCHANGED <<api, nodeInformer, startup, memory>>

\* The Update that stamps a UID fails if the HostSubnet has changed since.
stampUID ==
  LET w == worker["subnet"]
      hs == hostSubnets[w.name]
  IN  /\ w.step = "stamp"
      /\ \E o \in {"ok"} \cup Faults :
           Call(o, Exists(hs) /\ hs.version = w.version, w.name, [hs EXCEPT !.uid = w.uid])
      /\ Becomes("subnet", AfterReconcile(w))
      /\ UNCHANGED <<nodes, births, nodeInformer, subnetCache, startup, memory>>

deleteStale ==
  LET w == worker["subnet"]
  IN  /\ w.step = "deleteStale"
      /\ \E o \in {"ok"} \cup Faults : Delete(o, w.name)
      /\ Becomes("subnet", AfterReconcile(w))
      /\ UNCHANGED <<nodes, births, nodeInformer, subnetCache, startup, memory>>

\* The annotated HostSubnet is deleted, then addNode makes one with a subnet.
handleAssignHostSubnetAnnotation ==
  LET w == worker["subnet"]
      valid == Exists(hostSubnets[w.name])
  IN  /\ w.step = "assign"
      /\ \E o \in {"ok"} \cup Faults :
           /\ Delete(o, w.name)
           /\ IF Succeeds(o, valid) THEN StartAddNode("subnet", w.name, NoUID, w.ip)
                                    ELSE Becomes("subnet", Idle)
      /\ UNCHANGED <<nodes, births, nodeInformer, subnetCache, startup, memory>>

releaseDeleted_Forgets(list, hs) == list

\* An annotated HostSubnet never had a subnet of the allocators.
releaseDeleted(list, hs) == IF hs.assign THEN list ELSE releaseNetwork(list, hs.subnet)

\* The handler is given the HostSubnet as it was last known.
handleDeleteSubnet ==
  LET n == Head(subnetEvents).name
  IN  /\ NextSubnetCall /\ ~Exists(Head(subnetEvents).obj)
      /\ allocators' = releaseDeleted(allocators, subnetCache[n])
      /\ UNCHANGED <<api, nodeInformer, startup, hostSubnetNodeIPs, worker, budget>>

-----------------------------------------------------------------------------
(***************************************************************************)
(* Start-up, when the informers have synced, and the informers.            *)
(***************************************************************************)
\* New allocators for the same networks.
newAllocators == [k \in DOMAIN allocators |-> newSubnetAllocator(allocators[k])]

listed_Forgets(subnets) == newAllocators

\* The allocators once the HostSubnets of the API server are marked in them.
listed(subnets) == markAllocatedNetworks(newAllocators, subnets)

Assigned == {n \in Names : hostSubnets[n].subnet # NoSubnet}
Stored == {hostSubnets[n].subnet : n \in Assigned}

\* Subnets that are still to be released: of HostSubnets whose deletion has not
\* reached the handler, and of those being created.
Leaving ==
  {subnetCache[n].subnet : n \in Names}
    \cup {subnetEvents[i].obj.subnet : i \in DOMAIN subnetEvents}
    \cup {worker[g].subnet : g \in Goroutines}

\* A HostSubnet deleted before the list is free, and will be released once more
\* when the handler gets the informer's event of its deletion.
initSubnetAllocators ==
  /\ phase = "synced" /\ phase' = "listed"
  /\ allocators' = listed({hostSubnets[n].subnet : n \in Names})
  /\ loose' = loose \cup (Leaving \ (Stored \cup {NoSubnet}))
  /\ UNCHANGED <<api, nodeInformer, subnetInformer, hostSubnetNodeIPs, worker, budget>>

Orders(names) == Injection(1 .. Cardinality(names), names)

\* The whole cache, in any order: for a new handler, and at every resync.
AllNodes ==
  {[i \in DOMAIN order |-> [name |-> order[i], node |-> nodeCache[order[i]], deleted |-> FALSE]] :
     order \in Orders({n \in Names : nodeCache[n] # NoNode})}
AllSubnets ==
  {[i \in DOMAIN order |-> [name |-> order[i], obj |-> subnetCache[order[i]]]] :
     order \in Orders({n \in Names : Exists(subnetCache[n])})}

watchNodes ==
  /\ phase = "listed" /\ phase' = "watchingNodes"
  /\ nodePending' \in AllNodes
  /\ UNCHANGED <<loose, api, nodeEvents, nodeCache, subnetInformer, memory, worker, budget>>

watchSubnets ==
  /\ phase = "watchingNodes" /\ phase' = "running"
  /\ \E replay \in AllSubnets : subnetEvents' = replay \o subnetEvents
  /\ UNCHANGED <<loose, api, nodeInformer, subnetCache, memory, worker, budget>>

\* The Node cache takes in a watch event and passes it on to the handler.
syncNodeCache ==
  /\ nodeEvents # <<>> /\ nodeEvents' = Tail(nodeEvents)
  /\ LET e == Head(nodeEvents)
         gone == e.node = NoNode
         call == [name |-> e.name, deleted |-> gone,
                  node |-> IF gone THEN nodeCache[e.name] ELSE e.node]
     IN  /\ nodeCache' = [nodeCache EXCEPT ![e.name] = e.node]
         /\ nodePending' = IF watchingNodes THEN Append(nodePending, call) ELSE nodePending
  /\ UNCHANGED <<api, subnetInformer, startup, memory, worker, budget>>

syncSubnetCache ==
  /\ phase # "running" /\ subnetEvents # <<>> /\ subnetEvents' = Tail(subnetEvents)
  /\ subnetCache' = [subnetCache EXCEPT ![Head(subnetEvents).name] = Head(subnetEvents).obj]
  /\ UNCHANGED <<api, nodeInformer, startup, memory, worker, budget>>

resyncNodes ==
  /\ watchingNodes /\ nodePending = <<>> /\ nodePending' \in AllNodes
  /\ UNCHANGED <<api, nodeEvents, nodeCache, subnetInformer, startup, memory, worker, budget>>

resyncSubnets ==
  /\ phase = "running" /\ subnetEvents = <<>> /\ subnetEvents' \in AllSubnets
  /\ UNCHANGED <<api, nodeInformer, subnetCache, startup, memory, worker, budget>>

\* The watch breaks; the new list has the Nodes as they are, not their history.
relistNodes ==
  /\ nodeEvents # <<>> /\ Spend("gaps")
  /\ \E order \in Orders({n \in Names : nodes[n] # nodeCache[n]}) :
       nodeEvents' = [i \in DOMAIN order |-> [name |-> order[i], node |-> nodes[order[i]]]]
  /\ UNCHANGED <<api, nodeCache, nodePending, subnetInformer, startup, memory, worker>>

-----------------------------------------------------------------------------
(***************************************************************************)
(* Users, administrators, and crashes of the master.                       *)
(***************************************************************************)
WriteNode(n, node) ==
  /\ nodes' = [nodes EXCEPT ![n] = node]
  /\ nodeEvents' = Append(nodeEvents, [name |-> n, node |-> node])
  /\ Spend("users")
  /\ UNCHANGED <<hostSubnets, nodeCache, nodePending, subnetInformer, startup, memory, worker>>

CreateNode(n, ip) ==
  /\ nodes[n] = NoNode /\ births[n] < MaxBirths
  /\ births' = [births EXCEPT ![n] = @ + 1]
  /\ WriteNode(n, [uid |-> births'[n], ip |-> ip])

ChangeNodeIP(n, ip) ==
  /\ nodes[n] # NoNode /\ nodes[n].ip # ip
  /\ WriteNode(n, [nodes[n] EXCEPT !.ip = ip]) /\ UNCHANGED births

DeleteNode(n) ==
  /\ nodes[n] # NoNode
  /\ WriteNode(n, NoNode) /\ UNCHANGED births

\* With the annotation, or by mistake without it: then it is not valid.
CreateHostSubnet(n, ip, assign) ==
  /\ ~Exists(hostSubnets[n])
  /\ Write(n, [Absent EXCEPT !.ip = ip, !.assign = assign]) /\ Spend("admins")
  /\ UNCHANGED <<nodes, births, nodeInformer, subnetCache, startup, memory, worker>>

\* An administrator takes back a HostSubnet that belongs to no node.
DeleteHostSubnet(n) ==
  /\ Exists(hostSubnets[n]) /\ hostSubnets[n].uid = NoUID
  /\ Write(n, Absent) /\ Spend("admins")
  /\ UNCHANGED <<nodes, births, nodeInformer, subnetCache, startup, memory, worker>>

noNodeIPs == [node \in Names \X UIDs |-> NoIP]

Restart ==
  /\ phase' = "synced" /\ allocators' = newAllocators /\ hostSubnetNodeIPs' = noNodeIPs
  /\ worker' = [g \in Goroutines |-> Idle]
  /\ nodeCache' = nodes /\ nodeEvents' = <<>> /\ nodePending' = <<>>
  /\ subnetCache' = hostSubnets /\ subnetEvents' = <<>>
  /\ Spend("restarts")
  /\ UNCHANGED <<api, loose>>

Init ==
  /\ nodes = [n \in Names |-> NoNode] /\ births = [n \in Names |-> 0]
  /\ hostSubnets = [n \in Names |-> Absent]
  /\ nodeCache = nodes /\ nodeEvents = <<>> /\ nodePending = <<>>
  /\ subnetCache = hostSubnets /\ subnetEvents = <<>>
  /\ phase = "synced" /\ loose = {} /\ hostSubnetNodeIPs = noNodeIPs
  /\ worker = [g \in Goroutines |-> Idle]
  /\ \E s \in Scenarios :
       /\ allocators = [k \in DOMAIN s.networks |-> newSubnetAllocator(s.networks[k])]
       /\ budget = s.budget

addNode(g) ==
  \/ addNodeGet(g) \/ addNodeDelete(g) \/ addNodeUpdate(g)
  \/ addNodeAllocate(g) \/ addNodeCreate(g)

NodeGoroutine ==
  handleAddOrUpdateNode \/ handleDeleteNode \/ deleteNode \/ addNode("node")

SubnetGoroutine ==
  \/ handleAddOrUpdateSubnet \/ handleDeleteSubnet \/ stampUID \/ deleteStale
  \/ handleAssignHostSubnetAnnotation \/ addNode("subnet")

startSubnetMaster == initSubnetAllocators \/ watchNodes \/ watchSubnets

Users ==
  \/ \E n \in NodeNames :
       \/ \E ip \in NodeIPs \cup {NoIP} : CreateNode(n, ip) \/ ChangeNodeIP(n, ip)
       \/ DeleteNode(n)
  \/ \E n \in ClaimedNames :
       \/ \E ip \in NodeIPs, assign \in BOOLEAN : CreateHostSubnet(n, ip, assign)
       \/ DeleteHostSubnet(n)

Next ==
  \/ startSubnetMaster \/ NodeGoroutine \/ SubnetGoroutine
  \/ syncNodeCache \/ syncSubnetCache \/ resyncNodes \/ resyncSubnets \/ relistNodes
  \/ Users \/ Restart

Spec == Init /\ [][Next]_vars

\* The goroutines of the master and of the informers keep running, and the
\* resync timers keep firing.  Users, failures and crashes are not fair.
Fairness ==
  /\ WF_vars(startSubnetMaster) /\ WF_vars(NodeGoroutine) /\ WF_vars(SubnetGoroutine)
  /\ WF_vars(syncNodeCache) /\ WF_vars(resyncNodes) /\ WF_vars(resyncSubnets)

FairSpec == Spec /\ Fairness

-----------------------------------------------------------------------------
\* What the objects, the informers, the allocators and the goroutines may be;
\* every allocator has only subnets of its own network.
TypeOK ==
  /\ nodes \in [Names -> Node] /\ births \in [Names -> 0 .. MaxBirths]
  /\ hostSubnets \in [Names -> HostSubnet]
  /\ nodeCache \in [Names -> Node] /\ nodeEvents \in Seq(NodeEvent)
  /\ nodePending \in Seq(PendingNode)
  /\ subnetCache \in [Names -> HostSubnet] /\ subnetEvents \in Seq(SubnetEvent)
  /\ phase \in {"synced", "listed", "watchingNodes", "running"} /\ loose \subseteq Nat
  /\ \A k \in DOMAIN allocators : allocators[k].allocMap \subseteq Subnets(allocators[k])
  /\ hostSubnetNodeIPs \in [Names \X UIDs -> NodeIPs \cup {NoIP}]
  /\ worker \in [Goroutines -> Worker] /\ budget \in Budget

\* Whatever the network and the size of its subnets, the master hands out all of
\* them, in the order the comment in newSubnetAllocator promises: those with all
\* 0s in the octet shared with the host part first.
AllocationOrder ==
  \A k \in DOMAIN allocators :
    InOrder(allocators[k]) /\ WithinNetwork(allocators[k])

\* No two HostSubnets have one subnet, whatever the two goroutines, failed calls,
\* late events and restarts do; unless the subnet was of a HostSubnet deleted
\* between the informer's list and that of initSubnetAllocators, or released
\* because a Create returned an error although it had been carried out.
DisjointSubnets ==
  \A m, n \in Assigned :
    m # n /\ hostSubnets[m].subnet = hostSubnets[n].subnet => hostSubnets[m].subnet \in loose

\* Once the HostSubnets have been listed, every subnet of one is taken in the
\* allocators, so that none in use can be handed out again, except the same.
StoredIsTaken == phase # "synced" => Stored \subseteq Taken(allocators) \cup loose

Lost == Taken(allocators) \ (Stored \cup Leaving)

\* Once both handlers are registered, no step loses a subnet: one that is taken
\* belongs to a HostSubnet, or is going to be released.  (Before, it can happen:
\* the deletion of a HostSubnet after the list and before watchSubnets reaches
\* the informer's cache, and no handler.)
NoSubnetLost == [][phase = "running" /\ phase' = "running" => Lost' \subseteq Lost]_vars

Wants(n) == ValidateNodeIP(nodes[n].ip)
Served(n) ==
  /\ hostSubnets[n].subnet # NoSubnet
  /\ hostSubnets[n].uid = nodes[n].uid /\ hostSubnets[n].ip = nodes[n].ip

\* A node with a valid address is given a HostSubnet of its own with that
\* address, unless it goes away first.
NodesServed == \A n \in NodeNames : Wants(n) ~> (Served(n) \/ ~Wants(n))

\* A HostSubnet that has the UID of a node that is gone is deleted in the end.
OrphansCollected ==
  \A n \in Names :
    (hostSubnets[n].uid # NoUID /\ hostSubnets[n].uid # nodes[n].uid)
      ~> (hostSubnets[n].uid = NoUID \/ hostSubnets[n].uid = nodes[n].uid)
=============================================================================
