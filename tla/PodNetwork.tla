----------------------------- MODULE PodNetwork -----------------------------
(***************************************************************************)
(* The pods and services of one node under the multitenant plugin: the     *)
(* nodeVNIDMap, multiTenantPlugin, podManager, the service handlers and    *)
(* the OVS flows they write.                                               *)
(*                                                                         *)
(* Four goroutines: the handler of the NetNamespace informer, the worker   *)
(* of podManager (which takes the requests of the kubelet and of the       *)
(* handler one at a time, holding runningPodsLock), the handler of the     *)
(* Service informer and the hourly SyncVNIDRules.  The process may be      *)
(* restarted, with OVS as it was or emptied.                               *)
(***************************************************************************)
EXTENDS Naturals, FiniteSets, Sequences, SequencesExt

CONSTANTS
  Namespaces, VNIDs, Pods, Sandboxes, IPs, Services,
  PodOf,        \* PodOf[s]: the pod whose sandbox s is
  NamespaceOf,  \* NamespaceOf[x]: the namespace of the pod or service x
  none,
  Scenarios     \* the NetNamespaces at the start, and what may happen

VARIABLES
  netns,     \* netns[n]: the NetNamespace of n in the API, [id, mc], or none
  events,    \* NetNamespace events not handled yet
  vnids,     \* nodeVNIDMap: vnids[n] = [id, mc], or none
  handler,   \* the NetNamespace handler, in updatePodNetwork
  requests,  \* podManager.requests
  worker,    \* processCNIRequests
  running,   \* runningPods: running[p] = [vnid, sandbox], or none
  sandboxes, \* what the kubelet knows of each sandbox
  leases,    \* leases[s]: the IP host-local leases to s, or none
  services,  \* services[x]: where the Service and its handler are
  ovs,       \* the ports and flows
  inUse,     \* vnidInUse
  unused,    \* what SyncVNIDRules found while it holds vnidInUseLock, or none
  missed,    \* not in the code: what may be out of date for good, see Notes
  budget     \* what may still happen

vars == <<netns, events, vnids, handler, requests, worker, running, sandboxes, leases,
          services, ovs, inUse, unused, missed, budget>>

\* A port's sandbox is kept in its external_ids with the pod's IP; the flows of a pod
\* are keyed by its IP, those of a service by its ClusterIP.  rules: the VNIDs with a
\* flow in table 80; mcast[v]: the ports that get multicast of v.
SetupOVS ==
  [ports |-> [s \in Sandboxes |-> none], flows |-> [i \in IPs |-> none],
   services |-> [x \in Services |-> none], rules |-> {}, mcast |-> [v \in VNIDs |-> {}]]

Idle == [step |-> "idle"]
Live(s) == sandboxes[s] \in {"up", "running"}
SandboxNamespace(s) == NamespaceOf[PodOf[s]]
Spend(field) == budget[field] > 0 /\ budget' = [budget EXCEPT ![field] = @ - 1]

-----------------------------------------------------------------------------
\* The VNIDs loaded by the flows of tables 60 and 70.
loaded(o) ==
  {o.services[x] : x \in {y \in Services : o.services[y] # none}}
  \cup {o.flows[i].vnid : i \in {j \in IPs : o.flows[j] # none}}

GetMulticastEnabled(m, v) ==
  LET members == {n \in Namespaces : m[n] # none /\ m[n].id = v}
  IN members # {} /\ \A n \in members : m[n].mc

\* updateLocalMulticastRulesWithLock, with the map m and the running pods r.
updateLocalMulticastRules(o, m, r, v) ==
  [o EXCEPT !.mcast[v] =
     IF GetMulticastEnabled(m, v)
     THEN {r[p].sandbox : p \in {q \in Pods : r[q] # none /\ r[q].vnid = v}} ELSE {}]

(***************************************************************************)
(* Notes, the members of missed:                                           *)
(*   <<"vnid", x>>     the flows of the sandbox or Service x may have an   *)
(*                     old VNID, or be missing;                            *)
(*   <<"ip", s>>       the IP of the sandbox s is also on another port;    *)
(*   <<"rules", s>>    s got a VNID that nobody ensures the rules of;      *)
(*   <<"table80", v>>  the flow of v in table 80 could not be written;     *)
(*   <<"map", n>>      vnids[n] is not what the events said last, and an   *)
(*                     event may be skipped for it;                        *)
(*   <<"mcast", v>>    the multicast flows of v may be out of date.        *)
(***************************************************************************)

\* WaitAndGetVNID: six tries of the map, then the API, and what that answers is set in
\* the map in a step of its own (setVNID).
InAPI(n) == vnids[n] = none /\ netns[n] # none

NotFound(n) == /\ vnids[n] = none
               /\ IF netns[n] = none THEN UNCHANGED budget ELSE Spend("failures")

\* Not in the code: what setVNID of an answer of the API leaves out of date.
Overwrites(n, obj) ==
  LET ids == {obj.id} \cup IF vnids[n] = none THEN {} ELSE {vnids[n].id}
      event == \E i \in DOMAIN events : events[i].n = n
      lost == vnids[n] # none \/ (handler # Idle /\ handler.n = n) \/ (netns[n] # obj /\ ~event)
  IN IF vnids[n] = obj THEN {}
     ELSE ({"mcast"} \X ids) \cup IF lost THEN {<<"map", n>>} ELSE {}

setVNID(n, obj) == vnids' = [vnids EXCEPT ![n] = obj]

\* The VNID is taken for one in use even if the flow cannot be written.
EnsureVNIDRules(v) ==
  \/ /\ v = 0 \/ (unused = none /\ v \in inUse)
     /\ UNCHANGED <<ovs, inUse, missed, budget>>
  \/ /\ v # 0 /\ unused = none /\ v \notin inUse
     /\ inUse' = inUse \cup {v}
     /\ \/ /\ ovs' = [ovs EXCEPT !.rules = @ \cup {v}]
           /\ missed' = missed \ {<<"table80", v>>}
           /\ UNCHANGED budget
        \/ /\ Spend("failures")
           /\ missed' = IF v \in ovs.rules THEN missed ELSE missed \cup {<<"table80", v>>}
           /\ UNCHANGED ovs

\* Takes only pods for users of a VNID.
FindUnusedVNIDs_PodsOnly ==
  ovs.rules \ {ovs.flows[i].vnid : i \in {j \in IPs : ovs.flows[j] # none}}

FindUnusedVNIDs == ovs.rules \ loaded(ovs)

\* SyncVNIDRules: the flows are dumped, then those of unused VNIDs deleted; it holds
\* vnidInUseLock throughout.
SyncVNIDRules ==
  \/ /\ unused = none
     /\ Spend("syncs")
     /\ unused' = FindUnusedVNIDs
     /\ UNCHANGED <<ovs, inUse>>
  \/ /\ unused # none
     /\ inUse' = inUse \ unused
     /\ \/ ovs' = [ovs EXCEPT !.rules = @ \ unused] /\ UNCHANGED budget
        \/ Spend("failures") /\ UNCHANGED ovs
     /\ unused' = none

-----------------------------------------------------------------------------
(***************************************************************************)
(* The handler of NetNamespaces.                                           *)
(***************************************************************************)

\* The step of updatePodNetwork that follows the lists.
afterList(h) == IF h.old = h.new THEN "multicast" ELSE "pods"

\* Takes a change of the VNID alone for an event that changes nothing.
handleAddOrUpdateNetNamespace_Skips(e) ==
  IF vnids[e.n] # none /\ vnids[e.n].mc = e.obj.mc
  THEN UNCHANGED <<vnids, handler>>
  ELSE /\ vnids' = [vnids EXCEPT ![e.n] = e.obj]
       /\ handler' = [step |-> "list", n |-> e.n, new |-> e.obj.id,
                      old |-> IF e.added \/ vnids[e.n] = none THEN 0 ELSE vnids[e.n].id]

handleAddOrUpdateNetNamespace(e) ==
  IF vnids[e.n] = e.obj
  THEN UNCHANGED <<vnids, handler>>
  ELSE /\ vnids' = [vnids EXCEPT ![e.n] = e.obj]
       /\ handler' = [step |-> "list", n |-> e.n, new |-> e.obj.id,
                      old |-> IF e.added \/ vnids[e.n] = none THEN 0 ELSE vnids[e.n].id]

handleDeleteNetNamespace(e) ==
  /\ vnids' = [vnids EXCEPT ![e.n] = none]
  /\ handler' = [step |-> "list", n |-> e.n, new |-> 0, old |-> e.old.id]

handleEvent ==
  /\ handler = Idle /\ events # <<>>
  /\ LET e == Head(events) IN
       IF e.obj # none THEN handleAddOrUpdateNetNamespace(e) ELSE handleDeleteNetNamespace(e)
  /\ events' = Tail(events)
  \* A Service handler that has read the old VNID will write it, and the multicast of
  \* the VNID in the map is not updated if the event is for another.
  /\ missed' =
       LET n == Head(events).n
           late == {x \in Services : services[x].step = "adding" /\ NamespaceOf[x] = n}
           left == {v \in VNIDs : vnids[n] # none /\ v = vnids[n].id /\ v # handler'.old}
           set == IF handler'.old = handler'.new THEN {} ELSE {<<"map", n>>}
       IN IF vnids' = vnids THEN missed
          ELSE (missed \ set) \cup ({"vnid"} \X late) \cup ({"mcast"} \X left)
  /\ UNCHANGED <<netns, requests, worker, running, sandboxes, leases, services, ovs, inUse,
                 unused, budget>>

\* Pods of n with a network, or in setup after GetVNID, that are not in the list.
missedBy(n, listed) ==
  {s \in Sandboxes \ listed : /\ SandboxNamespace(s) = n
                              /\ ovs.ports[s] # none \/ (worker # Idle /\ worker.s = s)}

InAPIServices(n) ==
  {x \in Services : NamespaceOf[x] = n /\ services[x].step # "absent" /\ ~services[x].gone}

\* GetLocalPods, and the list of services: each is empty if the call fails.
list ==
  /\ handler.step = "list"
  /\ \E gotPods, gotServices \in BOOLEAN :
       LET n == handler.n
           pods == {s \in Sandboxes : /\ gotPods /\ SandboxNamespace(s) = n
                                      /\ sandboxes[s] = "running"}
           listed == IF gotServices THEN InAPIServices(n) ELSE {}
       IN /\ IF gotPods /\ gotServices THEN UNCHANGED budget ELSE Spend("failures")
          /\ handler' = [step |-> afterList(handler), n |-> n, old |-> handler.old,
                         new |-> handler.new, pods |-> pods, services |-> listed]
          /\ missed' = IF handler.old = handler.new THEN missed
                       ELSE missed \cup ({"vnid"} \X (missedBy(n, pods)
                                                    \cup (InAPIServices(n) \ listed)))
  /\ UNCHANGED <<netns, events, vnids, requests, worker, running, sandboxes, leases,
                 services, ovs, inUse, unused>>

\* UpdatePod: a CNI_UPDATE is queued and its result awaited, unless the sandbox is not
\* found.
UpdatePod ==
  /\ handler.step = "pods"
  /\ \E s \in handler.pods :
       \/ /\ requests' = Append(requests, [cmd |-> "UPDATE", s |-> s])
          /\ handler' = [handler EXCEPT !.step = "wait", !.pods = @ \ {s}]
          /\ UNCHANGED <<missed, budget>>
       \/ /\ Spend("failures")
          /\ handler' = [handler EXCEPT !.pods = @ \ {s}]
          /\ missed' = missed \cup {<<"vnid", s>>}
          /\ UNCHANGED requests
  /\ UNCHANGED <<netns, events, vnids, worker, running, sandboxes, leases, services, ovs,
                 inUse, unused>>

\* DeleteServiceRules and AddServiceRules for each, with a transaction each.
updateServices ==
  /\ handler.step = "pods" /\ handler.pods = {}
  /\ \E failed \in SUBSET handler.services, deleted \in SUBSET handler.services :
       /\ deleted \subseteq failed
       /\ IF failed = {} THEN UNCHANGED budget ELSE Spend("failures")
       /\ ovs' = [ovs EXCEPT !.services =
                    [x \in Services |-> CASE x \in handler.services \ failed -> handler.new
                                          [] x \in deleted -> none
                                          [] OTHER -> @[x]]]
       /\ missed' = LET late == {x \in handler.services : services[x].step = "adding"}
                    IN (missed \ ({"vnid"} \X (handler.services \ (failed \cup late))))
                       \cup ({"vnid"} \X failed)
  /\ handler' = [handler EXCEPT !.step = "ensure"]
  /\ UNCHANGED <<netns, events, vnids, requests, worker, running, sandboxes, leases,
                 services, inUse, unused>>

updateRules ==
  /\ handler.step = "ensure"
  /\ EnsureVNIDRules(handler.new)
  /\ handler' = [handler EXCEPT !.step = "multicast"]
  /\ UNCHANGED <<netns, events, vnids, requests, worker, running, sandboxes, leases,
                 services, unused>>

\* Leaves the rules of the VNID the namespace had.
updateMulticast_New ==
  /\ handler.step = "multicast" /\ worker = Idle
  /\ ovs' = updateLocalMulticastRules(ovs, vnids, running, handler.new)
  /\ missed' = missed \ ({"mcast"} \X {handler.old, handler.new})
  /\ handler' = Idle
  /\ UNCHANGED <<netns, events, vnids, requests, worker, running, sandboxes, leases,
                 services, inUse, unused, budget>>

\* UpdateLocalMulticastRules waits for the worker, which has runningPodsLock.
updateMulticast ==
  /\ handler.step = "multicast" /\ worker = Idle
  /\ ovs' = updateLocalMulticastRules(
              updateLocalMulticastRules(ovs, vnids, running, handler.old),
              vnids, running, handler.new)
  /\ missed' = missed \ ({"mcast"} \X {handler.old, handler.new})
  /\ handler' = Idle
  /\ UNCHANGED <<netns, events, vnids, requests, worker, running, sandboxes, leases,
                 services, inUse, unused, budget>>

Handler == handleEvent \/ list \/ UpdatePod \/ updateServices \/ updateRules \/ updateMulticast

-----------------------------------------------------------------------------
(***************************************************************************)
(* The worker.                                                             *)
(***************************************************************************)

\* setup gives up: the lease is released, what SetUpPod did stays.
setupFailed(s) ==
  /\ leases' = [leases EXCEPT ![s] = none]
  /\ sandboxes' = [sandboxes EXCEPT ![s] = "failed"]
  /\ worker' = Idle

\* setup up to GetVNID: ipamAdd leases some free address.  Not in the code: missed
\* records an address that is still on the port of another sandbox.
beginSetup ==
  /\ worker = Idle /\ requests # <<>> /\ Head(requests).cmd = "ADD"
  /\ requests' = Tail(requests)
  /\ LET s == Head(requests).s
         n == SandboxNamespace(s)
         free == IPs \ Range(leases)
     IN \/ /\ \/ free = {} /\ UNCHANGED budget
              \/ free # {} /\ NotFound(n)
           /\ setupFailed(s)
           /\ UNCHANGED missed
        \/ /\ vnids[n] # none \/ InAPI(n)
           /\ worker' = IF InAPI(n) THEN [step |-> "fetched", s |-> s, cmd |-> "ADD", obj |-> netns[n]]
                        ELSE [step |-> "setup", s |-> s, vnid |-> vnids[n].id]
           /\ \E i \in free :
                /\ leases' = [leases EXCEPT ![s] = i]
                /\ missed' = missed \cup IF i \in Range(ovs.ports) THEN {<<"ip", s>>} ELSE {}
           /\ UNCHANGED <<sandboxes, budget>>
  /\ UNCHANGED <<netns, events, vnids, handler, running, services, ovs, inUse, unused>>

\* SetUpPod adds the port and replaces the flows of the IP; then setupPodBandwidth.
SetUpPod ==
  /\ worker.step = "setup"
  /\ ovs' = [ovs EXCEPT !.ports[worker.s] = leases[worker.s],
                        !.flows[leases[worker.s]] = [vnid |-> worker.vnid,
                                                     sandbox |-> worker.s]]
  /\ \/ /\ worker' = [worker EXCEPT !.step = "ensure"]
        /\ UNCHANGED <<leases, sandboxes, budget>>
     \/ /\ Spend("failures")
        /\ setupFailed(worker.s)
  /\ UNCHANGED <<netns, events, vnids, handler, requests, running, services, inUse,
                 unused, missed>>

ensurePodRules ==
  /\ worker.step = "ensure"
  /\ EnsureVNIDRules(worker.vnid)
  /\ worker' = [worker EXCEPT !.step = "added"]
  /\ UNCHANGED <<netns, events, vnids, handler, requests, running, sandboxes, leases,
                 services, unused>>

\* processRequest records the pod, and the result goes to the kubelet.
added ==
  /\ worker.step = "added"
  /\ running' = [running EXCEPT ![PodOf[worker.s]] = [vnid |-> worker.vnid,
                                                      sandbox |-> worker.s]]
  /\ ovs' = updateLocalMulticastRules(ovs, vnids, running', worker.vnid)
  /\ missed' = missed \ {<<"mcast", worker.vnid>>}
  /\ sandboxes' = [sandboxes EXCEPT ![worker.s] = "up"]
  /\ worker' = Idle
  /\ UNCHANGED <<netns, events, vnids, handler, requests, leases, services, inUse, unused,
                 budget>>

\* UpdatePod of ovsController: it fails without a port, or when a transaction does, and
\* then the flows are the old ones or gone.  The handler goes on.  Not in the code: notes,
\* to which the VNIDs are added that the handler will not ensure or update.
movePod(s, vnid, notes) ==
  LET p == PodOf[s]
      port == ovs.ports[s]
      ids == {vnid} \cup IF running[p] = none THEN {} ELSE {running[p].vnid}
  IN /\ \/ /\ port # none
           /\ ovs' = [ovs EXCEPT !.flows[port] = [vnid |-> vnid, sandbox |-> s]]
           /\ running' = IF running[p] = none THEN running ELSE [running EXCEPT ![p].vnid = vnid]
           /\ missed' = (notes \ {<<"vnid", s>>, <<"rules", s>>})
                          \cup ({"mcast"} \X (ids \ {handler.old, handler.new}))
                          \cup IF vnid # handler.new THEN {<<"rules", s>>} ELSE {}
           /\ UNCHANGED budget
        \/ /\ IF port = none THEN UNCHANGED <<ovs, budget>>
              ELSE /\ Spend("failures")
                   /\ ovs' \in {ovs, [ovs EXCEPT !.flows[port] = none]}
           /\ missed' = notes \cup {<<"vnid", s>>}
           /\ UNCHANGED running
     /\ handler' = [handler EXCEPT !.step = "pods"]

\* CNI_UPDATE: GetVNID, then UpdatePod of ovsController.
update ==
  /\ worker = Idle /\ requests # <<>> /\ Head(requests).cmd = "UPDATE"
  /\ requests' = Tail(requests)
  /\ LET s == Head(requests).s
         n == SandboxNamespace(s)
     IN \/ /\ vnids[n] # none
           /\ movePod(s, vnids[n].id, missed)
           /\ UNCHANGED worker
        \/ /\ InAPI(n)
           /\ worker' = [step |-> "fetched", s |-> s, cmd |-> "UPDATE", obj |-> netns[n]]
           /\ UNCHANGED <<ovs, running, handler, missed, budget>>
        \/ /\ NotFound(n)
           /\ missed' = missed \cup {<<"vnid", s>>}
           /\ handler' = [handler EXCEPT !.step = "pods"]
           /\ UNCHANGED <<ovs, running, worker>>
  /\ UNCHANGED <<netns, events, vnids, sandboxes, leases, services, inUse, unused>>

\* The end of WaitAndGetVNID after the API was asked, for setup or update.
setFetched ==
  /\ worker.step = "fetched"
  /\ LET n == SandboxNamespace(worker.s)
         notes == missed \cup Overwrites(n, worker.obj)
     IN /\ setVNID(n, worker.obj)
        /\ IF worker.cmd = "ADD"
           THEN /\ worker' = [step |-> "setup", s |-> worker.s, vnid |-> worker.obj.id]
                /\ missed' = notes
                /\ UNCHANGED <<handler, ovs, running, budget>>
           ELSE movePod(worker.s, worker.obj.id, notes) /\ worker' = Idle
  /\ UNCHANGED <<netns, events, requests, sandboxes, leases, services, inUse, unused>>

\* CNI_DEL: runningPods is keyed by the pod's name, the flows are deleted by IP.
teardown ==
  /\ worker = Idle /\ requests # <<>> /\ Head(requests).cmd = "DEL"
  /\ requests' = Tail(requests)
  /\ LET s == Head(requests).s
         p == PodOf[s]
         o == IF running[p] = none THEN ovs
              ELSE updateLocalMulticastRules(ovs, vnids, [running EXCEPT ![p] = none],
                                             running[p].vnid)
     IN /\ running' = [running EXCEPT ![p] = none]
        /\ ovs' = IF o.ports[s] = none THEN o
                  ELSE [o EXCEPT !.flows[o.ports[s]] = none, !.ports[s] = none]
        /\ leases' = [leases EXCEPT ![s] = none]
        /\ sandboxes' = [sandboxes EXCEPT ![s] = "gone"]
        /\ missed' = IF running[p] = none THEN missed
                     ELSE missed \ {<<"mcast", running[p].vnid>>}
  /\ UNCHANGED <<netns, events, vnids, handler, worker, services, inUse, unused, budget>>

Worker == beginSetup \/ SetUpPod \/ ensurePodRules \/ added \/ update \/ setFetched \/ teardown

-----------------------------------------------------------------------------
(***************************************************************************)
(* The handler of Services.  A Service is absent, pending (its event has   *)
(* not been handled), fetched (the API was asked), adding (GetVNID done),  *)
(* ensuring or present, and gone once it is deleted in the API.            *)
(***************************************************************************)
Absent == [step |-> "absent", gone |-> FALSE]
Pending == [step |-> "pending", gone |-> FALSE]

serviceAt(x, value) == services' = [services EXCEPT ![x] = value]

GetServiceVNID(x) ==
  LET n == NamespaceOf[x]
      at(step) == [step |-> step, gone |-> services[x].gone]
      with(vnid) == [step |-> "adding", gone |-> services[x].gone, vnid |-> vnid]
  IN /\ \/ /\ services[x].step = "pending"
           /\ \A y \in Services : services[y].step \notin {"fetched", "adding", "ensuring"}
           /\ \/ /\ vnids[n] # none
                 /\ serviceAt(x, with(vnids[n].id))
                 /\ missed' = missed \ {<<"vnid", x>>}
                 /\ UNCHANGED budget
              \/ /\ InAPI(n)
                 /\ serviceAt(x, [step |-> "fetched", gone |-> services[x].gone,
                                   obj |-> netns[n]])
                 /\ UNCHANGED <<missed, budget>>
              \/ /\ NotFound(n)
                 /\ serviceAt(x, at("present"))
                 /\ missed' = missed \cup {<<"vnid", x>>}
           /\ UNCHANGED vnids
        \/ /\ services[x].step = "fetched"
           /\ setVNID(n, services[x].obj)
           /\ serviceAt(x, with(services[x].obj.id))
           /\ missed' = (missed \ {<<"vnid", x>>}) \cup Overwrites(n, services[x].obj)
           /\ UNCHANGED budget
     /\ UNCHANGED <<netns, events, handler, requests, worker, running, sandboxes, leases, ovs,
                    inUse, unused>>

AddServiceRules(x) ==
  /\ services[x].step = "adding"
  /\ \/ /\ ovs' = [ovs EXCEPT !.services[x] = services[x].vnid]
        /\ UNCHANGED <<missed, budget>>
     \/ /\ Spend("failures")
        /\ missed' = missed \cup {<<"vnid", x>>}
        /\ UNCHANGED ovs
  /\ services' = [services EXCEPT ![x].step = "ensuring"]
  /\ UNCHANGED <<netns, events, vnids, handler, requests, worker, running, sandboxes,
                 leases, inUse, unused>>

EnsureServiceRules(x) ==
  /\ services[x].step = "ensuring"
  /\ EnsureVNIDRules(services[x].vnid)
  /\ serviceAt(x, [step |-> "present", gone |-> services[x].gone])
  /\ UNCHANGED <<netns, events, vnids, handler, requests, worker, running, sandboxes,
                 leases, unused>>

handleDeleteService(x) ==
  /\ services[x].step = "present" /\ services[x].gone
  /\ ovs' = [ovs EXCEPT !.services[x] = none]
  /\ serviceAt(x, Absent)
  /\ UNCHANGED <<netns, events, vnids, handler, requests, worker, running, sandboxes,
                 leases, inUse, unused, missed, budget>>

ServiceHandler ==
  \E x \in Services : \/ GetServiceVNID(x) \/ AddServiceRules(x) \/ EnsureServiceRules(x)
                      \/ handleDeleteService(x)

-----------------------------------------------------------------------------
(***************************************************************************)
(* The rest of the cluster.                                                *)
(***************************************************************************)

\* A namespace goes when its pods and services are gone.
changeNetNamespace(n, obj) ==
  /\ netns[n] # obj
  /\ obj = none => /\ \A s \in Sandboxes : SandboxNamespace(s) = n =>
                                             sandboxes[s] \in {"new", "gone"}
                   /\ InAPIServices(n) = {}
  /\ Spend("changes")
  /\ netns' = [netns EXCEPT ![n] = obj]
  /\ events' = Append(events, [n |-> n, obj |-> obj, old |-> netns[n],
                               added |-> netns[n] = none])
  /\ UNCHANGED <<vnids, handler, requests, worker, running, sandboxes, leases, services,
                 ovs, inUse, unused, missed>>

\* The kubelet adds one sandbox of a pod at a time, reports the pod as Running some time
\* after the ADD, and deletes sandboxes whose ADD failed.
kubelet(s) ==
  /\ \/ /\ sandboxes[s] = "new"
        /\ netns[SandboxNamespace(s)] # none
        /\ \A t \in Sandboxes : t # s /\ PodOf[t] = PodOf[s] => sandboxes[t] \in {"new", "failed", "gone"}
        /\ Spend("pods")
        /\ sandboxes' = [sandboxes EXCEPT ![s] = "adding"]
        /\ requests' = Append(requests, [cmd |-> "ADD", s |-> s])
     \/ /\ sandboxes[s] = "up"
        /\ sandboxes' = [sandboxes EXCEPT ![s] = "running"]
        /\ UNCHANGED <<requests, budget>>
     \/ /\ sandboxes[s] \in {"up", "running", "failed"}
        /\ Spend("deletes")
        /\ sandboxes' = [sandboxes EXCEPT ![s] = "deleting"]
        /\ requests' = Append(requests, [cmd |-> "DEL", s |-> s])
  /\ UNCHANGED <<netns, events, vnids, handler, worker, running, leases, services, ovs,
                 inUse, unused, missed>>

\* A Service is created, or deleted.
changeService(x) ==
  /\ Spend("services")
  /\ \/ services[x].step = "absent" /\ netns[NamespaceOf[x]] # none /\ serviceAt(x, Pending)
     \/ /\ services[x].step # "absent" /\ ~services[x].gone
        /\ serviceAt(x, [services[x] EXCEPT !.gone = TRUE])
  /\ UNCHANGED <<netns, events, vnids, handler, requests, worker, running, sandboxes,
                 leases, ovs, inUse, unused, missed>>

\* reattachPods: an ADD with the IP the port had, which leaves runningPods alone.
reattachPods(o, m) ==
  LET again == {s \in Sandboxes : Live(s) /\ o.ports[s] # none /\ m[SandboxNamespace(s)] # none}
      vnidOf(s) == m[SandboxNamespace(s)].id
  IN [SetupOVS EXCEPT
        !.ports = [s \in Sandboxes |-> IF s \in again THEN o.ports[s] ELSE none],
        !.flows = [i \in IPs |->
                     IF \E s \in again : o.ports[s] = i
                     THEN LET s == CHOOSE t \in again : o.ports[t] = i
                          IN [vnid |-> vnidOf(s), sandbox |-> s]
                     ELSE none],
        !.rules = {vnidOf(s) : s \in again} \ {0}]

\* The process starts again (Start): the map is filled from the API (populateVNIDs),
\* every NetNamespace and Service is delivered as Added, and the kubelet retries what was
\* under way.  If OVS is not alreadySetUp the bridge is made anew.  Not in the code:
\* missed gets the pods that keep the flows of a VNID that is no longer their
\* namespace's, and those that had been moved to a VNID without rules.
restart ==
  /\ Spend("restarts")
  /\ vnids' = netns
  /\ events' = SetToSeq({[n |-> n, obj |-> netns[n], old |-> none, added |-> TRUE] :
                         n \in {m \in Namespaces : netns[m] # none}})
  /\ handler' = Idle /\ requests' = <<>> /\ worker' = Idle /\ unused' = none
  /\ running' = [p \in Pods |-> none]
  /\ sandboxes' = [s \in Sandboxes |->
                     IF sandboxes[s] \in {"adding", "deleting"} THEN "failed" ELSE sandboxes[s]]
  /\ services' = [x \in Services |-> IF services[x].step = "absent" \/ services[x].gone
                                     THEN Absent ELSE Pending]
  /\ \E networkChanged \in BOOLEAN :
       /\ ovs' = IF networkChanged THEN reattachPods(ovs, vnids') ELSE ovs
       /\ inUse' = ovs'.rules
       /\ missed' =
            LET old == {s \in Sandboxes : Live(s) /\ ovs.flows[ovs.ports[s]] # none}
                vnidOf(s) == ovs.flows[ovs.ports[s]].vnid
            IN IF networkChanged THEN {}
               ELSE {m \in missed : m[1] \notin {"map", "mcast"}}
                    \cup ({"vnid"} \X {s \in old : vnidOf(s) # netns[SandboxNamespace(s)].id})
                    \cup ({"rules"} \X {s \in old : vnidOf(s) \notin ovs.rules \cup {0}})
  /\ UNCHANGED <<netns, leases>>

Environment ==
  \/ \E n \in Namespaces, obj \in budget.objects : changeNetNamespace(n, obj)
  \/ \E s \in Sandboxes : kubelet(s)
  \/ \E x \in Services : changeService(x)
  \/ restart

Init ==
  /\ budget \in Scenarios
  /\ netns = budget.netns
  /\ events = <<>>
  /\ vnids = netns
  /\ handler = Idle
  /\ requests = <<>>
  /\ worker = Idle
  /\ running = [p \in Pods |-> none]
  /\ sandboxes = [s \in Sandboxes |-> "new"]
  /\ leases = [s \in Sandboxes |-> none]
  /\ services = [x \in Services |-> Absent]
  /\ ovs = SetupOVS
  /\ inUse = {}
  /\ unused = none
  /\ missed = {}

Sync == SyncVNIDRules /\ UNCHANGED <<netns, events, vnids, handler, requests, worker, running,
                                     sandboxes, leases, services, missed>>

Next == Handler \/ Worker \/ ServiceHandler \/ Sync \/ Environment

Spec == Init /\ [][Next]_vars

-----------------------------------------------------------------------------
Quiet ==
  /\ events = <<>> /\ handler = Idle /\ requests = <<>> /\ worker = Idle
  /\ \A x \in Services : /\ services[x].step \in {"absent", "present"} /\ ~services[x].gone

Noted(tag, x) == <<tag, x>> \in missed

\* When nothing is under way, the flows of a pod are its own and carry the VNID of its
\* namespace, and so do those of a service: updatePodNetwork reaches every pod
\* that was Running when it listed them.  Not covered (missed): until it is reached by
\* the next move of its namespace, a pod whose ADD had read the old VNID and that was
\* not yet Running, a Service whose handler had, and whatever a failed call of
\* updatePodNetwork left out (the lists, the sandbox, the transactions of a pod or
\* service); the pods and services of a namespace for which WaitAndGetVNID put an old
\* answer of the API over what an event had set; a pod whose namespace changed while the
\* process was down; and a pod that got the IP of a port a failed ADD had left.
PodsFollowNamespaces ==
  Quiet =>
    /\ \A s \in Sandboxes :
         /\ Live(s) /\ ~Noted("vnid", s) /\ ~Noted("ip", s)
         /\ ~Noted("map", SandboxNamespace(s))
         => /\ ovs.ports[s] # none
            /\ ovs.flows[ovs.ports[s]] = [vnid |-> netns[SandboxNamespace(s)].id,
                                          sandbox |-> s]
    /\ \A x \in Services :
         /\ services[x].step = "present" /\ ~Noted("vnid", x) /\ ~Noted("map", NamespaceOf[x])
         => ovs.services[x] = netns[NamespaceOf[x]].id

\* Some thread is still to call EnsureVNIDRules(v).
EnsurePending(v) ==
  \/ worker.step = "ensure" /\ worker.vnid = v
  \/ handler.step \in {"pods", "wait", "ensure"} /\ handler.new = v
  \/ \E x \in Services : services[x].step = "ensuring" /\ services[x].vnid = v

\* The claim of FindUnusedVNIDs' comment: whatever SyncVNIDRules deletes, the VNID of
\* a live pod or a service has its flow in table 80, or the thread that wrote its
\* flows is still to call EnsureVNIDRules.  Not covered (missed): a pod moved by an
\* UPDATE that got another VNID than the handler that asked for it has, one moved just
\* before the process died, and a VNID whose flow EnsureVNIDRules failed to write.
VNIDRulesPresent ==
  LET HasRules(v) == \/ v \in ovs.rules \ (IF unused = none THEN {} ELSE unused)
                     \/ v = 0 \/ EnsurePending(v) \/ Noted("table80", v)
  IN /\ \A s \in Sandboxes :
          /\ Live(s) /\ ovs.ports[s] # none /\ ~Noted("rules", s)
          => LET f == ovs.flows[ovs.ports[s]] IN f = none \/ HasRules(f.vnid)
     /\ \A x \in Services :
          services[x].step = "present" /\ ovs.services[x] # none => HasRules(ovs.services[x])

\* When nothing is under way, a pod in runningPods gets the multicast of its VNID if every
\* namespace of that VNID allows it, and of no other VNID.  Not covered (missed): a VNID
\* that a namespace or pod took up or left by an answer of the API to WaitAndGetVNID, or
\* a pod that an earlier move had not reached, until its multicast is updated again.
MulticastFollowsPods ==
  Quiet => \A p \in Pods, v \in VNIDs :
             running[p] # none /\ ~Noted("mcast", v) =>
               (running[p].sandbox \in ovs.mcast[v]
                  <=> running[p].vnid = v /\ GetMulticastEnabled(vnids, v))
=============================================================================
