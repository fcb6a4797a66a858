--------------------------- MODULE EgressIPManager ---------------------------
(***************************************************************************)
(* The master's egressIPManager: it is the watcher of an EgressIPTracker,  *)
(* places the egress IPs of namespaces on nodes whose EgressCIDRs contain  *)
(* them by updating HostSubnets, and pings those nodes.                    *)
(*                                                                         *)
(* Five goroutines: the handlers of the HostSubnet and of the NetNamespace *)
(* informer, the reflector that fills the HostSubnet cache, the updater    *)
(* (maybeDoUpdateEgressCIDRs) and the poll loop.  The tracker's methods    *)
(* hold the tracker's lock and call UpdateEgressCIDRs, which needs the     *)
(* manager's; the updater holds the manager's lock and calls               *)
(* ReallocateEgressIPs, which needs the tracker's.                         *)
(*                                                                         *)
(* HostSubnets keep their HostIP here.                                     *)
(***************************************************************************)
EXTENDS EgressIPTracker, FiniteSetsExt

CONSTANTS
  Contents,   \* Contents[c]: the egress IPs in the CIDR c
  Scenarios,  \* what is there at the start, and what may happen to it
  maxRetries

VARIABLES
  api,       \* api[h]: HostSubnet h in the API, or none
  watch,     \* changes on their way to the cache: <<h, HostSubnet or none>>
  cache,     \* cache[h]: the object the lister returns for h, or none
  queue,     \* what the handler has not been called with yet, as in watch
  eim,       \* the manager's fields and the updater, see NewEgressIPManager
  lockHeld,  \* a method of the tracker has its lock, and waits for the manager's
  nodes,     \* nodes[a]: the egressNode of monitorNodes for address a, or none
  alive,     \* alive[a]: the node at a answers
  budget     \* what may still happen to the cluster

managerVars == <<tracker, hostSubnets, netNamespaces, api, watch, cache, queue, eim,
                 lockHeld, nodes, alive, budget>>

NewNode == [offline |-> FALSE, retries |-> 0]

\* The manager's fields, and its updater.  step: "none", PollInfinite "sleeping",
\* manager's lock taken ("locked"), "updating" the HostSubnets in left, or the Update
\* of sent under way ("sent"); conflict: the object sent
\* is no longer the newest.  Not in the code: raced is set by the first
\* reallocation before which the tracker had not been told of every HostSubnet, and
\* failed by the first Update of an existing HostSubnet that fails.
NewEgressIPManager ==
  [updatePending |-> FALSE, updatedAgain |-> FALSE, step |-> "none",
   allocation |-> [u \in UIDs |-> {}], left |-> {}, monitorNodes |-> {},
   sent |-> none, conflict |-> FALSE, raced |-> FALSE, failed |-> FALSE]

HostOf(u) == CHOOSE h \in Hosts : u \in UIDsOf[h]
LastOf(q, h) == SelectLastInSeq(q, LAMBDA e : e[1] = h)

-----------------------------------------------------------------------------
(***************************************************************************)
(* ReallocateEgressIPs.  The maps are visited in any order, so the result  *)
(* is a set of allocations; only the nodes with CIDRs have an entry.       *)
(***************************************************************************)
Managed(t) == {u \in UIDs : t.nodes[u].requestedCIDRs # {}}
Fits(t, u, ip) == \E c \in t.nodes[u].requestedCIDRs : ip \in Contents[c]

candidates_Offline(t, ip) == {u \in UIDs : Fits(t, u, ip)}

\* The nodes that could host ip.
candidates(t, ip) == {u \in UIDs : Fits(t, u, ip) /\ ~t.nodes[u].offline}

\* The nodes that findEgressIPAllocation may return.
findEgressIPAllocation(t, ip, allocation) ==
  {u \in candidates(t, ip) : \A w \in candidates(t, ip) :
     Cardinality(allocation[u]) <= Cardinality(allocation[w])}

\* alreadyAllocated of makeEmptyAllocation.
notAutoAssigned(t) ==
  {ip \in EgressIPs :
     LET eip == t.egressIPs[ip]
     IN  \/ ~IsSingle(eip.namespaces) \/ Cardinality(eip.nodes) > 1
         \/ Len(t.namespacesByVNID[Only(eip.namespaces)].requestedIPs) > 1}

assigned(t, already) == {ip \in EgressIPs \ already : t.egressIPs[ip].assignedNodeIP # none}

allocateExistingEgressIPs(t, already) ==
  [u \in UIDs |-> {ip \in assigned(t, already) :
     t.egressIPs[ip].nodes = {u} /\ u \in candidates(t, ip)}]

allocateNewEgressIPs(t, allocation, already) ==
  LET pending == {ip \in EgressIPs \ already : candidates(t, ip) # {}}
      forced  == {ip \in pending : IsSingle(candidates(t, ip))}
      first   == [u \in UIDs |-> allocation[u] \cup {ip \in forced : candidates(t, ip) = {u}}]
      place(as, ip) ==
        UNION {{[a EXCEPT ![u] = @ \cup {ip}] : u \in findEgressIPAllocation(t, ip, a)} : a \in as}
  IN  UNION {FoldLeft(place, {first}, order) : order \in SetToSeqs(pending \ forced)}

Incremental(t, already) ==
  allocateNewEgressIPs(t, allocateExistingEgressIPs(t, already), already \cup assigned(t, already))

ReallocateEgressIPs_MovesAtOnce(t) ==
  {[allocation |-> a, again |-> FALSE] :
     a \in allocateNewEgressIPs(t, allocateExistingEgressIPs(t, notAutoAssigned(t)),
             notAutoAssigned(t) \cup UNION Range(allocateExistingEgressIPs(t, notAutoAssigned(t))))}

ReallocateEgressIPs(t) ==
  LET already == notAutoAssigned(t)
      removed == assigned(t, already) # UNION Range(allocateExistingEgressIPs(t, already))
      fulls   == allocateNewEgressIPs(t, [u \in UIDs |-> {}], already)
      emptyNodes(a, full) ==
        {u \in UIDs : Cardinality(a[u]) < Cardinality(full[u]) \div 2}
      result(a, full) ==
        IF removed \/ emptyNodes(a, full) = {}
        THEN {[allocation |-> a, again |-> FALSE]}
        ELSE {[allocation |-> b, again |-> TRUE] :
                b \in Incremental(t, already \cup UNION {full[u] : u \in emptyNodes(a, full)})}
  IN  UNION {result(a, full) : a \in Incremental(t, already), full \in fulls}

-----------------------------------------------------------------------------
(***************************************************************************)
(* The calls of the tracker, and UpdateEgressCIDRs within them.            *)
(***************************************************************************)
Locked == eim.step \in {"locked", "updating", "sent"}

UpdateEgressCIDRs(m) ==
  IF m.updatePending THEN [m EXCEPT !.updatedAgain = TRUE]
  ELSE [m EXCEPT !.updatePending = TRUE, !.step = "sleeping"]

\* A method of the tracker makes it t.
Call(t) ==
  /\ ~lockHeld
  /\ tracker' = t
  /\ lockHeld' = (t.notified /\ Locked)
  /\ eim' = IF t.notified /\ ~Locked THEN UpdateEgressCIDRs(eim) ELSE eim

\* The manager's lock becomes free for the method that waits for it.
GetManagerLock ==
  /\ lockHeld /\ ~Locked
  /\ eim' = UpdateEgressCIDRs(eim)
  /\ lockHeld' = FALSE
  /\ UNCHANGED <<tracker, hostSubnets, netNamespaces, api, watch, cache, queue,
                 nodes, alive, budget>>

-----------------------------------------------------------------------------
(***************************************************************************)
(* The HostSubnet informer.  The cache and the handler's queue share the   *)
(* object that was read last.                                              *)
(***************************************************************************)
fillCache ==
  /\ watch # <<>>
  /\ watch' = Tail(watch)
  /\ cache' = [cache EXCEPT ![watch[1][1]] = watch[1][2]]
  /\ queue' = Append(queue, watch[1])
  /\ UNCHANGED <<tracker, hostSubnets, netNamespaces, api, eim, lockHeld, nodes,
                 alive, budget>>

handleHostSubnet ==
  /\ queue # <<>>
  /\ LET h  == queue[1][1]
         hs == queue[1][2]
     IN  /\ Call(UpdateHostSubnetEgress(tracker,
              IF hs # none THEN hs ELSE [hostSubnets[h] EXCEPT !.EgressIPs = {}, !.EgressCIDRs = {}]))
         /\ hostSubnets' = [hostSubnets EXCEPT ![h] = hs]
  /\ queue' = Tail(queue)
  /\ UNCHANGED <<netNamespaces, api, watch, cache, nodes, alive, budget>>

Write(h, hs) ==
  /\ api' = [api EXCEPT ![h] = hs]
  /\ watch' = Append(watch, <<h, hs>>)

-----------------------------------------------------------------------------
(***************************************************************************)
(* The updater: maybeDoUpdateEgressCIDRs with the manager's lock.          *)
(***************************************************************************)
maybeDoUpdateEgressCIDRs_Done ==
  /\ eim.step = "sleeping"
  /\ eim' = IF eim.updatedAgain THEN [eim EXCEPT !.updatedAgain = FALSE, !.step = "none"]
            ELSE [eim EXCEPT !.updatePending = FALSE, !.step = "locked"]
  /\ UNCHANGED <<tracker, hostSubnets, netNamespaces, api, watch, cache, queue, lockHeld,
                 nodes, alive, budget>>

\* PollInfinite has waited for a second: that the tracker has by then not been told
\* of a change to a HostSubnet costs one of budget.late.
maybeDoUpdateEgressCIDRs ==
  /\ eim.step = "sleeping"
  /\ IF eim.updatedAgain \/ hostSubnets = api THEN UNCHANGED budget
     ELSE budget.late > 0 /\ budget' = [budget EXCEPT !.late = @ - 1]
  /\ eim' = IF eim.updatedAgain THEN [eim EXCEPT !.updatedAgain = FALSE]
            ELSE [eim EXCEPT !.updatePending = FALSE, !.step = "locked"]
  /\ UNCHANGED <<tracker, hostSubnets, netNamespaces, api, watch, cache, queue, lockHeld,
                 nodes, alive>>

reallocate ==
  /\ eim.step = "locked" /\ ~lockHeld
  /\ \E r \in ReallocateEgressIPs(tracker) :
       /\ eim' = [eim EXCEPT !.step = "updating", !.allocation = r.allocation,
                             !.left = Managed(tracker), !.monitorNodes = {},
                             !.raced = @ \/ hostSubnets # api]
       /\ tracker' = [tracker EXCEPT !.updateEgressCIDRs = @ \/ r.again]
  /\ UNCHANGED <<hostSubnets, netNamespaces, api, watch, cache, queue, lockHeld,
                 nodes, alive, budget>>

\* One node of the allocation: the object read from the cache is changed in
\* place, and sent.
updateHostSubnet(u) ==
  /\ eim.step = "updating" /\ u \in eim.left
  /\ LET h    == HostOf(u)
         hs   == cache[h]
         new  == [hs EXCEPT !.EgressIPs = eim.allocation[u]]
         last == LastOf(queue, h)
         found == [eim EXCEPT !.monitorNodes = @ \cup {hs.HostIP}]
     IN  \/ /\ hs = none
            /\ eim' = [eim EXCEPT !.left = @ \ {u}]
            /\ UNCHANGED <<cache, queue>>
         \/ /\ hs # none /\ hs = new
            /\ eim' = [found EXCEPT !.left = @ \ {u}]
            /\ UNCHANGED <<cache, queue>>
         \/ /\ hs # none /\ hs # new
            /\ eim' = [found EXCEPT !.step = "sent", !.sent = h,
                                    !.conflict = LastOf(watch, h) # 0]
            /\ cache' = [cache EXCEPT ![h] = new]
            /\ queue' = IF last = 0 THEN queue ELSE [queue EXCEPT ![last] = <<h, new>>]
  /\ UNCHANGED <<tracker, hostSubnets, netNamespaces, api, watch, lockHeld, nodes,
                 alive, budget>>

\* The answer to the Update.  After a conflict RetryOnConflict starts again with
\* what the lister has by now; every other error is only logged.
updateAnswered(outcome) ==
  /\ eim.step = "sent"
  /\ LET h    == eim.sent
         done == [eim EXCEPT !.step = "updating", !.sent = none, !.conflict = FALSE,
                             !.left = @ \ UIDsOf[h],
                             !.failed = @ \/ (outcome # "ok" /\ api[h] # none)]
     IN  CASE outcome = "ok" ->
                /\ ~eim.conflict
                /\ eim' = done
                /\ Write(h, [api[h] EXCEPT !.EgressIPs = eim.allocation[Only(UIDsOf[h])]])
           [] outcome = "conflict" ->
                /\ eim.conflict /\ api[h] # none
                /\ eim' = [done EXCEPT !.left = eim.left]
                /\ UNCHANGED <<api, watch>>
           [] outcome = "error" ->
                /\ api[h] = none \/ budget.errors > 0
                /\ eim' = done
                /\ UNCHANGED <<api, watch>>
  /\ budget' = IF outcome = "error" /\ api[eim.sent] # none
               THEN [budget EXCEPT !.errors = @ - 1] ELSE budget
  /\ UNCHANGED <<tracker, hostSubnets, netNamespaces, cache, queue, lockHeld, nodes,
                 alive>>

\* monitorNodes is replaced: nodes that were in it keep their egressNode.
setMonitorNodes ==
  /\ eim.step = "updating" /\ eim.left = {}
  /\ nodes' = [a \in NodeIPs |-> CASE a \notin eim.monitorNodes -> none
                                   [] nodes[a] # none -> nodes[a]
                                   [] OTHER -> NewNode]
  /\ eim' = [eim EXCEPT !.step = "none", !.monitorNodes = {},
                        !.allocation = [u \in UIDs |-> {}]]
  /\ UNCHANGED <<tracker, hostSubnets, netNamespaces, api, watch, cache, queue, lockHeld,
                 alive, budget>>

-----------------------------------------------------------------------------
(***************************************************************************)
(* poll, which runs while there are nodes in monitorNodes, calls check     *)
(* for all of them again and again (its argument is always false, because  *)
(* poll declares retry again).  Each node is a step.  A node that leaves   *)
(* monitorNodes in the middle of a check is not visited any more here.     *)
(***************************************************************************)
\* Ping takes the tracker's lock to look up the node.
check(a, online) ==
  /\ nodes[a] # none /\ ~lockHeld
  /\ LET down == nodes[a].retries = maxRetries
     IN  IF nodes[a].offline = online
         THEN /\ nodes' = [nodes EXCEPT ![a] =
                   IF online THEN [@ EXCEPT !.offline = FALSE] ELSE
                   IF down THEN [offline |-> TRUE, retries |-> 0] ELSE [@ EXCEPT !.retries = @ + 1]]
              /\ IF online \/ down THEN Call(SetNodeOffline(tracker, a, ~online))
                 ELSE UNCHANGED <<tracker, lockHeld, eim>>
         ELSE UNCHANGED <<nodes, tracker, lockHeld, eim>>
  /\ UNCHANGED <<hostSubnets, netNamespaces, api, watch, cache, queue, alive>>

\* A node that does not answer is offline; the packets of one that does may be lost.
poll(a) ==
  \/ check(a, alive[a]) /\ UNCHANGED budget
  \/ /\ alive[a] /\ budget.losses > 0
     /\ check(a, FALSE)
     /\ budget' = [budget EXCEPT !.losses = @ - 1]

-----------------------------------------------------------------------------
(***************************************************************************)
(* The cluster: administrators change EgressCIDRs and the EgressIPs of     *)
(* namespaces, nodes are removed, and stop and start to answer.            *)
(***************************************************************************)
Spend(what) == budget[what] > 0 /\ budget' = [budget EXCEPT ![what] = @ - 1]

\* Someone else writes HostSubnet h.
OthersWrite(h, hs) ==
  /\ Write(h, hs)
  /\ eim' = [eim EXCEPT !.conflict = @ \/ eim.sent = h]
  /\ UNCHANGED <<tracker, hostSubnets, netNamespaces, cache, queue, lockHeld, nodes,
                 alive>>

changeEgressCIDRs(h, cidrs) ==
  /\ Spend("cidrs")
  /\ api[h] # none /\ api[h].EgressCIDRs # cidrs
  /\ OthersWrite(h, [api[h] EXCEPT !.EgressCIDRs = cidrs])

removeNode(h) ==
  /\ Spend("removals")
  /\ api[h] # none
  /\ OthersWrite(h, none)

changeEgressIPs(n, list) ==
  /\ Spend("lists")
  /\ netNamespaces[n].EgressIPs # list
  /\ netNamespaces' = [netNamespaces EXCEPT ![n].EgressIPs = list]
  /\ Call(UpdateNetNamespaceEgress(tracker, netNamespaces[n].NetID, list))
  /\ UNCHANGED <<hostSubnets, api, watch, cache, queue, nodes, alive>>

nodeUpOrDown(a) ==
  /\ Spend("outages")
  /\ alive' = [alive EXCEPT ![a] = ~@]
  /\ UNCHANGED <<tracker, hostSubnets, netNamespaces, api, watch, cache, queue, eim, lockHeld,
                 nodes>>

Environment ==
  \/ \E h \in Hosts : removeNode(h) \/ \E cidrs \in SUBSET CIDRs : changeEgressCIDRs(h, cidrs)
  \/ \E n \in Namespaces, list \in Lists : changeEgressIPs(n, list)
  \/ \E a \in NodeIPs : nodeUpOrDown(a)

\* The NetNamespaces have been delivered before the first HostSubnet.
ManagerInit ==
  \E s \in Scenarios :
    LET hs(h)     == [UID |-> Only(UIDsOf[h]), HostIP |-> s.hostIP[h], EgressIPs |-> {},
                      EgressCIDRs |-> s.cidrs[h]]
        netns(n)  == [NetID |-> Only(VNIDsOf[n]), EgressIPs |-> s.lists[n]]
        listed(t, n) == UpdateNetNamespaceEgress(t, netns(n).NetID, netns(n).EgressIPs)
    IN  /\ api = [h \in Hosts |-> hs(h)]
        /\ watch = <<>> /\ cache = api
        /\ queue = SetToSeq({<<h, hs(h)>> : h \in Hosts})
        /\ hostSubnets = [h \in Hosts |-> none]
        /\ netNamespaces = [n \in Namespaces |-> netns(n)]
        /\ tracker = FoldLeft(listed, NewEgressIPTracker, SetToSeq(Namespaces))
        /\ eim = NewEgressIPManager
        /\ lockHeld = FALSE
        /\ nodes = [a \in NodeIPs |-> none]
        /\ alive = [a \in NodeIPs |-> TRUE]
        /\ budget = s.budget

Updater ==
  \/ maybeDoUpdateEgressCIDRs \/ reallocate \/ setMonitorNodes
  \/ \E u \in UIDs : updateHostSubnet(u)
  \/ \E outcome \in {"ok", "conflict", "error"} : updateAnswered(outcome)

ManagerNext ==
  \/ fillCache \/ handleHostSubnet \/ GetManagerLock \/ Updater \/ Environment
  \/ \E a \in NodeIPs : poll(a)

(***************************************************************************)
(* Fairness: a goroutine that can go on does, and the API answers; the     *)
(* cluster need not change.  Weak fairness of each goroutine, written out  *)
(* with the condition under which it can take a step and with what only    *)
(* its steps do, because TLC is slow to work out ENABLED for the tracker's *)
(* methods.                                                                *)
(***************************************************************************)
UpdaterCanGoOn ==
  CASE eim.step = "none" -> FALSE
    [] eim.step = "sleeping" -> eim.updatedAgain \/ hostSubnets = api \/ budget.late > 0
    [] eim.step = "locked" -> ~lockHeld
    [] OTHER -> TRUE

UpdaterSteps ==
  \/ eim.step # "none" /\ eim'.step # eim.step
  \/ eim'.left # eim.left
  \/ eim.updatedAgain /\ ~eim'.updatedAgain

Goroutines == {"watch", "handler", "lock", "updater"} \cup NodeIPs

CanGoOn(g) ==
  CASE g = "watch" -> watch # <<>>
    [] g = "handler" -> queue # <<>> /\ ~lockHeld
    [] g = "lock" -> lockHeld /\ ~Locked
    [] g = "updater" -> UpdaterCanGoOn
    [] OTHER -> nodes[g] # none /\ ~lockHeld /\ nodes[g].offline = alive[g]

GoesOn(g) ==
  CASE g = "watch" -> Len(watch') < Len(watch)
    [] g = "handler" -> Len(queue') < Len(queue)
    [] g = "lock" -> lockHeld /\ ~lockHeld'
    [] g = "updater" -> UpdaterSteps
    [] OTHER -> nodes[g] # nodes'[g]

Fairness == \A g \in Goroutines : []<>~CanGoOn(g) \/ []<><<GoesOn(g)>>_managerVars

ManagerSpec == ManagerInit /\ [][ManagerNext]_managerVars /\ Fairness

-----------------------------------------------------------------------------
\* The updater and a method of the tracker each have the lock the other needs.
LockCycle == eim.step = "locked" /\ lockHeld

\* "If a HostSubnet's EgressCIDRs changes while we are processing the reallocation,
\* we won't process that until this reallocation is complete": a reallocation that
\* has begun is not kept from completing by a change that has to wait for it.
ReallocationCompletes == ~LockCycle

Hostable(ip, h) ==
  /\ api[h] # none /\ alive[api[h].HostIP]
  /\ \E c \in api[h].EgressCIDRs : ip \in Contents[c]

\* ip is the only egress IP of the only namespace that lists it.
Wanted(ip) ==
  \E n \in Namespaces : NamespacesListing(ip) = {n} /\ ListOf(n) = <<ip>>

HostingSubnets(ip) == {h \in Hosts : api[h] # none /\ ip \in api[h].EgressIPs}

\* No two HostSubnets are given the same egress IP, although it is taken from one
\* and given to the other in Updates of their own: unless a reallocation has been
\* worked out before the tracker was told of an earlier change.
OneHostPerEgressIP ==
  eim.raced \/ \A ip \in EgressIPs : Cardinality(HostingSubnets(ip)) <= 1

\* What ReallocateEgressIPs may return puts an egress IP on one node only, online
\* and with a CIDR for it; unless it takes some away, no egress IP is left out that
\* a node could host; and when it rebalances it takes some away, or nobody would be
\* told to go on.
ReallocationIsSound ==
  eim.step = "locked" => \A r \in ReallocateEgressIPs(tracker) :
    LET on(ip)  == {u \in UIDs : ip \in r.allocation[u]}
        was(ip) == IF tracker.egressIPs[ip].assignedNodeIP = none THEN {}
                   ELSE tracker.egressIPs[ip].nodes
        able(ip) == {u \in UIDs : Fits(tracker, u, ip) /\ ~tracker.nodes[u].offline}
        taken   == {ip \in EgressIPs : was(ip) # {} /\ on(ip) = {}}
    IN  /\ \A ip \in EgressIPs :
             /\ Cardinality(on(ip)) <= 1
             /\ on(ip) \subseteq able(ip)
             /\ taken = {} /\ on(ip) = {} =>
                  ip \in notAutoAssigned(tracker) \/ able(ip) = {}
        /\ r.again => taken # {}

Placed ==
  \A ip \in EgressIPs :
    /\ \A h \in HostingSubnets(ip) :
         api[h].EgressCIDRs # {} => Hostable(ip, h) /\ Wanted(ip)
    /\ Wanted(ip) /\ (\E h \in Hosts : Hostable(ip, h)) => HostingSubnets(ip) # {}

\* Every egress IP that a namespace wants and a live node can host ends up on one
\* such node and stays there, and every node with EgressCIDRs that is dead is
\* rid of its egress IPs: whatever order the changes, pings, reallocations and
\* Updates came in, unless the locks have met in a cycle or an Update has failed
\* (the cached HostSubnet then has EgressIPs that the API does not have, and
\* neither RetryOnConflict nor a later reallocation sends them again).
EgressIPsPlaced == <>[]LockCycle \/ <>eim.failed \/ <>[]Placed
=============================================================================
