--------------------------- MODULE EgressIPTracker ---------------------------
(***************************************************************************)
(* The EgressIPTracker, which the master and every node run: from the      *)
(* EgressIPs of the HostSubnets and of the NetNamespaces it works out      *)
(* which node holds which egress IP for which VNID and where the traffic   *)
(* of a VNID leaves the cluster, and tells its watcher what has changed.   *)
(*                                                                         *)
(* The tracker is a value t of Tracker, and each exported method, which    *)
(* holds the tracker's lock from beginning to end, an operator from one    *)
(* value to the next.  t.claims and t.routes are what the watcher has been *)
(* told.  An egressIPInfo or a namespaceEgress that the code has deleted   *)
(* is one with nothing in it.                                              *)
(***************************************************************************)
EXTENDS Integers, FiniteSets, Sequences, SequencesExt

CONSTANTS
  Hosts,          \* names of HostSubnets
  UIDs, UIDsOf,   \* UIDsOf[h]: the UIDs that HostSubnets called h get
  NodeIPs,        \* values of HostSubnet.HostIP
  Namespaces,     \* names of NetNamespaces
  VNIDs, VNIDsOf, \* VNIDsOf[n]: the NetIDs that NetNamespaces called n get
  EgressIPs,      \* egress IPs
  CIDRs,          \* egress CIDRs
  Lists,          \* values of NetNamespace.EgressIPs: sequences of egress IPs
  none, ghost     \* no node, IP, claim or object; a node object deleted before

ASSUME SetsAssumption ==
  /\ IsFiniteSet(UIDs) /\ UIDsOf \in [Hosts -> SUBSET UIDs]
  /\ IsFiniteSet(VNIDs) /\ VNIDsOf \in [Namespaces -> SUBSET VNIDs]
  /\ none # ghost /\ {none, ghost} \cap (UIDs \cup NodeIPs \cup EgressIPs) = {}
  /\ "dropped" \notin EgressIPs \cup {none}
ASSUME ListsAssumption == Lists \subseteq Seq(EgressIPs) /\ <<>> \in Lists

VARIABLES
  tracker,        \* the EgressIPTracker
  hostSubnets,    \* hostSubnets[h]: HostSubnet h as last delivered, or none
  netNamespaces   \* netNamespaces[n]: NetNamespace n as last delivered, or none

vars == <<tracker, hostSubnets, netNamespaces>>

HostSubnet ==
  [UID : UIDs, HostIP : NodeIPs, EgressIPs : SUBSET EgressIPs, EgressCIDRs : SUBSET CIDRs]

NetNamespace == [NetID : VNIDs, EgressIPs : Lists]

\* Where the traffic of a VNID leaves: SetNamespaceEgressNormal, ...Dropped or
\* ...ViaEgressIP was called last.
Normal == [kind |-> "normal", ip |-> none, node |-> none]
Dropped == [kind |-> "dropped", ip |-> none, node |-> none]
Via(ip, node) == [kind |-> "via", ip |-> ip, node |-> node]

nodeEgress ==
  [tracked : BOOLEAN, nodeIP : NodeIPs \cup {none}, requestedIPs : SUBSET EgressIPs,
   requestedCIDRs : SUBSET CIDRs, offline : BOOLEAN]

NoNode ==
  [tracked |-> FALSE, nodeIP |-> none, requestedIPs |-> {}, requestedCIDRs |-> {},
   offline |-> FALSE]

namespaceEgress ==
  [requestedIPs : Lists, activeEgressIP : EgressIPs \cup {none, "dropped"}]

egressIPInfo ==
  [nodes : SUBSET UIDs, namespaces : SUBSET VNIDs, assignedNodeIP : NodeIPs \cup {none}]

NewEgressIPTracker ==
  [nodes |-> [u \in UIDs |-> NoNode],
   nodesByNodeIP |-> [a \in NodeIPs |-> none],
   namespacesByVNID |-> [v \in VNIDs |-> [requestedIPs |-> <<>>, activeEgressIP |-> none]],
   egressIPs |-> [ip \in EgressIPs |->
                    [nodes |-> {}, namespaces |-> {}, assignedNodeIP |-> none]],
   nodesWithCIDRs |-> 0,
   changedEgressIPs |-> {}, changedNamespaces |-> {}, updateEgressCIDRs |-> FALSE,
   claims |-> [ip \in EgressIPs |-> none],
   routes |-> [v \in VNIDs |-> Normal],
   notified |-> FALSE]

Tracker ==
  [nodes : [UIDs -> nodeEgress],
   nodesByNodeIP : [NodeIPs -> UIDs \cup {none, ghost}],
   namespacesByVNID : [VNIDs -> namespaceEgress],
   egressIPs : [EgressIPs -> egressIPInfo],
   nodesWithCIDRs : Int,
   changedEgressIPs : SUBSET EgressIPs, changedNamespaces : SUBSET VNIDs,
   updateEgressCIDRs : BOOLEAN,
   claims : [EgressIPs -> [vnid : VNIDs, node : NodeIPs] \cup {none}],
   routes : [VNIDs -> {Normal, Dropped} \cup
                      {Via(ip, node) : ip \in EgressIPs, node \in NodeIPs}],
   notified : BOOLEAN]

\* The member of a set of one.
Only(S) == CHOOSE x \in S : S = {x}
IsSingle(S) == \E x \in S : S = {x}

-----------------------------------------------------------------------------
(***************************************************************************)
(* syncEgressIPs.  Neither egressIPActive nor syncEgressNamespaceState     *)
(* reads what is being written for another egress IP or namespace, so the  *)
(* order in which the changed ones are visited does not matter.            *)
(***************************************************************************)
egressIPActive_NoSiblings(t, ip) ==
  IsSingle(t.egressIPs[ip].nodes) /\ IsSingle(t.egressIPs[ip].namespaces)

egressIPActive(t, ip) ==
  LET eg == t.egressIPs[ip]
  IN  /\ IsSingle(eg.nodes) /\ IsSingle(eg.namespaces)
      /\ \A ip2 \in ToSet(t.namespacesByVNID[Only(eg.namespaces)].requestedIPs) \ {ip} :
           t.egressIPs[ip2].nodes # eg.nodes

syncEgressNodeState(t, ips) ==
  LET eg(ip)     == t.egressIPs[ip]
      active(ip) == egressIPActive(t, ip)
      nodeIP(ip) == IF active(ip) THEN t.nodes[Only(eg(ip).nodes)].nodeIP ELSE none
  IN  [t EXCEPT
        !.egressIPs = [ip \in EgressIPs |->
           IF ip \in ips THEN [eg(ip) EXCEPT !.assignedNodeIP = nodeIP(ip)] ELSE eg(ip)],
        !.claims = [ip \in EgressIPs |->
           IF ip \notin ips \/ eg(ip).assignedNodeIP = nodeIP(ip) THEN @[ip]
           ELSE IF active(ip) THEN [vnid |-> Only(eg(ip).namespaces), node |-> nodeIP(ip)]
           ELSE none],
        !.updateEgressCIDRs = @ \/ \E ip \in ips : nodeIP(ip) = none]

activeFor_Unassigned(t, v) ==
  LET ips == t.namespacesByVNID[v].requestedIPs
  IN  IF ips = <<>> THEN none ELSE ips[1]

\* The value of activeEgressIP for VNID v.
activeFor(t, v) ==
  LET ips == t.namespacesByVNID[v].requestedIPs
      usable(ip) ==
        LET eg == t.egressIPs[ip]
        IN  /\ eg.assignedNodeIP # none
            /\ ~(Len(ips) > 1 /\ t.nodes[Only(eg.nodes)].offline)
      first == SelectInSeq(ips, usable)
  IN  IF ips = <<>> THEN none
      ELSE IF first = 0 \/ \E ip \in ToSet(ips) : Cardinality(t.egressIPs[ip].namespaces) > 1
           THEN "dropped" ELSE ips[first]

syncEgressNamespaceState(t, vs) ==
  LET ns(v)   == t.namespacesByVNID[v]
      changed == {v \in vs : activeFor(t, v) # ns(v).activeEgressIP}
      route(a) ==
        CASE a = none -> Normal [] a = "dropped" -> Dropped
          [] OTHER -> Via(a, t.egressIPs[a].assignedNodeIP)
  IN  [t EXCEPT
        !.namespacesByVNID = [v \in VNIDs |->
           IF v \in changed THEN [ns(v) EXCEPT !.activeEgressIP = activeFor(t, v)] ELSE ns(v)],
        !.routes = [v \in VNIDs |-> IF v \in changed THEN route(activeFor(t, v)) ELSE @[v]]]

syncEgressIPs(t) ==
  LET s == syncEgressNamespaceState(syncEgressNodeState(t, t.changedEgressIPs),
                                    t.changedNamespaces)
  IN  [s EXCEPT !.changedEgressIPs = {}, !.changedNamespaces = {},
                !.updateEgressCIDRs = FALSE,
                !.notified = @ \/ (s.updateEgressCIDRs /\ s.nodesWithCIDRs > 0)]

egressIPChanged_NoNamespaces(t, ips) == [t EXCEPT !.changedEgressIPs = @ \cup ips]

egressIPChanged(t, ips) ==
  [t EXCEPT !.changedEgressIPs = @ \cup ips,
            !.changedNamespaces = @ \cup UNION {t.egressIPs[ip].namespaces : ip \in ips}]

-----------------------------------------------------------------------------
(***************************************************************************)
(* UpdateHostSubnetEgress for the node u.                                  *)
(***************************************************************************)
addNodeEgressIPs(t, u, ips) ==
  egressIPChanged(
    [t EXCEPT !.egressIPs = [ip \in EgressIPs |->
       IF ip \in ips THEN [@[ip] EXCEPT !.nodes = @ \cup {u}] ELSE @[ip]]], ips)

deleteNodeEgressIPs_Unmarked(t, u, ips) ==
  [t EXCEPT !.egressIPs = [ip \in EgressIPs |->
     IF ip \in ips THEN [@[ip] EXCEPT !.nodes = @ \ {u}] ELSE @[ip]]]

deleteNodeEgressIPs(t, u, ips) ==
  LET held == {ip \in ips : u \in t.egressIPs[ip].nodes}
  IN  [egressIPChanged(t, held) EXCEPT !.egressIPs = [ip \in EgressIPs |->
         IF ip \in held THEN [@[ip] EXCEPT !.nodes = @ \ {u}] ELSE @[ip]]]

\* The node object: made, or taken out of the two maps, when it must be.
trackNode(t, u, hs) ==
  IF ~t.nodes[u].tracked
  THEN [t EXCEPT !.nodes[u] = [NoNode EXCEPT !.tracked = TRUE, !.nodeIP = hs.HostIP],
                 !.nodesByNodeIP[hs.HostIP] = u]
  ELSE IF hs.EgressIPs = {} /\ hs.EgressCIDRs = {}
  THEN [t EXCEPT !.nodes[u].tracked = FALSE, !.nodesByNodeIP[t.nodes[u].nodeIP] = none]
  ELSE t

setEgressCIDRs(t, u, cidrs) ==
  LET old == t.nodes[u].requestedCIDRs
  IN  IF cidrs = old THEN t
      ELSE [t EXCEPT
             !.nodesWithCIDRs = CASE cidrs = {} -> @ - 1 [] old = {} -> @ + 1 [] OTHER -> @,
             !.nodes[u].requestedCIDRs = cidrs,
             !.updateEgressCIDRs = TRUE]

moveNode_KeepsOldKey(t, u, ip) ==
  LET node  == t.nodes[u]
      moved == {e \in node.requestedIPs : t.egressIPs[e].assignedNodeIP = node.nodeIP}
      s     == syncEgressIPs(deleteNodeEgressIPs(t, u, moved))
  IN  IF node.nodeIP = ip THEN t
      ELSE addNodeEgressIPs([s EXCEPT !.nodes[u].nodeIP = ip], u, moved)

\* The egress IPs the node holds are given up at its old address, and the watcher
\* told, before they are taken again at the new one.
moveNode(t, u, ip) ==
  LET node  == t.nodes[u]
      moved == {e \in node.requestedIPs : t.egressIPs[e].assignedNodeIP = node.nodeIP}
      s     == syncEgressIPs(deleteNodeEgressIPs(t, u, moved))
  IN  IF node.nodeIP = ip THEN t
      ELSE addNodeEgressIPs(
             [s EXCEPT !.nodesByNodeIP = [@ EXCEPT ![node.nodeIP] = none, ![ip] = u],
                       !.nodes[u].nodeIP = ip], u, moved)

setNodeEgressIPs(t, u, ips) ==
  LET old == t.nodes[u].requestedIPs
  IN  deleteNodeEgressIPs(
        addNodeEgressIPs([t EXCEPT !.nodes[u].requestedIPs = ips], u, ips \ old),
        u, old \ ips)

\* A node object that is out of eit.nodes is gone, though nodesByNodeIP may
\* still lead to it.
dropNode(t, u) ==
  IF t.nodes[u].tracked THEN t
  ELSE [t EXCEPT !.nodes[u] = NoNode,
                 !.nodesByNodeIP = [a \in NodeIPs |-> IF @[a] = u THEN ghost ELSE @[a]]]

UpdateHostSubnetEgress(t, hs) ==
  LET u  == hs.UID
      t1 == trackNode([t EXCEPT !.notified = FALSE], u, hs)
      t2 == moveNode(setEgressCIDRs(t1, u, hs.EgressCIDRs), u, hs.HostIP)
      t3 == syncEgressIPs(setNodeEgressIPs(t2, u, hs.EgressIPs))
  IN  IF ~t.nodes[u].tracked /\ hs.EgressIPs = {} /\ hs.EgressCIDRs = {}
      THEN [t EXCEPT !.notified = FALSE]
      ELSE dropNode(t3, u)

-----------------------------------------------------------------------------
(***************************************************************************)
(* UpdateNetNamespaceEgress and SetNodeOffline.                            *)
(***************************************************************************)
addNamespaceEgressIPs(t, v, ips) ==
  egressIPChanged(
    [t EXCEPT !.egressIPs = [ip \in EgressIPs |->
       IF ip \in ips THEN [@[ip] EXCEPT !.namespaces = @ \cup {v}] ELSE @[ip]]], ips)

deleteNamespaceEgressIPs(t, v, ips) ==
  LET held == {ip \in ips : v \in t.egressIPs[ip].namespaces}
  IN  [egressIPChanged(t, held) EXCEPT !.egressIPs = [ip \in EgressIPs |->
         IF ip \in held THEN [@[ip] EXCEPT !.namespaces = @ \ {v}] ELSE @[ip]]]

UpdateNetNamespaceEgress_OnlyDifference(t, v, list) ==
  LET old == ToSet(t.namespacesByVNID[v].requestedIPs)
      new == ToSet(list)
      t1  == [t EXCEPT !.notified = FALSE, !.namespacesByVNID[v].requestedIPs = list]
  IN  syncEgressIPs(
        deleteNamespaceEgressIPs(addNamespaceEgressIPs(t1, v, new \ old), v, old \ new))

UpdateNetNamespaceEgress(t, v, list) ==
  LET old == ToSet(t.namespacesByVNID[v].requestedIPs)
      new == ToSet(list)
      t1  == [t EXCEPT !.notified = FALSE, !.namespacesByVNID[v].requestedIPs = list]
      t2  == deleteNamespaceEgressIPs(addNamespaceEgressIPs(t1, v, new \ old), v, old \ new)
  IN  IF old = {} /\ new = {} THEN [t EXCEPT !.notified = FALSE]
      ELSE syncEgressIPs(egressIPChanged(t2, old \cap new))

DeleteNetNamespaceEgress(t, v) == UpdateNetNamespaceEgress(t, v, <<>>)

SetNodeOffline_NoCIDRs(t, nodeIP, offline) ==
  LET u  == t.nodesByNodeIP[nodeIP]
      t1 == [t EXCEPT !.notified = FALSE]
  IN  IF u \in {none, ghost} THEN t1
      ELSE syncEgressIPs(egressIPChanged([t1 EXCEPT !.nodes[u].offline = offline],
                                         t.nodes[u].requestedIPs))

SetNodeOffline(t, nodeIP, offline) ==
  LET u    == t.nodesByNodeIP[nodeIP]
      t1   == [t EXCEPT !.notified = FALSE]
      node == t.nodes[u]
  IN  CASE u = none  -> t1
        [] u = ghost -> syncEgressIPs(t1)
        [] OTHER     ->
             syncEgressIPs(egressIPChanged(
               [t1 EXCEPT !.nodes[u].offline = offline,
                          !.updateEgressCIDRs = @ \/ node.requestedCIDRs # {}],
               node.requestedIPs))

-----------------------------------------------------------------------------
(***************************************************************************)
(* The informers deliver a HostSubnet or a NetNamespace as it is by then:  *)
(* any number of changes may have been made since the last time.  No two   *)
(* HostSubnets have the same HostIP at the same time.                      *)
(***************************************************************************)
Delivered(h) == hostSubnets[h] # none

handleAddOrUpdateHostSubnet(h, hs) ==
  /\ hs.UID \in UIDsOf[h]
  /\ \A h2 \in Hosts \ {h} : Delivered(h2) => hostSubnets[h2].HostIP # hs.HostIP
  /\ hostSubnets' = [hostSubnets EXCEPT ![h] = hs]
  /\ tracker' = UpdateHostSubnetEgress(tracker, hs)
  /\ UNCHANGED netNamespaces

handleDeleteHostSubnet(h) ==
  /\ Delivered(h)
  /\ hostSubnets' = [hostSubnets EXCEPT ![h] = none]
  /\ tracker' = UpdateHostSubnetEgress(tracker,
                  [hostSubnets[h] EXCEPT !.EgressIPs = {}, !.EgressCIDRs = {}])
  /\ UNCHANGED netNamespaces

handleAddOrUpdateNetNamespace(n, netns) ==
  /\ netns.NetID \in VNIDsOf[n]
  /\ netNamespaces' = [netNamespaces EXCEPT ![n] = netns]
  /\ tracker' = UpdateNetNamespaceEgress(tracker, netns.NetID, netns.EgressIPs)
  /\ UNCHANGED hostSubnets

handleDeleteNetNamespace(n) ==
  /\ netNamespaces[n] # none
  /\ netNamespaces' = [netNamespaces EXCEPT ![n] = none]
  /\ tracker' = DeleteNetNamespaceEgress(tracker, netNamespaces[n].NetID)
  /\ UNCHANGED hostSubnets

\* The owner of the tracker finds that the node at this address is offline, or
\* online again.
nodeOffline(nodeIP, offline) ==
  /\ tracker' = SetNodeOffline(tracker, nodeIP, offline)
  /\ UNCHANGED <<hostSubnets, netNamespaces>>

Init ==
  /\ tracker = NewEgressIPTracker
  /\ hostSubnets = [h \in Hosts |-> none]
  /\ netNamespaces = [n \in Namespaces |-> none]

Next ==
  \/ \E h \in Hosts : \/ \E hs \in HostSubnet : handleAddOrUpdateHostSubnet(h, hs)
                      \/ handleDeleteHostSubnet(h)
  \/ \E n \in Namespaces : \/ \E netns \in NetNamespace : handleAddOrUpdateNetNamespace(n, netns)
                           \/ handleDeleteNetNamespace(n)
  \/ \E nodeIP \in NodeIPs, offline \in BOOLEAN : nodeOffline(nodeIP, offline)

Spec == Init /\ [][Next]_vars

-----------------------------------------------------------------------------
\* What the tracker, and the objects delivered to it, may be.
TypeOK ==
  /\ tracker \in Tracker
  /\ hostSubnets \in [Hosts -> HostSubnet \cup {none}]
  /\ netNamespaces \in [Namespaces -> NetNamespace \cup {none}]

HostsListing(ip) == {h \in Hosts : Delivered(h) /\ ip \in hostSubnets[h].EgressIPs}

ListOf(n) == IF netNamespaces[n] = none THEN <<>> ELSE netNamespaces[n].EgressIPs

NamespacesListing(ip) == {n \in Namespaces : ip \in ToSet(ListOf(n))}

\* The watcher holds a claim (ClaimEgressIP without a later ReleaseEgressIP) only
\* for an egress IP that exactly one HostSubnet and one NetNamespace list, and
\* the claim has that node's current address and that namespace's VNID.
ClaimsAreJustified ==
  \A ip \in EgressIPs :
    LET claim == tracker.claims[ip]
    IN  claim # none =>
          /\ \E h \in Hosts : HostsListing(ip) = {h} /\ hostSubnets[h].HostIP = claim.node
          /\ \E n \in Namespaces :
               NamespacesListing(ip) = {n} /\ netNamespaces[n].NetID = claim.vnid

\* An egress IP that one HostSubnet lists and that is the only one of the one
\* namespace listing it is claimed, whatever duplicates there have been before.
UnambiguousIsClaimed ==
  \A ip \in EgressIPs : \A n \in Namespaces :
    /\ IsSingle(HostsListing(ip)) /\ NamespacesListing(ip) = {n}
    /\ ToSet(ListOf(n)) = {ip}
    => tracker.claims[ip] # none

\* ip can be claimed for n: one HostSubnet and no other NetNamespace list it, and
\* that HostSubnet is not the only one with another egress IP of n.
Claimable(ip, n) ==
  /\ IsSingle(HostsListing(ip)) /\ NamespacesListing(ip) = {n}
  /\ \A ip2 \in ToSet(ListOf(n)) \ {ip} : HostsListing(ip2) # HostsListing(ip)

\* A HostSubnet that gives up one of a namespace's egress IPs does not make the
\* tracker look at the others, which may have become claimable (egressIPActive
\* compares them).  Delivering the NetNamespace again, as every resync does,
\* repairs that: then exactly its claimable egress IPs are claimed.
RedeliveryRepairs ==
  \A n \in Namespaces : netNamespaces[n] # none =>
    LET t == UpdateNetNamespaceEgress(tracker, netNamespaces[n].NetID, ListOf(n))
    IN  \A ip \in ToSet(ListOf(n)) : t.claims[ip] # none <=> Claimable(ip, n)

\* A node never holds two egress IPs for one VNID.
OneEgressIPPerNode ==
  \A ip1, ip2 \in EgressIPs :
    ip1 # ip2 /\ tracker.claims[ip1] # none => tracker.claims[ip1] # tracker.claims[ip2]

\* What SetNamespaceEgress... would say if it were all worked out again: the first
\* egress IP of the list that is claimed and, when there is another, not offline;
\* none if another namespace lists any of them.
FreshRoute(n) ==
  LET ips == ListOf(n)
      usable(ip) ==
        LET claim == tracker.claims[ip]
        IN  claim # none /\ (Len(ips) > 1 =>
              \A u \in UIDs : tracker.nodes[u].nodeIP = claim.node => ~tracker.nodes[u].offline)
      first == SelectInSeq(ips, usable)
  IN  CASE ips = <<>> -> Normal
        [] ips # <<>> /\ (first = 0 \/ \E ip \in ToSet(ips) : NamespacesListing(ip) # {n}) -> Dropped
        [] OTHER -> Via(ips[first], tracker.claims[ips[first]].node)

\* The traffic of a namespace leaves where the present claims, lists and offline
\* nodes say, although syncEgressNamespaceState visits only namespaces that
\* egressIPChanged has marked: no stale node, no dropped traffic left behind.
RoutesFollowClaims ==
  \A n \in Namespaces :
    netNamespaces[n] # none => tracker.routes[netNamespaces[n].NetID] = FreshRoute(n)

\* SetNodeOffline and Ping find every node that has egress IPs or CIDRs by its
\* current address, and nodesWithCIDRs is the number of nodes with CIDRs.
NodesAreFound ==
  /\ \A h \in Hosts :
       Delivered(h) /\ hostSubnets[h].EgressIPs \cup hostSubnets[h].EgressCIDRs # {}
         => tracker.nodesByNodeIP[hostSubnets[h].HostIP] = hostSubnets[h].UID
  /\ tracker.nodesWithCIDRs =
       Cardinality({h \in Hosts : Delivered(h) /\ hostSubnets[h].EgressCIDRs # {}})

\* The egress IPs that could be given to a node, and the CIDRs of usable nodes.
Pending(t) == {ip \in EgressIPs : t.egressIPs[ip].namespaces # {}
                                  /\ t.egressIPs[ip].assignedNodeIP = none}
Capacity(t) == [u \in UIDs |-> IF t.nodes[u].offline THEN {} ELSE t.nodes[u].requestedCIDRs]

\* UpdateEgressCIDRs is called whenever there is a new egress IP to place or the
\* nodes' capacity for them has changed.
ReallocationAskedFor ==
  [][(~(Pending(tracker') \subseteq Pending(tracker)) \/ Capacity(tracker') # Capacity(tracker))
       /\ tracker'.nodesWithCIDRs > 0
     => tracker'.notified]_vars
=============================================================================
