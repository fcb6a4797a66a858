-------------------------- MODULE HostSubnetRules --------------------------
(***************************************************************************)
(* The tunnel flows of a node: hostSubnetWatcher (pkg/network/node/        *)
(* subnets.go) keeps, for the HostSubnet of every other node, the flow of  *)
(* table 10 that lets the other node's VXLAN packets in, the flows of      *)
(* tables 50 and 90 that send traffic for its subnet to it, and the list   *)
(* of nodes that multicast packets go to (table 111).                      *)
(*                                                                         *)
(* OVS keeps one flow per match: adding a flow with the match of another   *)
(* one replaces it.  A node that takes over the address or the subnet of   *)
(* another one thus shares flows with it for a while, and the cookie of a  *)
(* flow, a hash of the HostSubnet's UID, tells whose flow it is.           *)
(*                                                                         *)
(* The informer queues what the watch reports.  What is reported of a      *)
(* HostSubnet may join what is already queued of it, ahead of the others'. *)
(* A watch that was interrupted reports all that happened in the meantime  *)
(* at once, in any order, and a HostSubnet deleted and created again as    *)
(* updated.                                                                *)
(***************************************************************************)
EXTENDS Integers, FiniteSets, SequencesExt

CONSTANTS
    Names,        \* the names of the other nodes' HostSubnets
    UIDs,         \* their UIDs: one for every HostSubnet ever created
    NodeIPs,      \* the addresses of the other nodes
    BadIPs,       \* those inside the cluster or service network
    Subnets,
    none,
    Scenarios     \* the HostSubnets and bounds a behaviour may start with

VARIABLES
    hostSubnets,    \* in the API: Names -> a HostSubnet or none
    seen,           \* as the watch last reported them
    pending,        \* what the informer still has to hand over: <<name, ...>>
    delivered,      \* as the informer last handed them over
    hostSubnetMap,  \* hostSubnetWatcher.hostSubnetMap: UIDs -> ... or none
    table10,        \* NodeIPs -> the cookie of its flow, or none
    table90,        \* tables 50 and 90: Subnets -> <<cookie, tun_dst>> or none
    table111,       \* the addresses that multicast packets are sent to
    missed,         \* what the code is known not to write or to leave behind
    budget          \* bounds

vars == <<hostSubnets, seen, pending, delivered, hostSubnetMap, table10,
          table90, table111, missed, budget>>

HostSubnet == [uid : UIDs, ip : NodeIPs, subnet : Subnets]

Spend(field) == /\ budget[field] > 0
                /\ budget' = [budget EXCEPT ![field] = @ - 1]

-----------------------------------------------------------------------------
(* ovscontroller.go.  `failing' holds the transactions that fail.          *)

Transactions == {"delete", "add", "multicast"}

\* What DeleteHostSubnetRules(hs) leaves of the two tables.
DeleteHostSubnetRules_ByMatch(hs, t10, t90, failing) ==
    <<[t10 EXCEPT ![hs.ip] = none], [t90 EXCEPT ![hs.subnet] = none]>>

DeleteHostSubnetRules(hs, t10, t90, failing) ==
    IF "delete" \in failing
      THEN <<t10, t90>>
      ELSE <<[i \in NodeIPs |-> IF i = hs.ip /\ t10[i] = hs.uid
                                  THEN none ELSE t10[i]],
             [s \in Subnets |-> IF s = hs.subnet /\ t90[s] # none
                                                 /\ t90[s][1] = hs.uid
                                  THEN none ELSE t90[s]]>>

\* What AddHostSubnetRules(hs) makes of them.
AddHostSubnetRules(hs, tables, failing) ==
    IF "add" \in failing
      THEN tables
      ELSE <<[tables[1] EXCEPT ![hs.ip] = hs.uid],
             [tables[2] EXCEPT ![hs.subnet] = <<hs.uid, hs.ip>>]>>

ValidateNodeIP(ip) == ip \notin BadIPs

-----------------------------------------------------------------------------
(* subnets.go                                                              *)

remoteIPs(map) == {map[u].ip : u \in {v \in UIDs : map[v] # none}}

\* updateVXLANMulticastRules and UpdateVXLANMulticastFlows.
updateVXLANMulticastRules(failing) ==
    table111' = IF "multicast" \in failing
                  THEN table111 ELSE remoteIPs(hostSubnetMap')

\* The HostSubnets that have lost a flow when that of `hs' is deleted: they
\* share the address or the subnet with it, and its flow had replaced theirs.
Robbed(hs) ==
    {v \in UIDs \ {hs.uid} :
        /\ hostSubnetMap[v] # none
        /\ \/ hostSubnetMap[v].ip = hs.ip /\ table10[hs.ip] = hs.uid
           \/ /\ hostSubnetMap[v].subnet = hs.subnet
              /\ table90[hs.subnet] # none /\ table90[hs.subnet][1] = hs.uid}

Deletion(hs, failing) ==
    (Robbed(hs) \X {"rules"})
      \union IF "delete" \in failing THEN {<<hs.uid, "stale">>} ELSE {}

Multicast(failing) == IF "multicast" \in failing THEN {<<none, "multicast">>}
                                                 ELSE {}

\* handleAddOrUpdateHostSubnet: the HostSubnets of the API are valid.  The
\* HostSubnet of the node itself is ignored, and left out of Names.
updateHostSubnet(hs, failing) ==
    LET old == hostSubnetMap[hs.uid]
        known == old # none /\ old.ip = hs.ip
        deleted == IF old = none
                     THEN <<table10, table90>>
                     ELSE DeleteHostSubnetRules(old, table10, table90, failing)
        added == AddHostSubnetRules(hs, deleted, failing)
        lost == IF old = none THEN {} ELSE Deletion(old, failing)
    IN \/ /\ known
          /\ failing = {}
          /\ UNCHANGED <<hostSubnetMap, table10, table90, table111, missed>>
       \/ /\ ~known
          /\ ~ValidateNodeIP(hs.ip)
          /\ table10' = deleted[1] /\ table90' = deleted[2]
          /\ UNCHANGED <<hostSubnetMap, table111>>
          /\ missed' = missed \union lost \union {<<hs.uid, "rules">>}
       \/ /\ ~known
          /\ ValidateNodeIP(hs.ip)
          /\ hostSubnetMap' = [hostSubnetMap EXCEPT ![hs.uid] = hs]
          /\ table10' = added[1] /\ table90' = added[2]
          /\ updateVXLANMulticastRules(failing)
          /\ missed' = (missed \ {<<hs.uid, "rules">>, <<none, "multicast">>})
                         \union lost \union Multicast(failing)
                         \union IF "add" \in failing
                                  THEN {<<hs.uid, "rules">>} ELSE {}

\* handleDeleteHostSubnet: `hs' is the HostSubnet as it last was.
deleteHostSubnet(hs, failing) ==
    LET deleted == DeleteHostSubnetRules(hs, table10, table90, failing)
    IN \/ /\ hostSubnetMap[hs.uid] = none
          /\ failing = {}
          /\ UNCHANGED <<hostSubnetMap, table10, table90, table111, missed>>
       \/ /\ hostSubnetMap[hs.uid] # none
          /\ hostSubnetMap' = [hostSubnetMap EXCEPT ![hs.uid] = none]
          /\ table10' = deleted[1] /\ table90' = deleted[2]
          /\ updateVXLANMulticastRules(failing)
          /\ missed' = (missed \ {<<none, "multicast">>})
                         \union Multicast(failing) \union Deletion(hs, failing)

\* The informer hands over the next report.  A HostSubnet with another UID
\* than before is an update: nobody asks for the removal of the old UID's
\* flows.
handleHostSubnet(failing) ==
    /\ pending # <<>>
    /\ LET n == Head(pending)[1]
           hs == Head(pending)[2]
       IN /\ delivered' = [delivered EXCEPT ![n] = hs]
          /\ IF hs = none THEN deleteHostSubnet(delivered[n], failing)
                          ELSE updateHostSubnet(hs, failing)
    /\ pending' = Tail(pending)
    /\ UNCHANGED <<hostSubnets, seen>>

\* The informer's queue once the HostSubnet `n' is reported.
Queued(queue, n, joins) ==
    LET last == SelectLastInSeq(queue, LAMBDA d : d[1] = n)
    IN IF joins /\ last > 0
         THEN InsertAt(queue, last + 1, <<n, hostSubnets[n]>>)
         ELSE Append(queue, <<n, hostSubnets[n]>>)

\* The watch reports what changed since it last did.
watch ==
    LET changed == {n \in Names : seen[n] # hostSubnets[n]}
    IN /\ changed # {}
       /\ \E order \in SetToSeqs(changed), joining \in SUBSET changed :
             pending' = FoldLeft(LAMBDA q, n : Queued(q, n, n \in joining),
                                 pending, order)
       /\ seen' = hostSubnets
       /\ UNCHANGED <<hostSubnets, delivered, hostSubnetMap, table10, table90,
                      table111, missed, budget>>

\* The old UID of a HostSubnet reported as updated stays in the map.
Left == {u \in UIDs : hostSubnetMap[u] # none
                        /\ \A n \in Names : delivered[n] = none
                                              \/ delivered[n].uid # u}

-----------------------------------------------------------------------------
(* The masters: addresses and subnets are never shared, UIDs never reused. *)

Unshared(api) ==
    \A m, n \in Names :
        m # n /\ api[m] # none /\ api[n] # none
          => api[m].ip # api[n].ip /\ api[m].subnet # api[n].subnet

unusedUIDs == {u \in UIDs : budget.uids[u]}

changeHostSubnets ==
    \E n \in Names :
        /\ UNCHANGED <<seen, pending, delivered, hostSubnetMap, table10,
                       table90, table111, missed>>
        /\ budget.changes > 0
        /\ \/ /\ hostSubnets[n] = none
              /\ \E i \in NodeIPs, s \in Subnets, u \in unusedUIDs :
                    /\ hostSubnets' = [hostSubnets EXCEPT
                            ![n] = [uid |-> u, ip |-> i, subnet |-> s]]
                    /\ budget' = [budget EXCEPT !.changes = @ - 1,
                                                !.uids[u] = FALSE]
           \/ /\ hostSubnets[n] # none
              /\ \/ hostSubnets' = [hostSubnets EXCEPT ![n] = none]
                 \/ \E i \in NodeIPs \ {hostSubnets[n].ip} :
                        hostSubnets' = [hostSubnets EXCEPT ![n].ip = i]
              /\ Spend("changes")
        /\ Unshared(hostSubnets')

Init ==
    \E s \in Scenarios :
        /\ budget = s.budget
        /\ hostSubnets = s.hostSubnets
        /\ seen = [n \in Names |-> none]
        /\ pending = <<>>
        /\ delivered = [n \in Names |-> none]
        /\ hostSubnetMap = [u \in UIDs |-> none]
        /\ table10 = [i \in NodeIPs |-> none]
        /\ table90 = [t \in Subnets |-> none]
        /\ table111 = {}
        /\ missed = {}

Next ==
    \/ changeHostSubnets
    \/ watch
    \/ handleHostSubnet({}) /\ UNCHANGED budget
    \/ \E failing \in SUBSET Transactions \ {{}} :
          handleHostSubnet(failing) /\ Spend("failures")

Spec == Init /\ [][Next]_vars

-----------------------------------------------------------------------------
Remote == {hostSubnets[n] : n \in {m \in Names : hostSubnets[m] # none}}

Lacks(u) == <<u, "rules">> \in missed

Stale(u) == <<u, "stale">> \in missed \/ u \in Left

\* When the watcher has seen the HostSubnets as they are, every other node is
\* let in at its own address, its subnet is reached at that address, and no
\* flow is left for a node or an address that is gone, in whatever order the
\* nodes that exchanged addresses or subnets were reported: the flows of the
\* one that came later are not deleted with those of the one before it, since
\* hostSubnetCookie tells them apart.  Multicast packets go to those nodes.
\* Not so for the HostSubnets that the code is known to get wrong: one that had
\* an invalid address, one whose OVS transaction failed, and the old UID of one
\* deleted and created again between two reports.
TunnelsFollowHostSubnets ==
    hostSubnets = seen /\ pending = <<>> =>
      /\ \A hs \in Remote : ~Lacks(hs.uid) =>
            /\ table10[hs.ip] = hs.uid \/ Stale(table10[hs.ip])
            /\ \/ table90[hs.subnet] = <<hs.uid, hs.ip>>
               \/ table90[hs.subnet] # none /\ Stale(table90[hs.subnet][1])
      /\ \A i \in NodeIPs : table10[i] # none /\ ~Stale(table10[i]) =>
            \E hs \in Remote : hs.uid = table10[i] /\ hs.ip = i
      /\ \A s \in Subnets : table90[s] # none /\ ~Stale(table90[s][1]) =>
            \E hs \in Remote : table90[s] = <<hs.uid, hs.ip>> /\ hs.subnet = s
      /\ <<none, "multicast">> \notin missed =>
            table111 = {hs.ip : hs \in {h \in Remote : ~Lacks(h.uid)}}
              \union {hostSubnetMap[u].ip :
                        u \in {v \in UIDs : hostSubnetMap[v] # none
                                              /\ (v \in Left \/ Lacks(v))}}
=============================================================================
