------------------------------ MODULE MCEgress ------------------------------
(***************************************************************************)
(* Instances for TLC of the specifications that deal with traffic leaving  *)
(* the cluster and that have liveness properties: the master's egress IP   *)
(* manager, a node's egress IPs and a node's egress policies.  They share  *)
(* no state: a behaviour is one of the `part' it starts with, and the      *)
(* variables that a part does not have stay none.                          *)
(***************************************************************************)
EXTENDS Integers, Sequences, FiniteSets

CONSTANTS none, ghost, Parts

VARIABLES
  part,
  tracker, hostSubnets, netNamespaces, budget, missed, receiver, api,
  watch, cache, queue, eim, lockHeld, nodes, alive,
  calls, iptablesMark, addresses, egressIPs, chains, table100, monitorNodes,
  traffic, poller, up, todo, scenario, reported,
  events, ids, handler, mover, egressPolicies, pdMap, due, answer, sync, rules

trackerVars == <<tracker, hostSubnets, netNamespaces>>
managerOnly == <<watch, cache, queue, eim, lockHeld, nodes, alive>>
nodeOnly == <<calls, iptablesMark, addresses, egressIPs, chains, table100, monitorNodes, traffic,
              poller, up, todo, scenario, reported>>
policyOnly == <<events, ids, handler, mover, egressPolicies, pdMap, due, answer, sync, rules>>

allVars == <<part, trackerVars, budget, missed, receiver, api, managerOnly, nodeOnly, policyOnly>>

\* The state of the parts a behaviour is not of.
NoTracker ==
  /\ tracker = none /\ hostSubnets = none /\ netNamespaces = none

NoManager ==
  /\ watch = none /\ cache = none /\ queue = none /\ eim = none
  /\ lockHeld = none /\ nodes = none /\ alive = none

NoNode ==
  /\ calls = none /\ iptablesMark = none /\ addresses = none /\ egressIPs = none
  /\ chains = none /\ table100 = none /\ monitorNodes = none /\ traffic = none
  /\ poller = none /\ up = none /\ todo = none /\ scenario = none
  /\ reported = none

NoPolicy ==
  /\ events = none /\ ids = none /\ handler = none /\ mover = none
  /\ egressPolicies = none /\ pdMap = none /\ due = none /\ answer = none
  /\ sync = none /\ rules = none

-----------------------------------------------------------------------------
(* EgressIPManager: two nodes, three namespaces with an egress IP of their *)
(* own at most, a CIDR with all the egress IPs and one with x only.        *)

ManagerHosts == {"A", "B"}
ManagerNamespaces == {"P", "Q", "R"}

ManagerUIDs == [h \in ManagerHosts |-> {h}]
ManagerVNIDs == [n \in ManagerNamespaces |-> {n}]
ManagerEgressIPs == {"x", "y", "z"}
ManagerCIDRs == {"all", "some"}
ManagerContents == [all |-> {"x", "y", "z"}, some |-> {"x"}]
ManagerLists == {<<>>, <<"x">>, <<"y">>, <<"z">>}

ManagerScenarios == LET
    Nothing == [cidrs |-> 0, removals |-> 0, lists |-> 0, outages |-> 0, losses |-> 0,
                errors |-> 0, late |-> 0]
    Case(cidrsA, cidrsB, listP, listQ, listR, b) ==
      [hostIP |-> [h \in ManagerHosts |-> h], cidrs |-> [A |-> cidrsA, B |-> cidrsB],
       lists |-> [P |-> listP, Q |-> listQ, R |-> listR], budget |-> b]
    \* Nodes fail and come back; three egress IPs, so that a node that was emptied
    \* gets some of them back.
    Outages == Case({"all"}, {"all"}, <<"x">>, <<"y">>, <<"z">>, [Nothing EXCEPT !.outages = 2])
    \* The egress IPs of namespaces change; one node can host only x.
    Changes == Case({"all"}, {"some"}, <<>>, <<"y">>, <<>>, [Nothing EXCEPT !.lists = 2])
    \* The CIDRs of nodes change, also while HostSubnets are being updated.
    Ranges == Case({"all"}, {}, <<"x">>, <<>>, <<>>, [Nothing EXCEPT !.cidrs = 2])
    \* A node is removed, and pings of nodes that are alive are lost.
    Removal == Case({"all"}, {"all"}, <<"x">>, <<>>, <<>>,
                    [Nothing EXCEPT !.removals = 1, !.losses = 3])
    \* A reallocation overtakes the news of an earlier one.
    Overtaking == Case({"all"}, {"all"}, <<"x">>, <<>>, <<>>,
                       [Nothing EXCEPT !.late = 1, !.outages = 2])
    \* An Update fails.
    Failure == Case({"all"}, {"all"}, <<"x">>, <<"y">>, <<>>,
                    [Nothing EXCEPT !.errors = 1, !.outages = 1])
  IN {Outages, Changes, Ranges, Removal, Overtaking, Failure}

Manager == INSTANCE EgressIPManager WITH
  Hosts <- ManagerHosts, UIDs <- ManagerHosts, UIDsOf <- ManagerUIDs, NodeIPs <- ManagerHosts,
  Namespaces <- ManagerNamespaces, VNIDs <- ManagerNamespaces, VNIDsOf <- ManagerVNIDs,
  EgressIPs <- ManagerEgressIPs, CIDRs <- ManagerCIDRs, Contents <- ManagerContents,
  Lists <- ManagerLists, maxRetries <- 2, Scenarios <- ManagerScenarios

-----------------------------------------------------------------------------
(* EgressIPNode: the node l, two other nodes, two egress IPs; "a" has an   *)
(* odd VNID, the mark of which has to avoid the masquerade bit, and so     *)
(* does "b"; the node r may move to the address t.                         *)

NodeHosts == {"l", "r", "s"}

NodeUIDs == [h \in NodeHosts |-> {h}]
NodeAddresses == NodeHosts \cup {"t"}
NodeNamespaces == {"a", "b"}
NodeVNIDs == {1, 3}
NodeVNIDsOf == [a |-> {1}, b |-> {3}]
NodeEgressIPs == {"x", "y"}
NodeLists == {<<>>, <<"x">>, <<"y">>, <<"x", "y">>, <<"y", "x">>}

NodeScenarios == LET
    H(h, ips) == [kind |-> "HostSubnet", name |-> h,
                  obj |-> [UID |-> h, HostIP |-> h, EgressIPs |-> ips, EgressCIDRs |-> {}]]
    At(h, ip, ips) == [H(h, ips) EXCEPT !.obj.HostIP = ip]
    N(n, list) == [kind |-> "NetNamespace", name |-> n,
                   obj |-> [NetID |-> IF n = "a" THEN 1 ELSE 3, EgressIPs |-> list]]
    Gone(kind, n) == [kind |-> kind, name |-> n, obj |-> none]
    Nothing == [inputs |-> 0, errors |-> 0, outages |-> 0, resets |-> 0, flushes |-> 0]
    \* This node holds egress IPs; rules and system calls fail.
    Local == [todo |-> <<H("l", {"x"})>>,
              budget |-> [Nothing EXCEPT !.inputs = 3, !.flushes = 1, !.errors = 1],
              inputs |-> {H("l", {"x"}), H("l", {"x", "y"}), Gone("HostSubnet", "l"),
                          N("a", <<"x">>), N("a", <<"y", "x">>), N("b", <<"x">>),
                          N("b", <<"y">>), N("a", <<>>), Gone("NetNamespace", "b")}]
    \* A namespace with an egress IP on each of two other nodes, one of which fails.
    Remote == [todo |-> <<H("r", {"x"}), H("s", {"y"}), N("a", <<"x", "y">>)>>,
               budget |-> [Nothing EXCEPT !.inputs = 1, !.outages = 1],
               inputs |-> {N("b", <<"y">>), At("r", "t", {"x"})}]
    \* Two egress IPs on another node.
    Both == [todo |-> <<H("r", {"x", "y"}), N("a", <<"x">>), N("b", <<"y">>)>>,
             budget |-> [Nothing EXCEPT !.inputs = 2, !.outages = 1],
             inputs |-> {N("b", <<"y">>), N("b", <<>>), H("r", {"x"}), H("r", {"x", "y"})}]
    \* OVS starts counting packets anew.
    Reset == [todo |-> <<H("r", {"x"}), N("a", <<"x">>)>>,
              budget |-> [Nothing EXCEPT !.inputs = 1, !.outages = 2, !.errors = 1, !.resets = 1],
              inputs |-> {N("b", <<"x">>), Gone("HostSubnet", "r")}]
  IN {Local, Remote, Both, Reset}

Node == INSTANCE EgressIPNode WITH
  Hosts <- NodeHosts, UIDs <- NodeHosts, UIDsOf <- NodeUIDs, NodeIPs <- NodeAddresses,
  Namespaces <- NodeNamespaces, VNIDs <- NodeVNIDs, VNIDsOf <- NodeVNIDsOf,
  EgressIPs <- NodeEgressIPs, CIDRs <- {}, Lists <- NodeLists, localIP <- "l",
  localNet <- NodeEgressIPs, masqueradeBit <- 1, maxRetries <- 2, Scenarios <- NodeScenarios

-----------------------------------------------------------------------------
(* EgressPolicies: two namespaces that may have a policy each.             *)

ThePolicies == {"p", "r"}
PolicyNamespaces == [p |-> "a", r |-> "b"]
PolicyVNIDs == 0 .. 3

PolicyScenarios == LET
    Nothing == [changes |-> 0, moves |-> 0, answers |-> 0, dnsErrors |-> 0, failures |-> 0,
                specs |-> {}, vnids |-> {}, ids |-> [a |-> 1, b |-> 2]]
    \* Policies with names, whose addresses change.
    Names == [Nothing EXCEPT !.changes = 2, !.answers = 2, !.dnsErrors = 1,
                             !.specs = {"dns", "empty", none}]
    NamesMove == [Nothing EXCEPT !.changes = 1, !.answers = 1, !.moves = 1, !.failures = 1,
                                 !.specs = {"dns", "cidr"}, !.vnids = {2, 3}]
  IN {Names, NamesMove}

Policy == INSTANCE EgressPolicies WITH
  Namespaces <- NodeNamespaces, VNIDs <- PolicyVNIDs, Policies <- ThePolicies,
  NamespaceOf <- PolicyNamespaces, Addresses <- NodeEgressIPs, Scenarios <- PolicyScenarios

-----------------------------------------------------------------------------
Init ==
  /\ part \in Parts
  /\ \/ /\ part = "manager" /\ Manager!ManagerInit
        /\ missed = none /\ receiver = none
        /\ NoNode /\ NoPolicy
     \/ /\ part = "node" /\ Node!NodeInit
        /\ api = none
        /\ NoManager /\ NoPolicy
     \/ /\ part = "policy" /\ Policy!Init
        /\ NoTracker /\ NoManager /\ NoNode

Next ==
  /\ UNCHANGED part
  /\ \/ /\ part = "manager" /\ Manager!ManagerNext
        /\ UNCHANGED <<missed, receiver, nodeOnly, policyOnly>>
     \/ /\ part = "node" /\ Node!NodeNext
        /\ UNCHANGED <<api, managerOnly, policyOnly>>
     \/ /\ part = "policy" /\ Policy!Next
        /\ UNCHANGED <<trackerVars, managerOnly, nodeOnly>>

\* The fairness of each part.  The goroutines of each part are numbered from 1 to 6,
\* so that there are not more conditions than one part has.
ManagerGoroutines == <<"watch", "handler", "lock", "updater", "A", "B">>
NodeGoroutines == <<"receive", "poll", "l", "r", "s", "t">>
PolicyGoroutines == <<"handler", "mover", "sync", "receiver", "p", "r">>

CanGoOn(i) ==
  CASE part = "manager" -> Manager!CanGoOn(ManagerGoroutines[i])
    [] part = "node" -> Node!CanGoOn(NodeGoroutines[i])
    [] OTHER -> Policy!CanGoOn(PolicyGoroutines[i])

GoesOn(i) ==
  CASE part = "manager" -> Manager!GoesOn(ManagerGoroutines[i])
    [] part = "node" -> Node!GoesOn(NodeGoroutines[i])
    [] OTHER -> Policy!GoesOn(PolicyGoroutines[i])

Fairness ==
  /\ \A i \in 1 .. 6 : []<>~CanGoOn(i) \/ []<><<GoesOn(i)>>_allVars
  /\ \A g \in {"call", "watchVXLAN"} :
       <>[]~(part = "node" /\ Node!CanLock(g))
         \/ []<><<part = "node" /\ Node!Locks(g)>>_allVars

Spec == Init /\ [][Next]_allVars /\ Fairness

-----------------------------------------------------------------------------
(* The properties of the parts, each of the behaviours of its part.        *)

\* The master gives no two HostSubnets the same egress IP, although it takes it from
\* one and gives it to the other in Updates of their own.
OneHostPerEgressIP == part = "manager" => Manager!OneHostPerEgressIP

\* What ReallocateEgressIPs returns puts an egress IP on one online node with a CIDR
\* for it, leaves none out without need, and when it asks to be called again has
\* taken one away.
ReallocationIsSound == part = "manager" => Manager!ReallocationIsSound

\* "If a HostSubnet's EgressCIDRs changes while we are processing the reallocation,
\* we won't process that until this reallocation is complete": a reallocation that
\* has begun is not kept from completing by a change that has to wait for it.
ReallocationCompletes == part = "manager" => Manager!ReallocationCompletes

\* Every egress IP that a namespace wants and a live node can host ends up on such a
\* node, and dead nodes are rid of theirs, unless the locks have met in a cycle or an
\* Update has failed.
EgressIPsPlaced ==
  \/ <>[](part = "manager" /\ Manager!LockCycle)
  \/ <>(part = "manager" /\ eim.failed)
  \/ <>[](part = "manager" => Manager!Placed)

\* The mark, the iptables rules, the addresses and the flows of a node agree on the
\* egress IPs it holds.
EgressTrafficTranslated == part = "node" => Node!EgressTrafficTranslated

\* The nodes monitored are those that hold egress IPs, and the tracker believes of
\* each what the monitor does.
MonitorFollowsTracker == part = "node" => Node!MonitorFollowsTracker

\* The handler, the poll and watchVXLAN wait for each other only when one poll has two
\* nodes to report.
StuckNeedsTwoReports == part = "node" => Node!StuckNeedsTwoReports

\* A monitored node that answers is not taken for offline for ever.
NodesComeBack ==
  \A a \in {"r", "s", "t"} :
    <>[](part = "node" /\ Node!Answers(a)) => []<>(part = "node" => Node!Trusted(a))

\* A name's new address reaches the flows, whatever signals are lost.
NamesFollowed == <>[](part = "policy" => Policy!NamesCurrent)
=============================================================================
