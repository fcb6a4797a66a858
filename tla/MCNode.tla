------------------------------- MODULE MCNode -------------------------------
(***************************************************************************)
(* Instances for TLC of the specifications of a node's network and proxy   *)
(* that have no liveness properties, and of its egress policies while      *)
(* namespaces move.  They share no state: a behaviour is one of the `part' *)
(* it starts with, and the variables that a part does not have stay none.  *)
(***************************************************************************)
EXTENDS Integers, Sequences, FiniteSets

CONSTANTS none, name, Parts

VARIABLES
  part,
  budget, netns, events, handler, ids, api, pdMap, endpoints, missed,
  vnids, requests, worker, running, sandboxes, leases, services, ovs, inUse, unused,
  netnsEvents, netnsHandler, policyEvents, policyHandler, namespaces, kNamespaces, pods,
  table80, loaded, ensuring,
  hostSubnets, seen, pending, delivered, hostSubnetMap, table10, table90, table111,
  policies, world, listed, update, firewall, allEndpoints, base,
  lister, serviceEvents, endpointsEvents, usingUserspace, switchedToUserspace, main,
  unidling, mainEndpoints, misplaced,
  protocol, listening, hasEndpoints, loop, conn, inConn, received, held, clock,
  timeoutStarted, waiters, closes, timer, silence, signals, bursts,
  mover, egressPolicies, due, answer, sync, receiver, rules

podsOnly == <<vnids, requests, worker, running, sandboxes, leases, services, ovs, inUse,
              unused>>
networkPolicyOnly == <<netnsEvents, netnsHandler, policyEvents, policyHandler, namespaces,
                       kNamespaces, pods, table80, loaded, ensuring>>
subnetsOnly == <<hostSubnets, seen, pending, delivered, hostSubnetMap, table10, table90,
                 table111>>
firewallOnly == <<policies, world, listed, update, firewall, allEndpoints, base>>
hybridOnly == <<lister, serviceEvents, endpointsEvents, usingUserspace,
                switchedToUserspace, main, unidling, mainEndpoints, misplaced>>
socketOnly == <<protocol, listening, hasEndpoints, loop, conn, inConn, received, held,
                clock, timeoutStarted, waiters, closes, timer, silence, signals, bursts>>
policyOnly == <<mover, egressPolicies, due, answer, sync, receiver, rules>>

\* The state of the parts a behaviour is not of.
NoPods ==
  /\ vnids = none /\ requests = none /\ worker = none /\ running = none /\ sandboxes = none
  /\ leases = none /\ services = none /\ ovs = none /\ inUse = none /\ unused = none

NoNetworkPolicy ==
  /\ netnsEvents = none /\ netnsHandler = none /\ policyEvents = none /\ policyHandler = none
  /\ namespaces = none /\ kNamespaces = none /\ pods = none /\ table80 = none
  /\ loaded = none /\ ensuring = none

NoSubnets ==
  /\ hostSubnets = none /\ seen = none /\ pending = none /\ delivered = none
  /\ hostSubnetMap = none /\ table10 = none /\ table90 = none /\ table111 = none

NoFirewall ==
  /\ policies = none /\ world = none /\ listed = none /\ update = none /\ firewall = none
  /\ allEndpoints = none /\ base = none

NoHybrid ==
  /\ lister = none /\ serviceEvents = none /\ endpointsEvents = none /\ usingUserspace = none
  /\ switchedToUserspace = none /\ main = none /\ unidling = none /\ mainEndpoints = none
  /\ misplaced = none

NoSocket ==
  /\ protocol = none /\ listening = none /\ hasEndpoints = none /\ loop = none /\ conn = none
  /\ inConn = none /\ received = none /\ held = none /\ clock = none /\ timeoutStarted = none
  /\ waiters = none /\ closes = none /\ timer = none /\ silence = none /\ signals = none
  /\ bursts = none

NoPolicy ==
  /\ mover = none /\ egressPolicies = none /\ due = none /\ answer = none /\ sync = none
  /\ receiver = none /\ rules = none

-----------------------------------------------------------------------------
TwoNamespaces == {"a", "b"}
TwoAddresses == {"x", "y"}
FourVNIDs == 0 .. 3

(* PodNetwork: a pod in each of two namespaces, a second sandbox for one   *)
(* of them, as many IPs as can be in use at once, a service.               *)

PodNames == {"p", "q"}
PodSandboxes == {"p1", "p2", "q1"}
PodIPs == {"i1", "i2"}
PodServices == {"web"}
PodsOf == [p1 |-> "p", p2 |-> "p", q1 |-> "q"]
PodNamespaces == [p |-> "a", q |-> "b", web |-> "a"]

PodScenarios == LET
    Obj(i, multicast) == [id |-> i, mc |-> multicast]
    Nothing == [changes |-> 0, pods |-> 0, deletes |-> 0, services |-> 0, syncs |-> 0,
                restarts |-> 0, failures |-> 0, objects |-> {},
                netns |-> [a |-> Obj(1, TRUE), b |-> Obj(2, TRUE)]]
    \* Namespaces join and part, and turn multicast off, while pods start.
    Moves == [Nothing EXCEPT !.changes = 2, !.pods = 2,
                             !.objects = {Obj(1, TRUE), Obj(2, TRUE), Obj(2, FALSE)}]
    \* A service, and its namespace moves.
    Service == [Nothing EXCEPT !.changes = 2, !.pods = 1, !.services = 2,
                               !.objects = {Obj(1, TRUE), Obj(2, TRUE)}]
    \* SyncVNIDRules while pods and services come and go.
    Syncs == [Nothing EXCEPT !.changes = 1, !.pods = 2, !.services = 1, !.syncs = 1,
                             !.objects = {Obj(2, TRUE)}]
    \* An ADD fails and its IP is used again.
    Failures == [Nothing EXCEPT !.pods = 3, !.deletes = 2, !.failures = 1]
    \* The process is restarted.
    Restarts == [Nothing EXCEPT !.changes = 1, !.pods = 2, !.restarts = 1,
                                !.objects = {Obj(2, TRUE)}]
    \* A NetNamespace comes late, changes, goes or comes again, for a pod and a service.
    LatePod == [Nothing EXCEPT !.changes = 2, !.pods = 1, !.deletes = 1,
                               !.objects = {Obj(3, TRUE), Obj(2, FALSE), none},
                               !.netns["a"] = none]
    LateService == [Nothing EXCEPT !.changes = 3, !.services = 2, !.netns["a"] = none,
                                   !.objects = {Obj(3, TRUE), Obj(2, FALSE), none}]
    \* Calls fail while a namespace moves.
    PodErrors == [Nothing EXCEPT !.changes = 2, !.pods = 1, !.failures = 1,
                                 !.objects = {Obj(1, TRUE), Obj(2, TRUE)}]
    ServiceErrors == [Nothing EXCEPT !.changes = 1, !.services = 2, !.failures = 1, !.syncs = 1,
                                     !.objects = {Obj(2, TRUE)}]
    \* A namespace is deleted and made anew, and the API cannot be asked for it.
    NewErrors == [Nothing EXCEPT !.changes = 2, !.pods = 1, !.failures = 1,
                                 !.objects = {Obj(3, TRUE), none}]
    \* No IP is free: a restart has kept the lease of a sandbox that was not set up.
    NoIP == [Nothing EXCEPT !.pods = 3, !.restarts = 1]
  IN {Moves, Service, Syncs, Failures, Restarts, LatePod, LateService, PodErrors,
      ServiceErrors, NewErrors, NoIP}

Pods == INSTANCE PodNetwork WITH
  Namespaces <- TwoNamespaces, VNIDs <- FourVNIDs, Pods <- PodNames, Sandboxes <- PodSandboxes,
  IPs <- PodIPs, Services <- PodServices, PodOf <- PodsOf, NamespaceOf <- PodNamespaces,
  Scenarios <- PodScenarios

-----------------------------------------------------------------------------
(* NetworkPolicies: two policies and a pod in "a", a second namespace.     *)

PolicyNames == {"p", "q"}
PolicyVNIDs == [a |-> 1, b |-> 2]
PolicyNamespaces == [p |-> "a", q |-> "a"]
OnePod == {"x"}
OnePodNamespace == [x |-> "a"]

NetworkPolicyScenarios == LET
    Nothing == [changes |-> 0, policies |-> 0, pods |-> 0, labels |-> 0, attaches |-> 0,
                detaches |-> 0, syncs |-> 0, failures |-> 0, kinds |-> {}, podLabels |-> {},
                netns |-> TwoNamespaces]
    \* Policies and pods change.
    Parse == [Nothing EXCEPT !.policies = 3, !.pods = 2, !.attaches = 1,
                             !.kinds = {"deny", "allow", "egress", none},
                             !.podLabels = {"plain", "chosen"}]
    \* Policies for peers in other namespaces, which come, go and change.
    Peers == [Nothing EXCEPT !.policies = 1, !.changes = 2, !.labels = 2, !.attaches = 1,
                             !.kinds = {"peers", "egress", "bad"}, !.netns = {"a"}]
    \* VNIDs come into use and go out of use.
    Use == [Nothing EXCEPT !.policies = 1, !.changes = 2, !.attaches = 2, !.detaches = 2,
                           !.syncs = 2, !.kinds = {"open", none}, !.pods = 1,
                           !.podLabels = {"chosen"}]
    \* Transactions fail.
    Fails == [Nothing EXCEPT !.policies = 2, !.changes = 1, !.attaches = 1, !.detaches = 1,
                             !.syncs = 1, !.failures = 1, !.kinds = {"allow", "egress", none}]
  IN {Parse, Peers, Use, Fails}

NetworkPolicy == INSTANCE NetworkPolicies WITH
  Names <- TwoNamespaces, VNIDOf <- PolicyVNIDs, Policies <- PolicyNames,
  PolicyNamespace <- PolicyNamespaces, PodIPs <- OnePod, PodNamespace <- OnePodNamespace,
  Scenarios <- NetworkPolicyScenarios

-----------------------------------------------------------------------------
(* HostSubnetRules: two other nodes, which may exchange addresses and      *)
(* subnets, be created again and have an invalid address.                  *)

HostNames == {"m", "n"}
HostUIDs == 1 .. 3
HostIPs == {"A", "B", "C"}
InvalidIPs == {"C"}
HostNetworks == {"s", "t"}

SubnetScenarios == LET
    Start(changes, failures) ==
      [hostSubnets |-> [m |-> [uid |-> 1, ip |-> "A", subnet |-> "s"],
                        n |-> [uid |-> 2, ip |-> "B", subnet |-> "t"]],
       budget |-> [changes |-> changes, failures |-> failures,
                   uids |-> [u \in HostUIDs |-> u = 3]]]
  IN {Start(4, 0), Start(2, 1)}

Subnets == INSTANCE HostSubnetRules WITH
  Names <- HostNames, UIDs <- HostUIDs, NodeIPs <- HostIPs, BadIPs <- InvalidIPs,
  Subnets <- HostNetworks, Scenarios <- SubnetScenarios

-----------------------------------------------------------------------------
(* ProxyFirewall: a namespace with a policy that may be replaced, and      *)
(* Endpoints that may be created again.                                    *)

FirewallNamespaces == {"a"}
FirewallEndpoints == {"e"}
FirewallNamespaceOf == [e |-> "a"]
FirewallUIDs == {"e1", "e2"}
FirewallNames == [e1 |-> "e", e2 |-> "e"]
DenyOne == << <<"Deny", {"x"}>> >>
DenyName == << <<"Deny", name>> >>
FirewallRulesets == {DenyOne, << <<"Allow", {"x"}>>, <<"Deny", TwoAddresses>> >>, DenyName}
FirewallAnswers == {<<"x">>, <<"x", "y">>}

FirewallScenarios == LET
    Start(id, p, changes, policyChanges, joins, answers, failures) ==
      [netns |-> [a |-> id], policies |-> [p |-> p, q |-> none],
       budget |-> [endpoints |-> changes, policies |-> policyChanges, netns |-> joins,
                   moves |-> answers, failures |-> failures,
                   uids |-> [u \in FirewallUIDs |-> TRUE],
                   unborn |-> [p |-> FALSE, q |-> TRUE]]]
  IN {Start(1, DenyOne, 2, 1, 0, 0, 0),   \* Endpoints change
      Start(1, DenyOne, 1, 2, 0, 0, 0),   \* policies change
      Start(1, DenyName, 1, 1, 0, 1, 1),  \* names, whose addresses change
      Start(0, DenyOne, 1, 1, 1, 0, 0)}   \* a global namespace gets an id of its own

Firewall == INSTANCE ProxyFirewall WITH
  Namespaces <- FirewallNamespaces, Policies <- PolicyNames,
  PolicyNamespace <- PolicyNamespaces, Names <- FirewallEndpoints,
  NamespaceOf <- FirewallNamespaceOf, EndpointsUIDs <- FirewallUIDs, NameOf <- FirewallNames,
  Addresses <- TwoAddresses, Rulesets <- FirewallRulesets, Answers <- FirewallAnswers,
  Scenarios <- FirewallScenarios

-----------------------------------------------------------------------------
(* HybridProxier: one service, as services do not meet.                    *)

HybridServices == {"s"}
HybridVersions == {1, 2}
HybridScenarios == {[services |-> 4, endpoints |-> 4]}

Hybrid == INSTANCE HybridProxier WITH
  Services <- HybridServices, Versions <- HybridVersions, Scenarios <- HybridScenarios

-----------------------------------------------------------------------------
(* Unidler: twice as many connections as are held, over more ticks than    *)
(* the timeout.                                                            *)

SocketConns == {"c1", "c2", "c3", "c4"}
SocketScenarios == LET
    Start(kind, ticks, changes, packets) ==
      [protocol |-> kind,
       budget |-> [ticks |-> ticks, endpoints |-> changes, packets |-> packets]]
  IN {Start("TCP", 4, 2, 0), Start("UDP", 6, 0, 4)}

Socket == INSTANCE Unidler WITH
  Conns <- SocketConns, MaxHeldConnections <- 2, needPodsWaitTimeout <- 2,
  Scenarios <- SocketScenarios

-----------------------------------------------------------------------------
(* EgressPolicies: two policies in "a", one in "b".                        *)

EgressNames == {"p", "q", "r"}
EgressNamespaces == [p |-> "a", q |-> "a", r |-> "b"]

EgressScenarios == LET
    Nothing == [changes |-> 0, moves |-> 0, answers |-> 0, dnsErrors |-> 0, failures |-> 0,
                specs |-> {}, vnids |-> {}, ids |-> [a |-> 1, b |-> 2]]
    \* Namespaces move while policies change.
    Moves == [Nothing EXCEPT !.changes = 3, !.moves = 2, !.specs = {"cidr", none},
                             !.vnids = {1, 2}]
    \* A namespace is deleted and made anew.
    Deletion == [Nothing EXCEPT !.changes = 2, !.moves = 2, !.specs = {"cidr", none},
                                !.vnids = {none, 1}]
    \* A policy with a name, whose address changes, in a namespace that moves.
    Names == [Nothing EXCEPT !.changes = 2, !.answers = 1, !.moves = 1,
                             !.specs = {"dns", "cidr"}, !.vnids = {2, 3}]
    \* Transactions fail, in the handlers, in a move and after a change of address.
    MoveFails == [Nothing EXCEPT !.changes = 2, !.moves = 1, !.failures = 1,
                                 !.specs = {"dns", none}, !.vnids = {2}]
    NameFails == [Nothing EXCEPT !.changes = 2, !.answers = 1, !.failures = 1,
                                 !.specs = {"dns", none}]
  IN {Moves, Deletion, Names, MoveFails, NameFails}

Policy == INSTANCE EgressPolicies WITH
  Namespaces <- TwoNamespaces, VNIDs <- FourVNIDs, Policies <- EgressNames,
  NamespaceOf <- EgressNamespaces, Addresses <- TwoAddresses, Scenarios <- EgressScenarios

-----------------------------------------------------------------------------
Init ==
  /\ part \in Parts
  /\ \/ /\ part = "pods" /\ Pods!Init
        /\ NoNetworkPolicy /\ NoSubnets /\ NoFirewall /\ NoHybrid /\ NoSocket /\ NoPolicy
        /\ ids = none /\ api = none /\ pdMap = none /\ endpoints = none
     \/ /\ part = "networkpolicy" /\ NetworkPolicy!Init
        /\ NoPods /\ NoSubnets /\ NoFirewall /\ NoHybrid /\ NoSocket /\ NoPolicy
        /\ events = none /\ handler = none /\ pdMap = none /\ endpoints = none
     \/ /\ part = "subnets" /\ Subnets!Init
        /\ NoPods /\ NoNetworkPolicy /\ NoFirewall /\ NoHybrid /\ NoSocket /\ NoPolicy
        /\ netns = none /\ events = none /\ handler = none /\ ids = none /\ api = none
        /\ pdMap = none /\ endpoints = none
     \/ /\ part = "firewall" /\ Firewall!Init
        /\ NoPods /\ NoNetworkPolicy /\ NoSubnets /\ NoHybrid /\ NoSocket /\ NoPolicy
        /\ api = none
     \/ /\ part = "hybrid" /\ Hybrid!Init
        /\ NoPods /\ NoNetworkPolicy /\ NoSubnets /\ NoFirewall /\ NoSocket /\ NoPolicy
        /\ netns = none /\ events = none /\ handler = none /\ ids = none /\ api = none
        /\ pdMap = none /\ missed = none
     \/ /\ part = "socket" /\ Socket!Init
        /\ NoPods /\ NoNetworkPolicy /\ NoSubnets /\ NoFirewall /\ NoHybrid /\ NoPolicy
        /\ netns = none /\ events = none /\ handler = none /\ ids = none /\ api = none
        /\ pdMap = none /\ endpoints = none /\ missed = none
     \/ /\ part = "policy" /\ Policy!Init
        /\ NoPods /\ NoNetworkPolicy /\ NoSubnets /\ NoFirewall /\ NoHybrid /\ NoSocket
        /\ netns = none /\ endpoints = none

Next ==
  /\ UNCHANGED part
  /\ \/ /\ part = "pods" /\ Pods!Next
        /\ UNCHANGED <<networkPolicyOnly, subnetsOnly, firewallOnly, hybridOnly,
                      socketOnly, policyOnly, ids, api, pdMap, endpoints>>
     \/ /\ part = "networkpolicy" /\ NetworkPolicy!Next
        /\ UNCHANGED <<podsOnly, subnetsOnly, firewallOnly, hybridOnly, socketOnly,
                      policyOnly, events, handler, pdMap, endpoints>>
     \/ /\ part = "subnets" /\ Subnets!Next
        /\ UNCHANGED <<podsOnly, networkPolicyOnly, firewallOnly, hybridOnly, socketOnly,
                      policyOnly, netns, events, handler, ids, api, pdMap, endpoints>>
     \/ /\ part = "firewall" /\ Firewall!Next
        /\ UNCHANGED <<podsOnly, networkPolicyOnly, subnetsOnly, hybridOnly, socketOnly,
                      policyOnly, api>>
     \/ /\ part = "hybrid" /\ Hybrid!Next
        /\ UNCHANGED <<podsOnly, networkPolicyOnly, subnetsOnly, firewallOnly, socketOnly,
                      policyOnly, netns, events, handler, ids, api, pdMap, missed>>
     \/ /\ part = "socket" /\ Socket!Next
        /\ UNCHANGED <<podsOnly, networkPolicyOnly, subnetsOnly, firewallOnly, hybridOnly,
                      policyOnly, netns, events, handler, ids, api, pdMap, endpoints,
                      missed>>
     \/ /\ part = "policy" /\ Policy!Next
        /\ UNCHANGED <<podsOnly, networkPolicyOnly, subnetsOnly, firewallOnly, hybridOnly,
                      socketOnly, netns, endpoints>>

-----------------------------------------------------------------------------
(* The properties of the parts, each of the states of its part.            *)

\* When nothing is under way, the flows of a pod or a service carry the VNID its
\* namespace has.
PodsFollowNamespaces == part = "pods" => Pods!PodsFollowNamespaces

\* The VNID of a live pod or a service has its flow in table 80, whatever
\* SyncVNIDRules deletes.
VNIDRulesPresent == part = "pods" => Pods!VNIDRulesPresent

\* When nothing is under way, a pod gets the multicast of its VNID if that has it.
MulticastFollowsPods == part = "pods" => Pods!MulticastFollowsPods

\* A VNID that pods load is in use and written, or is about to be; no flows stay for a
\* namespace that is gone.
InUseIsWritten == part = "networkpolicy" => NetworkPolicy!InUseIsWritten


\* When the watcher has caught up, packets are let in from the other nodes at their
\* own addresses, their subnets are reached there, and no other flow is left.
TunnelsFollowHostSubnets == part = "subnets" => Subnets!TunnelsFollowHostSubnets

\* When nothing is left to handle, the real proxy has the Endpoints that the policies
\* let through.
EndpointsFiltered == part = "firewall" => Firewall!EndpointsFiltered

\* When both handlers have caught up, a service is in the one proxy it belongs in.
ServicesPlaced == part = "hybrid" => Hybrid!ServicesPlaced

\* Connections are held within the limit, none is forgotten, endpointsAvail is closed
\* once and NeedPods sent once per awakening.
ConnectionsAccountedFor == part = "socket" => Socket!ConnectionsAccountedFor

\* When nothing is under way, table 101 says what the policies in the API say, whatever
\* namespaces have moved.
EgressRulesCurrent == part = "policy" => Policy!EgressRulesCurrent
=============================================================================
