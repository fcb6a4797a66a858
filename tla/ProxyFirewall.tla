--------------------------- MODULE ProxyFirewall ---------------------------
(***************************************************************************)
(* The endpoint filter of the service proxy: OsdnProxy (pkg/network/proxy/ *)
(* proxy.go) stands between the watch of the Endpoints and the real proxy, *)
(* and withholds the Endpoints with an address outside the cluster that    *)
(* the EgressNetworkPolicies of their namespace deny.                      *)
(*                                                                         *)
(* Four goroutines meet: the handler of the policies, which works on the   *)
(* DNS cache before it takes the lock; the handler of the Endpoints; the   *)
(* handler of the NetNamespaces, which only tells global namespaces from   *)
(* the others; and the one that applies DNS changes, to the policies of a  *)
(* list it made earlier.  EgressPolicies models the DNS cache itself.      *)
(***************************************************************************)
EXTENDS Integers, FiniteSets, SequencesExt

CONSTANTS
    Namespaces,
    Policies,       \* the UIDs of the EgressNetworkPolicies ...
    PolicyNamespace,    \* ... and their namespaces
    Names,          \* the names of the Endpoints ...
    NamespaceOf,    \* ... and their namespaces
    EndpointsUIDs,  \* one for every Endpoints ever created ...
    NameOf,         \* ... and their names
    Addresses,      \* addresses outside the cluster
    Rulesets,       \* what may be in a policy: sequences of <<type, to>>
    name,           \* the DNS name that `to' may be; else a set of addresses
    Answers,        \* what the name may resolve to: sequences of addresses
    none,
    Scenarios       \* what a behaviour may start with

VARIABLES
    netns,          \* the NetIDs of the API
    ids,            \* OsdnProxy.ids; a namespace it has not is read as 0
    policies,       \* in the API: Policies -> rules or none
    events,         \* what the informer has to hand over: <<policy, rules>>
    handler,        \* the event whose policy waits for the lock, or none
    world,          \* what the name resolves to
    pdMap,          \* the DNS cache: Policies -> an answer or none
    listed,         \* the list of the DNS goroutine, or none
    update,         \* the policy it has to update: <<>>, <<p>> or <<p, rules>>
    firewall,       \* OsdnProxy.firewall: Policies -> items; <<>> if absent
    allEndpoints,   \* OsdnProxy.allEndpoints: UIDs -> ... or none
    endpoints,      \* in the API: Names -> [uid, addresses] or none
    base,           \* what the real proxy has: Names -> addresses or none
    missed,         \* what the code is known not to follow
    budget          \* bounds

policyVars == <<policies, events, handler>>
dnsVars == <<world, pdMap, listed, update>>
vars == <<netns, ids, policyVars, dnsVars, firewall, allEndpoints, endpoints,
          base, missed, budget>>

Spend(field) == /\ budget[field] > 0
                /\ budget' = [budget EXCEPT ![field] = @ - 1]

-----------------------------------------------------------------------------
(* The firewall                                                            *)

isNamespaceGlobal(ns) == ids[ns] = 0

\* The items that updateEgressNetworkPolicy makes of one rule.  Those of a DNS
\* name hold a pointer to the loop variable: all of them mean its last value.
Items(p, rule) ==
    IF rule[2] # name
      THEN <<rule>>
      ELSE IF pdMap[p] = none
        THEN <<>>
        ELSE [i \in DOMAIN pdMap[p] |-> <<rule[1], {Last(pdMap[p])}>>]

Firewall(p, rules) == FoldLeft(LAMBDA items, rule : items \o Items(p, rule),
                               <<>>, rules)

namespaceFirewalls(fw, ns) ==
    {p \in Policies : PolicyNamespace[p] = ns /\ fw[p] # <<>>}

\* The first item with the address decides.
Denies(items, ip) ==
    LET i == SelectInSeq(items, LAMBDA item : ip \in item[2])
    IN i > 0 /\ items[i][1] = "Deny"

\* A namespace with several policies has no active one and is blocked.
firewallBlocksIP(fw, ns, ip) ==
    LET active == namespaceFirewalls(fw, ns)
    IN /\ active # {}
       /\ Cardinality(active) = 1 => \A p \in active : Denies(fw[p], ip)

endpointsBlocked(fw, ns, addresses) ==
    \E ip \in addresses : firewallBlocksIP(fw, ns, ip)

\* updateEgressNetworkPolicy, under the lock.  Endpoints that change sides
\* are added to or deleted from the real proxy in the order of a Go map.
updateEgressNetworkPolicy(p, rules) ==
    LET ns == PolicyNamespace[p]
        fw == [firewall EXCEPT ![p] = Firewall(p, rules)]
        Here(u) == allEndpoints[u] # none /\ NamespaceOf[NameOf[u]] = ns
        now == [u \in EndpointsUIDs |->
                  IF Here(u)
                    THEN [allEndpoints[u] EXCEPT !.blocked =
                            endpointsBlocked(fw, ns, allEndpoints[u].addresses)]
                    ELSE allEndpoints[u]]
        Flips(n) == {u \in EndpointsUIDs : NameOf[u] = n
                                             /\ now[u] # allEndpoints[u]}
    IN IF isNamespaceGlobal(ns)
         THEN UNCHANGED <<firewall, allEndpoints, base>>
         ELSE /\ firewall' = fw
              /\ allEndpoints' = now
              /\ \E last \in [Names -> EndpointsUIDs \union {none}] :
                    /\ \A n \in Names :
                          IF Flips(n) = {} THEN last[n] = none
                                           ELSE last[n] \in Flips(n)
                    /\ base' = [n \in Names |->
                                  IF last[n] = none THEN base[n]
                                  ELSE IF now[last[n]].blocked THEN none
                                  ELSE now[last[n]].addresses]

-----------------------------------------------------------------------------
(* The Endpoints: each call runs under the lock.                           *)

OnEndpointsAdd(e) ==
    LET n == NameOf[e.uid]
        blocked == endpointsBlocked(firewall, NamespaceOf[n], e.addresses)
    IN /\ allEndpoints' = [allEndpoints EXCEPT ![e.uid] =
                             [addresses |-> e.addresses, blocked |-> blocked]]
       /\ base' = IF blocked THEN base
                             ELSE [base EXCEPT ![n] = e.addresses]

\* Endpoints that are not known are taken for blocked ones.
OnEndpointsUpdate_Kept(e) ==
    LET n == NameOf[e.uid]
        blocked == endpointsBlocked(firewall, NamespaceOf[n], e.addresses)
    IN /\ allEndpoints' = [allEndpoints EXCEPT ![e.uid] =
                             [addresses |-> e.addresses, blocked |-> blocked]]
       /\ base' = IF blocked THEN base
                             ELSE [base EXCEPT ![n] = e.addresses]

OnEndpointsUpdate(e) ==
    LET n == NameOf[e.uid]
        old == allEndpoints[e.uid]
        wasBlocked == IF old = none THEN TRUE ELSE old.blocked
        blocked == endpointsBlocked(firewall, NamespaceOf[n], e.addresses)
    IN /\ allEndpoints' = [allEndpoints EXCEPT ![e.uid] =
                             [addresses |-> e.addresses, blocked |-> blocked]]
       /\ base' = IF ~blocked THEN [base EXCEPT ![n] = e.addresses]
                  ELSE IF ~wasBlocked THEN [base EXCEPT ![n] = none]
                  ELSE base

OnEndpointsDelete(e) ==
    IF allEndpoints[e.uid] = none
      THEN UNCHANGED <<allEndpoints, base>>
      ELSE /\ allEndpoints' = [allEndpoints EXCEPT ![e.uid] = none]
           /\ base' = IF allEndpoints[e.uid].blocked
                        THEN base ELSE [base EXCEPT ![NameOf[e.uid]] = none]

\* The Endpoints of the API change and the watch says so.  Endpoints deleted
\* and created again may be reported as updated: the entry of the old UID
\* then stays in allEndpoints.
changeEndpoints(n) ==
    LET old == endpoints[n]
        Fresh == {u \in EndpointsUIDs : NameOf[u] = n /\ budget.uids[u]}
        Used(u) == budget' = [budget EXCEPT !.endpoints = @ - 1,
                                            !.uids[u] = FALSE]
    IN /\ budget.endpoints > 0
       /\ \E to \in (SUBSET Addresses) \ {{}} :
             \/ /\ old = none
                /\ \E u \in Fresh :
                      LET e == [uid |-> u, addresses |-> to]
                      IN /\ OnEndpointsAdd(e)
                         /\ endpoints' = [endpoints EXCEPT ![n] = e]
                         /\ Used(u)
                /\ UNCHANGED missed
             \/ /\ old # none /\ old.addresses # to
                /\ LET e == [uid |-> old.uid, addresses |-> to]
                   IN /\ OnEndpointsUpdate(e)
                      /\ endpoints' = [endpoints EXCEPT ![n] = e]
                /\ Spend("endpoints")
                /\ UNCHANGED missed
             \/ /\ old # none
                /\ \E u \in Fresh :
                      LET e == [uid |-> u, addresses |-> to]
                      IN /\ OnEndpointsUpdate(e)
                         /\ endpoints' = [endpoints EXCEPT ![n] = e]
                         /\ Used(u)
                /\ missed' = missed \union {n}
             \/ /\ old # none
                /\ OnEndpointsDelete(old)
                /\ endpoints' = [endpoints EXCEPT ![n] = none]
                /\ Spend("endpoints")
                /\ UNCHANGED missed
       /\ UNCHANGED <<netns, ids, policyVars, dnsVars, firewall>>

-----------------------------------------------------------------------------
(* The policies                                                            *)

UsesName(rules) == \E i \in DOMAIN rules : rules[i][2] = name

\* The namespace was global, or not known yet, when the policy was handled.
Ignored(p) == IF isNamespaceGlobal(PolicyNamespace[p]) THEN {p} ELSE {}

\* handleAddOrUpdateEgressNetworkPolicy and handleDeleteEgressNetworkPolicy:
\* egressDNS.Delete and Add, without the lock ...
handleDNS ==
    /\ handler = none /\ events # <<>>
    /\ handler' = Head(events)
    /\ events' = Tail(events)
    /\ LET p == Head(events)[1]
           rules == Head(events)[2]
       IN pdMap' = [pdMap EXCEPT ![p] = IF rules # none /\ UsesName(rules)
                                          THEN world ELSE none]
    /\ UNCHANGED <<netns, ids, policies, world, listed, update, firewall,
                   allEndpoints, endpoints, base, missed, budget>>

\* ... then updateEgressNetworkPolicy, with it.  A deleted policy has no rules.
handleEgressNetworkPolicy ==
    /\ handler # none
    /\ LET p == handler[1]
       IN /\ updateEgressNetworkPolicy(p, IF handler[2] = none
                                            THEN <<>> ELSE handler[2])
          /\ missed' = (missed \ {p}) \union Ignored(p)
    /\ handler' = none
    /\ UNCHANGED <<netns, ids, policies, events, dnsVars, endpoints, budget>>

handleNetNamespace(ns) ==
    /\ ids[ns] # netns[ns]
    /\ ids' = [ids EXCEPT ![ns] = netns[ns]]
    /\ UNCHANGED <<netns, policyVars, dnsVars, firewall, allEndpoints,
                   endpoints, base, missed, budget>>

-----------------------------------------------------------------------------
(* syncEgressDNSProxyFirewall                                              *)

\* The list that it starts with; a List that fails is tried again.
list ==
    /\ listed = none
    /\ listed' = policies
    /\ UNCHANGED <<netns, ids, policyVars, world, pdMap, update, firewall,
                   allEndpoints, endpoints, base, missed, budget>>

\* egressDNS.Sync has found another answer and sends the policy's UID.
resolve(p) ==
    /\ listed # none /\ update = <<>>
    /\ pdMap[p] # none /\ pdMap[p] # world
    /\ pdMap' = [pdMap EXCEPT ![p] = world]
    /\ update' = <<p>>
    /\ UNCHANGED <<netns, ids, policyVars, world, listed, firewall,
                   allEndpoints, endpoints, base, missed, budget>>

\* The policy is looked up in the old list, and in a new one if it is not
\* there; if that List fails the answer is lost, and the list is left empty.
getPolicy ==
    /\ Len(update) = 1
    /\ LET p == update[1]
       IN \/ /\ listed[p] # none
             /\ update' = <<p, listed[p]>>
             /\ UNCHANGED <<listed, missed, budget>>
          \/ /\ listed[p] = none
             /\ listed' = policies
             /\ update' = IF policies[p] = none THEN <<>>
                                                ELSE <<p, policies[p]>>
             /\ UNCHANGED <<missed, budget>>
          \/ /\ listed[p] = none
             /\ Spend("failures")
             /\ update' = <<>>
             /\ missed' = missed \union {p}
             /\ listed' = [q \in Policies |-> none]
    /\ UNCHANGED <<netns, ids, policyVars, world, pdMap, firewall,
                   allEndpoints, endpoints, base>>

\* updateEgressNetworkPolicyLocked, with the policy as it was listed.
updateEgressNetworkPolicyLocked ==
    /\ Len(update) = 2
    /\ LET p == update[1]
       IN /\ updateEgressNetworkPolicy(p, update[2])
          /\ missed' = missed \union Ignored(p)
                         \union IF update[2] = policies[p] THEN {} ELSE {p}
    /\ update' = <<>>
    /\ UNCHANGED <<netns, ids, policyVars, world, pdMap, listed, endpoints,
                   budget>>

-----------------------------------------------------------------------------
changePolicy(p) ==
    /\ budget.policies > 0
    /\ budget' = [budget EXCEPT !.policies = @ - 1, !.unborn[p] = FALSE]
    /\ \E rules \in Rulesets \union {none} :
          /\ rules # policies[p]
          /\ policies[p] = none => budget.unborn[p]
          /\ policies' = [policies EXCEPT ![p] = rules]
          /\ events' = Append(events, <<p, rules>>)
    /\ UNCHANGED <<netns, ids, handler, dnsVars, firewall, allEndpoints,
                   endpoints, base, missed>>

changeNetNamespace(ns) ==
    /\ Spend("netns")
    /\ netns' = [netns EXCEPT ![ns] = 1 - @]
    /\ UNCHANGED <<ids, policyVars, dnsVars, firewall, allEndpoints,
                   endpoints, base, missed>>

nameMoves ==
    /\ Spend("moves")
    /\ world' \in Answers \ {world}
    /\ UNCHANGED <<netns, ids, policyVars, pdMap, listed, update, firewall,
                   allEndpoints, endpoints, base, missed>>

\* Start lists the policies before any NetID is known: they only reach the DNS
\* cache.  The informers then report everything there is.
Init ==
    \E s \in Scenarios :
        /\ budget = s.budget
        /\ netns = s.netns
        /\ ids = [ns \in Namespaces |-> 0]
        /\ policies = s.policies
        /\ \E order \in SetToSeqs({p \in Policies : s.policies[p] # none}) :
              events = [i \in DOMAIN order |-> <<order[i], policies[order[i]]>>]
        /\ handler = none
        /\ world \in Answers
        /\ pdMap = [p \in Policies |->
                      IF policies[p] # none /\ UsesName(policies[p])
                        THEN world ELSE none]
        /\ listed = none
        /\ update = <<>>
        /\ firewall = [p \in Policies |-> <<>>]
        /\ allEndpoints = [u \in EndpointsUIDs |-> none]
        /\ endpoints = [n \in Names |-> none]
        /\ base = [n \in Names |-> none]
        /\ missed = {}

Next ==
    \/ \E n \in Names : changeEndpoints(n)
    \/ \E p \in Policies : changePolicy(p) \/ resolve(p)
    \/ \E ns \in Namespaces : changeNetNamespace(ns) \/ handleNetNamespace(ns)
    \/ nameMoves
    \/ handleDNS
    \/ handleEgressNetworkPolicy
    \/ list
    \/ getPolicy
    \/ updateEgressNetworkPolicyLocked

Spec == Init /\ [][Next]_vars

-----------------------------------------------------------------------------
\* What the policies of the API and the answers in the DNS cache ask for.
Wanted(p) ==
    LET Rule(r) == IF r[2] # name THEN r
                   ELSE <<r[1], IF pdMap[p] = none THEN {}
                                ELSE {pdMap[p][i] : i \in DOMAIN pdMap[p]}>>
    IN IF policies[p] = none
         THEN <<>>
         ELSE SelectSeq([i \in DOMAIN policies[p] |-> Rule(policies[p][i])],
                        LAMBDA r : r[2] # {})

\* The policies of the namespace are followed, except in the known cases: one
\* handled while its namespace was global or unknown (isNamespaceGlobal), one
\* whose DNS change was applied to an old list of the policies or lost, and one
\* with a name of several addresses (only the last of them is filtered).
Followed(ns) ==
    \A p \in Policies : PolicyNamespace[p] = ns =>
        /\ p \notin missed
        /\ policies[p] # none /\ UsesName(policies[p]) /\ pdMap[p] # none
             => Len(pdMap[p]) <= 1

\* When nothing is left to handle, the real proxy has exactly the Endpoints
\* that exist and that the policies of their namespace let through, with the
\* addresses they have now, in whatever order Endpoints, policies, NetNamespaces
\* and DNS answers came: firewall, blocked and what was passed on agree.  Not
\* so for Endpoints deleted and created again between two reports.
EndpointsFiltered ==
    events = <<>> /\ handler = none /\ update = <<>> =>
      \A n \in Names : n \notin missed /\ Followed(NamespaceOf[n]) =>
        base[n] = IF endpoints[n] = none THEN none
                  ELSE IF endpointsBlocked([p \in Policies |-> Wanted(p)],
                                           NamespaceOf[n],
                                           endpoints[n].addresses)
                  THEN none
                  ELSE endpoints[n].addresses
=============================================================================
