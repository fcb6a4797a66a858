-------------------------- MODULE NetworkPolicies ---------------------------
(***************************************************************************)
(* The networkpolicy plugin on a node: it parses the NetworkPolicies of a  *)
(* namespace against the pods and namespaces it knows, parses them again   *)
(* when those change, and writes table 80 for namespaces in use.           *)
(*                                                                         *)
(* The handlers of Pods, Namespaces, NetNamespaces and NetworkPolicies,    *)
(* the pod worker (EnsureVNIDRules), the hourly SyncVNIDRules and the      *)
(* runner of syncFlows are goroutines of their own; np.lock is held by     *)
(* each of their steps.  A pod's name is its IP, and pods and namespaces   *)
(* have one label that selectors may choose.                               *)
(***************************************************************************)
EXTENDS Naturals, FiniteSets, Sequences, SequencesExt, FiniteSetsExt

CONSTANTS
  Names, VNIDOf,       \* namespaces, and the NetID each gets
  Policies, PolicyNamespace,
  PodIPs, PodNamespace,
  none, Scenarios

VARIABLES
  netns,       \* the namespaces with a NetNamespace in the API
  netnsEvents, \* <<"add", n>> and <<"delete", n>>
  ids,         \* the namespaces in the nodeVNIDMap
  netnsHandler, \* between setVNID and AddNetNamespace: that event, or none
  api,         \* api[p]: the kind of NetworkPolicy p, or none
  policyEvents, policyHandler,
  namespaces,  \* np.namespaces[v], or none
  kNamespaces, \* np.kNamespaces[n]: "plain" or "chosen", or none
  pods,        \* np.pods[x]: as kNamespaces
  table80,     \* table80[v]: [allow, drop], or none
  loaded,      \* the VNIDs that flows of local pods load
  ensuring,    \* the VNID the pod worker is to call EnsureVNIDRules for, or none
  missed,      \* not in the code: <<v, "parsed">> when the policies of v may be out of
               \* date, <<v, "written">> when the last transaction for v was lost
  budget

vars == <<netns, netnsEvents, ids, netnsHandler, api, policyEvents, policyHandler, namespaces,
          kNamespaces, pods, table80, loaded, ensuring, missed, budget>>

VNIDs == {VNIDOf[n] : n \in Names}
Spend(field) == budget[field] > 0 /\ budget' = [budget EXCEPT ![field] = @ - 1]

-----------------------------------------------------------------------------
(***************************************************************************)
(* Parsing.  The kinds of policy: "allow" the namespace itself to all its  *)
(* pods; "deny" all to the chosen pods; "open" the chosen pods to all;     *)
(* "peers" allows the chosen namespaces to all pods; "egress" does not     *)
(* affect ingress; "bad" is not supported, and denies all to all.          *)
(* selected has the IPs of selectedIPs, or Everyone for nil; that of       *)
(* "egress" is the empty string.                                           *)
(***************************************************************************)
Everyone == {"everyone"}

selectPods(n, P) == {x \in PodIPs : P[x] = "chosen" /\ PodNamespace[x] = n}
selectNamespaces(spaces, K) ==
  {<<"reg0", v>> : v \in {w \in DOMAIN spaces : spaces[w] # none /\ K[spaces[w].name] = "chosen"}}

parseNetworkPolicy(kind, v, n, spaces, K, P) ==
  LET npp(flows, selected, watchesPods, watchesNamespaces) ==
        [kind |-> kind, flows |-> flows, selected |-> selected,
         watchesPods |-> watchesPods, watchesNamespaces |-> watchesNamespaces]
      chosen == selectPods(n, P)
  IN CASE kind = "allow"  -> npp({<<"reg0", v>>}, Everyone, FALSE, FALSE)
       [] kind = "deny"   -> npp({}, chosen, TRUE, FALSE)
       [] kind = "open"   -> npp({<<"nw_dst", x>> : x \in chosen}, chosen, TRUE, FALSE)
       [] kind = "peers"  -> npp(selectNamespaces(spaces, K), Everyone, FALSE, TRUE)
       [] kind = "egress" -> npp({}, {""}, FALSE, FALSE)
       [] kind = "bad"    -> npp({}, Everyone, FALSE, FALSE)

\* Whether updateNetworkPolicy, which stores new in place of old, reports a change.
changed(old, new) == old = none \/ old.flows # new.flows

\* syncNamespaceFlows
Flows(npns) ==
  IF ~npns.inUse THEN none
  ELSE LET npps == {npns.policies[p] : p \in {q \in Policies : npns.policies[q] # none}}
           selected == UNION {npp.selected : npp \in npps}
       IN [allow |-> UNION {npp.flows : npp \in npps},
           drop |-> IF Everyone \subseteq selected THEN Everyone ELSE selected]

\* A drop flow with no address after "nw_dst=".  OVS takes it for all packets, or
\* refuses it, as the parser of ovs/parse.go does, and with it the transaction.
HasEmptyField(flows) == flows # none /\ "" \in flows.drop

Installed(flows) ==
  IF HasEmptyField(flows) THEN [flows EXCEPT !.drop = Everyone] ELSE flows

\* syncNamespace; the runner will call syncFlows.
dirty(npns) == [npns EXCEPT !.dirty = TRUE]

NewNamespace(n, inUse) ==
  [name |-> n, inUse |-> inUse, dirty |-> FALSE, policies |-> [p \in Policies |-> none]]

-----------------------------------------------------------------------------

\* Whether refreshNetworkPolicies parses a policy again after a change of pods or namespaces.
Watches(npp, what) ==
  npp # none /\ (IF what = "pods" THEN npp.watchesPods ELSE npp.watchesNamespaces)

\* What the policy p of the namespace v is parsed to, with the pods P and namespaces K.
Parsed(v, p, K, P) ==
  parseNetworkPolicy(namespaces[v].policies[p].kind, v, namespaces[v].name, namespaces, K, P)

\* refreshNetworkPolicies: what may become of the namespace v.  Its policies are
\* visited in any order, up to the first whose flows change.
Refreshed(v, K, P, what) ==
  LET npns == namespaces[v]
      watching == {p \in Policies : Watches(npns.policies[p], what)}
      differ == {p \in watching : changed(npns.policies[p], Parsed(v, p, K, P))}
      Visited(S) == [npns EXCEPT !.policies = [p \in Policies |->
                                                 IF p \in S THEN Parsed(v, p, K, P) ELSE @[p]]]
      Marked(n) == IF n.inUse THEN dirty(n) ELSE n
  IN CASE npns = none -> {none}
       [] npns # none /\ differ = {} -> {Visited(watching)}
       [] OTHER -> {Marked(Visited(S \cup {p})) : S \in SUBSET (watching \ differ), p \in differ}

\* Not in the code: a policy that is not visited, or of which only selectedIPs change.
NotRefreshed(v, K, P, what) ==
  LET npps == namespaces[v].policies
      watching == {p \in Policies : Watches(npps[p], what)}
      differ == {p \in watching : changed(npps[p], Parsed(v, p, K, P))}
  IN /\ namespaces[v] # none
     /\ \/ Cardinality(differ) > 1
        \/ \E p \in watching \ differ : npps[p].selected # Parsed(v, p, K, P).selected

refreshNetworkPolicies(K, P, what) ==
  /\ namespaces' \in {f \in [VNIDs -> UNION {Refreshed(v, K, P, what) : v \in VNIDs}] :
                        \A v \in VNIDs : f[v] \in Refreshed(v, K, P, what)}
  /\ missed' = missed \cup
       {<<v, "parsed">> : v \in {w \in VNIDs : NotRefreshed(w, K, P, what)}}

-----------------------------------------------------------------------------
(***************************************************************************)
(* The handlers.  Those of Pods and Namespaces take np.lock once.          *)
(***************************************************************************)

\* handleAddOrUpdatePod and handleDeletePod
handlePod(x, label) ==
  /\ pods[x] # label
  /\ Spend("pods")
  /\ pods' = [pods EXCEPT ![x] = label]
  /\ refreshNetworkPolicies(kNamespaces, pods', "pods")
  /\ UNCHANGED <<netns, netnsEvents, ids, netnsHandler, api, policyEvents, policyHandler,
                 kNamespaces, table80, loaded, ensuring>>

\* handleAddOrUpdateNamespace, and handleDeleteNamespace (label is none), which may come
\* before or after the NetNamespace goes.
handleNamespace(n, label) ==
  /\ kNamespaces[n] # label
  /\ IF label = none THEN n \notin netns /\ UNCHANGED budget ELSE Spend("labels")
  /\ kNamespaces' = [kNamespaces EXCEPT ![n] = label]
  /\ refreshNetworkPolicies(kNamespaces', pods, "namespaces")
  /\ UNCHANGED <<netns, netnsEvents, ids, netnsHandler, api, policyEvents, policyHandler,
                 pods, table80, loaded, ensuring>>

\* handleAddOrUpdateNetNamespace and handleDeleteNetNamespace of the map; an event for a
\* namespace that WaitAndGetVNID has put there already is skipped.
setVNID ==
  /\ netnsHandler = none /\ netnsEvents # <<>>
  /\ LET e == Head(netnsEvents) IN
       /\ netnsHandler' = IF e[1] = "add" /\ e[2] \in ids THEN none ELSE e
       /\ ids' = IF e[1] = "add" THEN ids \cup {e[2]} ELSE ids \ {e[2]}
  /\ netnsEvents' = Tail(netnsEvents)
  /\ UNCHANGED <<netns, api, policyEvents, policyHandler, namespaces, kNamespaces, pods,
                 table80, loaded, ensuring, missed, budget>>

\* Not in the code: policies that select namespaces are not parsed again for a new one.
AddNetNamespace ==
  /\ netnsHandler # none /\ netnsHandler[1] = "add"
  /\ LET n == netnsHandler[2]
         v == VNIDOf[n]
     IN /\ namespaces' = IF namespaces[v] # none THEN namespaces
                         ELSE [namespaces EXCEPT ![v] = NewNamespace(n, FALSE)]
        /\ missed' = missed \cup
             {<<w, "parsed">> :
                w \in {u \in VNIDs : /\ kNamespaces[n] = "chosen" /\ namespaces[u] # none
                                     /\ \E p \in Policies :
                                          Watches(namespaces[u].policies[p], "namespaces")}}
  /\ netnsHandler' = none
  /\ UNCHANGED <<netns, netnsEvents, ids, api, policyEvents, policyHandler, kNamespaces, pods,
                 table80, loaded, ensuring, budget>>

\* The flows of a namespace in use are deleted at once, unless the transaction fails;
\* those of one that SyncVNIDRules has just marked stay.
DeleteNetNamespace ==
  /\ netnsHandler # none /\ netnsHandler[1] = "delete"
  /\ LET v == VNIDOf[netnsHandler[2]]
         npns == namespaces[v]
         inUse == npns # none /\ npns.inUse
     IN /\ namespaces' = [namespaces EXCEPT ![v] = none]
        /\ \/ /\ inUse
              /\ table80' = [table80 EXCEPT ![v] = none]
              /\ missed' = missed \ {<<v, "written">>}
              /\ UNCHANGED budget
           \/ /\ IF inUse THEN Spend("failures") ELSE UNCHANGED budget
              /\ missed' = IF inUse \/ (npns # none /\ npns.dirty)
                           THEN missed \cup {<<v, "written">>} ELSE missed
              /\ UNCHANGED table80
  /\ netnsHandler' = none
  /\ UNCHANGED <<netns, netnsEvents, ids, api, policyEvents, policyHandler, kNamespaces, pods,
                 loaded, ensuring>>

\* WaitAndGetVNID: the map, or the API and then the map.
WaitAndGetVNID(n) == ids' = IF n \in netns THEN ids \cup {n} ELSE ids

\* The handlers of NetworkPolicies: WaitAndGetVNID, without the lock ...
getPolicyVNID ==
  /\ policyHandler = none /\ policyEvents # <<>>
  /\ LET n == PolicyNamespace[Head(policyEvents)[1]] IN
       /\ WaitAndGetVNID(n)
       /\ policyHandler' = IF n \in ids' THEN Head(policyEvents) ELSE none
  /\ policyEvents' = Tail(policyEvents)
  /\ UNCHANGED <<netns, netnsEvents, netnsHandler, api, namespaces, kNamespaces, pods, table80,
                 loaded, ensuring, missed, budget>>

\* ... and then the update; the event is lost if AddNetNamespace was not called yet.
handleNetworkPolicy ==
  /\ policyHandler # none
  /\ LET p == policyHandler[1]
         kind == policyHandler[2]
         n == PolicyNamespace[p]
         v == VNIDOf[n]
         npns == namespaces[v]
         npp == IF kind = none THEN none
                ELSE parseNetworkPolicy(kind, v, n, namespaces, kNamespaces, pods)
         sync == npns.inUse /\ (kind = none \/ changed(npns.policies[p], npp))
         new == [npns EXCEPT !.policies[p] = npp]
     IN IF npns = none
        THEN /\ missed' = missed \cup {<<v, "parsed">>}
             /\ UNCHANGED namespaces
        ELSE /\ namespaces' = [namespaces EXCEPT ![v] = IF sync THEN dirty(new) ELSE new]
             /\ missed' = IF /\ kind # none /\ npns.policies[p] # none
                             /\ ~changed(npns.policies[p], npp)
                             /\ npns.policies[p].selected # npp.selected
                          THEN missed \cup {<<v, "parsed">>} ELSE missed
  /\ policyHandler' = none
  /\ UNCHANGED <<netns, netnsEvents, ids, netnsHandler, api, policyEvents, kNamespaces, pods,
                 table80, loaded, ensuring, budget>>

-----------------------------------------------------------------------------
\* The pod worker: GetVNID and the flows of a pod, then EnsureVNIDRules.
attach(n) ==
  /\ ensuring = none
  /\ n \in netns
  /\ Spend("attaches")
  /\ WaitAndGetVNID(n)
  /\ loaded' = loaded \cup {VNIDOf[n]}
  /\ ensuring' = VNIDOf[n]
  /\ UNCHANGED <<netns, netnsEvents, netnsHandler, api, policyEvents, policyHandler, namespaces,
                 kNamespaces, pods, table80, missed>>

\* Does nothing for a namespace that AddNetNamespace was not called for.
EnsureVNIDRules ==
  /\ ensuring # none
  /\ LET npns == namespaces[ensuring] IN
       /\ namespaces' = IF npns = none \/ npns.inUse THEN namespaces
                        ELSE [namespaces EXCEPT ![ensuring] = dirty([npns EXCEPT !.inUse = TRUE])]
       /\ missed' = IF npns = none THEN missed \cup {<<ensuring, "parsed">>} ELSE missed
  /\ ensuring' = none
  /\ UNCHANGED <<netns, netnsEvents, ids, netnsHandler, api, policyEvents, policyHandler,
                 kNamespaces, pods, table80, loaded, budget>>

\* The last pod of v goes.
detach(v) ==
  /\ v \in loaded /\ ensuring # v
  /\ Spend("detaches")
  /\ loaded' = loaded \ {v}
  /\ UNCHANGED <<netns, netnsEvents, ids, netnsHandler, api, policyEvents, policyHandler,
                 namespaces, kNamespaces, pods, table80, ensuring, missed>>

FindUnusedVNIDs == {v \in VNIDs : table80[v] # none} \ loaded

\* The flows are written at once, and the namespace stays in use.
SyncVNIDRules_Forgets ==
  /\ Spend("syncs")
  /\ table80' = [v \in VNIDs |-> IF v \in FindUnusedVNIDs THEN none ELSE table80[v]]
  /\ UNCHANGED <<netns, netnsEvents, ids, netnsHandler, api, policyEvents, policyHandler,
                 namespaces, kNamespaces, pods, loaded, ensuring, missed>>

SyncVNIDRules ==
  /\ Spend("syncs")
  /\ namespaces' = [v \in VNIDs |->
                      IF v \in FindUnusedVNIDs /\ namespaces[v] # none
                      THEN dirty([namespaces[v] EXCEPT !.inUse = FALSE]) ELSE namespaces[v]]
  /\ UNCHANGED <<netns, netnsEvents, ids, netnsHandler, api, policyEvents, policyHandler,
                 kNamespaces, pods, table80, loaded, ensuring, missed>>

\* A transaction for each dirty namespace.  One that fails or is refused is logged; the
\* flows are as they were, and the namespace is not dirty any more.
syncFlows ==
  LET due == {v \in VNIDs : namespaces[v] # none /\ namespaces[v].dirty}
      refused == {v \in due : HasEmptyField(Flows(namespaces[v]))}
  IN /\ due # {}
     /\ \E failed \in SUBSET due :
          /\ IF failed \subseteq refused THEN UNCHANGED budget ELSE Spend("failures")
          /\ table80' = [v \in VNIDs |-> IF v \in due \ failed
                                         THEN Installed(Flows(namespaces[v])) ELSE table80[v]]
          /\ missed' = {m \in missed : m[2] = "written" => m[1] \notin due}
                         \cup {<<v, "written">> : v \in failed}
     /\ namespaces' = [v \in VNIDs |-> IF namespaces[v] = none THEN none
                                       ELSE [namespaces[v] EXCEPT !.dirty = FALSE]]
     /\ UNCHANGED <<netns, netnsEvents, ids, netnsHandler, api, policyEvents, policyHandler,
                    kNamespaces, pods, loaded, ensuring>>

-----------------------------------------------------------------------------
\* A namespace is deleted when its pods and policies are gone.  The master does not soon
\* give a NetID again: the node has handled the deletion by then.
changeNetNamespace(n) ==
  /\ Spend("changes")
  /\ \/ /\ n \notin netns /\ netnsHandler = none
        /\ ~Contains(netnsEvents, <<"delete", n>>)
        /\ netns' = netns \cup {n}
        /\ netnsEvents' = Append(netnsEvents, <<"add", n>>)
     \/ /\ n \in netns /\ VNIDOf[n] \notin loaded
        /\ \A p \in Policies : PolicyNamespace[p] = n => api[p] = none
        /\ netns' = netns \ {n}
        /\ netnsEvents' = Append(netnsEvents, <<"delete", n>>)
  /\ UNCHANGED <<ids, netnsHandler, api, policyEvents, policyHandler, namespaces, kNamespaces,
                 pods, table80, loaded, ensuring, missed>>

changePolicy(p, kind) ==
  /\ api[p] # kind
  /\ kind # none => PolicyNamespace[p] \in netns
  /\ Spend("policies")
  /\ api' = [api EXCEPT ![p] = kind]
  /\ policyEvents' = Append(policyEvents, <<p, kind>>)
  /\ UNCHANGED <<netns, netnsEvents, ids, netnsHandler, policyHandler, namespaces, kNamespaces,
                 pods, table80, loaded, ensuring, missed>>

Environment ==
  \/ \E x \in PodIPs, label \in budget.podLabels : handlePod(x, label)
  \/ \E n \in Names, label \in {"plain", "chosen", none} : handleNamespace(n, label)
  \/ \E n \in Names : attach(n) \/ changeNetNamespace(n)
  \/ \E v \in VNIDs : detach(v)
  \/ \E p \in Policies, kind \in budget.kinds : changePolicy(p, kind)

\* After initNamespaces, with no policies and nothing in use.
Init ==
  /\ budget \in Scenarios
  /\ netns = budget.netns
  /\ netnsEvents = <<>>
  /\ ids = netns
  /\ netnsHandler = none
  /\ api = [p \in Policies |-> none]
  /\ policyEvents = <<>>
  /\ policyHandler = none
  /\ namespaces = [v \in VNIDs |-> IF \E n \in netns : VNIDOf[n] = v
                                   THEN NewNamespace(CHOOSE n \in netns : VNIDOf[n] = v, FALSE)
                                   ELSE none]
  /\ kNamespaces = [n \in Names |-> IF n \in netns THEN "plain" ELSE none]
  /\ pods = [x \in PodIPs |-> none]
  /\ table80 = [v \in VNIDs |-> none]
  /\ loaded = {}
  /\ ensuring = none
  /\ missed = {}

Next ==
  \/ setVNID \/ AddNetNamespace \/ DeleteNetNamespace
  \/ getPolicyVNID \/ handleNetworkPolicy
  \/ EnsureVNIDRules \/ SyncVNIDRules \/ syncFlows
  \/ Environment

Spec == Init /\ [][Next]_vars

-----------------------------------------------------------------------------
Quiet ==
  /\ netnsEvents = <<>> /\ netnsHandler = none /\ policyEvents = <<>> /\ policyHandler = none
  /\ ensuring = none
  /\ \A v \in VNIDs : namespaces[v] # none => ~namespaces[v].dirty
  /\ \A n \in Names : kNamespaces[n] # none <=> n \in netns

Missed(v) == {<<v, "parsed">>, <<v, "written">>} \cap missed # {}


\* The dirty flag and SyncVNIDRules against EnsureVNIDRules: a VNID that pods load is in
\* use, or is about to be, and its flows are those of the parsed policies, or are about to
\* be written; no flows stay for a namespace that is gone.  Not covered: as above.
InUseIsWritten ==
  /\ \A v \in {w \in loaded : ~Missed(w)} :
       v # ensuring /\ namespaces[v] # none =>
         /\ namespaces[v].inUse
         /\ namespaces[v].dirty \/ table80[v] = Installed(Flows(namespaces[v]))
  /\ \A v \in {w \in VNIDs : ~Missed(w)} : namespaces[v] = none => table80[v] = none
=============================================================================
