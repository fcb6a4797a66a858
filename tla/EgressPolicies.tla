--------------------------- MODULE EgressPolicies ---------------------------
(***************************************************************************)
(* EgressNetworkPolicies on a node: the handlers that keep egressPolicies  *)
(* by VNID and write table 101, the move of a namespace to another VNID,   *)
(* and EgressDNS, which resolves the names in policies again and again.    *)
(*                                                                         *)
(* Four goroutines: the handler of EgressNetworkPolicies, the handler of   *)
(* NetNamespaces, EgressDNS.Sync, and syncEgressDNSPolicyRules, which      *)
(* receives on Updates.  A policy is one rule, for a DNS name or a CIDR.   *)
(* Time is whether an entry's nextQueryTime has passed.                    *)
(***************************************************************************)
EXTENDS Naturals, FiniteSets, Sequences, SequencesExt

CONSTANTS
  Namespaces, VNIDs, Policies, Addresses, none,
  NamespaceOf,  \* NamespaceOf[p]: the namespace of the policy with UID p
  Scenarios

VARIABLES
  api,      \* api[p]: "dns", "cidr", "empty" (no rules), or none
  events,   \* EgressNetworkPolicy events: <<p, spec or none>>
  ids,      \* the VNID of each namespace, or none
  handler,  \* the handler of policies, between GetVNID and the lock
  mover,    \* the handler of NetNamespaces, between setVNID and the move
  egressPolicies, \* egressPolicies[v]: sequence of <<p, spec>>
  pdMap,    \* pdMap[p]: the addresses of p's name, or none
  due,      \* the policies whose nextQueryTime has passed, the earliest first
  answer,   \* what the name resolves to
  sync,     \* EgressDNS.Sync
  receiver, \* syncEgressDNSPolicyRules
  rules,    \* rules[v]: what table 101 says for v, or none
  missed,   \* not in the code: <<"vnid", v>> and <<"namespace", n>> whose rules may be
            \* out of date, and <<"written", v>> when the last transaction for v failed
  budget

vars == <<api, events, ids, handler, mover, egressPolicies, pdMap, due, answer, sync, receiver,
          rules, missed, budget>>

Spend(field) == budget[field] > 0 /\ budget' = [budget EXCEPT ![field] = @ - 1]

-----------------------------------------------------------------------------
GetNamespaces(v) == {n \in Namespaces : ids[n] = v}

DropAll == [policy |-> none, to |-> {}]

\* The flows of a policy: its rule selects a CIDR, or the addresses of its name, if that
\* is in EgressDNS (GetIPs).
RuleOf(p, spec, m) ==
  [policy |-> p, to |-> IF spec = "cidr" THEN {"cidr"}
                        ELSE IF m[p] = none THEN {} ELSE m[p]]

\* UpdateEgressNetworkPolicyRules for the policies s of v.
UpdateRules(s, v, namespaces, m, old) ==
  CASE s = <<>> -> none
    [] s # <<>> /\ v = 0 -> old
    [] s # <<>> /\ v # 0 /\ (Cardinality(namespaces) > 1 \/ Len(s) > 1) -> DropAll
    [] OTHER -> RuleOf(s[1][1], s[1][2], m)

\* updateEgressNetworkPolicyRules for the VNIDs in V, with new policies and DNS entries.
\* When a transaction fails, its error is logged and the flows are as they were.
updateEgressNetworkPolicyRules(V, policies, m, notes, dnsErrors) ==
  \E failed \in SUBSET V :
    LET failures == IF failed = {} THEN 0 ELSE 1
    IN /\ failures <= budget.failures
       /\ budget' = [budget EXCEPT !.failures = @ - failures, !.dnsErrors = @ - dnsErrors]
       /\ rules' = [v \in VNIDs |->
                      IF v \in V \ failed
                      THEN UpdateRules(policies[v], v, {n \in Namespaces : ids'[n] = v}, m, rules[v])
                      ELSE rules[v]]
       /\ missed' = (notes \ ({"written"} \X V)) \cup ({"written"} \X failed)

OutOfDate(N, V) == ({"namespace"} \X N) \cup ({"vnid"} \X V)

Without(s, p) ==
  LET i == SelectInSeq(s, LAMBDA x : x[1] = p) IN IF i = 0 THEN s ELSE RemoveAt(s, i)

-----------------------------------------------------------------------------
\* signalAdded reaches Sync only if that is in its select.
signalAdded == sync' = IF sync.step = "waiting" THEN [step |-> "next"] ELSE sync

\* egressDNS.Delete, and egressDNS.Add of a policy with a name.  A name that cannot be
\* resolved is dropped, and a policy without names is not kept.
DeleteAndAddDNS(p, spec) ==
  /\ due' = Remove(due, p)
  /\ \/ /\ spec # "dns"
        /\ pdMap' = [pdMap EXCEPT ![p] = none]
        /\ UNCHANGED sync
     \/ /\ spec = "dns"
        /\ pdMap' = [pdMap EXCEPT ![p] = {answer}]
        /\ signalAdded
     \/ /\ spec = "dns" /\ budget.dnsErrors > 0
        /\ pdMap' = [pdMap EXCEPT ![p] = none]
        /\ UNCHANGED sync

\* handleEgressNetworkPolicy: GetVNID first; without a VNID the event is dropped, and
\* what it deletes stays (missed) ...
GetVNID ==
  /\ handler = none /\ events # <<>>
  /\ LET e == Head(events)
         v == ids[NamespaceOf[e[1]]]
     IN /\ handler' = IF v = none THEN none
                      ELSE [policy |-> e[1], spec |-> e[2], vnid |-> v]
        /\ missed' = missed \cup (IF v = none THEN OutOfDate({NamespaceOf[e[1]]}, {}) ELSE {})
  /\ events' = Tail(events)
  /\ UNCHANGED <<api, ids, mover, egressPolicies, pdMap, due, answer, sync, receiver, rules,
                 budget>>

\* A policy handled while its namespace moves can end up under the old VNID, or under
\* the new one twice.
overtaken ==
  LET n == NamespaceOf[handler.policy]
      v == handler.vnid
  IN IF mover # none /\ mover.n = n
     THEN IF v = mover.old THEN {} ELSE OutOfDate({n}, {mover.old, mover.new, v})
     ELSE IF v = ids[n] THEN {} ELSE OutOfDate({n}, {v, ids[n]})

\* The old version of a policy stays in the list.
handleEgressNetworkPolicy_Appends ==
  /\ handler # none
  /\ UNCHANGED ids
  /\ LET p == handler.policy
         v == handler.vnid
     IN /\ DeleteAndAddDNS(p, handler.spec)
        /\ egressPolicies' = [egressPolicies EXCEPT ![v] =
             IF handler.spec \in {none, "empty"} THEN Without(@, p)
             ELSE Append(@, <<p, handler.spec>>)]
        /\ updateEgressNetworkPolicyRules({v}, egressPolicies', pdMap', missed \cup overtaken,
             IF handler.spec = "dns" /\ pdMap'[p] = none THEN 1 ELSE 0)
  /\ handler' = none
  /\ UNCHANGED <<api, events, mover, answer, receiver>>

\* ... and then the rest with egressPoliciesLock.
handleEgressNetworkPolicy ==
  /\ handler # none
  /\ UNCHANGED ids
  /\ LET p == handler.policy
         v == handler.vnid
         kept == Without(egressPolicies[v], p)
     IN /\ DeleteAndAddDNS(p, handler.spec)
        /\ egressPolicies' = [egressPolicies EXCEPT ![v] =
             IF handler.spec \in {none, "empty"} THEN kept
             ELSE Append(kept, <<p, handler.spec>>)]
        /\ updateEgressNetworkPolicyRules({v}, egressPolicies', pdMap', missed \cup overtaken,
             IF handler.spec = "dns" /\ pdMap'[p] = none THEN 1 ELSE 0)
  /\ handler' = none
  /\ UNCHANGED <<api, events, mover, answer, receiver>>

-----------------------------------------------------------------------------
\* The handler of a NetNamespace sets the VNID ...
setVNID(n, v) ==
  /\ mover = none /\ ids[n] # v
  /\ v = none => \A p \in Policies : NamespaceOf[p] = n => api[p] = none
  /\ Spend("moves")
  /\ mover' = [n |-> n, old |-> IF ids[n] = none THEN 0 ELSE ids[n],
               new |-> IF v = none THEN 0 ELSE v]
  /\ ids' = [ids EXCEPT ![n] = v]
  /\ UNCHANGED <<api, events, handler, egressPolicies, pdMap, due, answer, sync, receiver,
                 rules, missed>>

\* ... and later moves the first policy of the namespace, if there is one.  Not in the
\* code: missed gets the VNIDs if the namespace has no policy and they do, and the
\* namespace if it has several.
UpdateEgressNetworkPolicyVNID ==
  /\ mover # none
  /\ UNCHANGED ids
  /\ LET mine == {i \in DOMAIN egressPolicies[mover.old] :
                    NamespaceOf[egressPolicies[mover.old][i][1]] = mover.n}
         i == CHOOSE j \in mine : \A k \in mine : j <= k
         notes == missed \cup
           (CASE Cardinality(mine) = 1 -> {}
              [] mine = {} ->
                   OutOfDate({}, {v \in {mover.old, mover.new} : egressPolicies[v] # <<>>})
              [] OTHER -> OutOfDate({mover.n}, {mover.old, mover.new}))
     IN IF mine = {}
        THEN missed' = notes /\ UNCHANGED <<egressPolicies, rules, budget>>
        ELSE /\ egressPolicies' =
                  [egressPolicies EXCEPT
                     ![mover.old] = RemoveAt(@, i),
                     ![mover.new] = Append(@, egressPolicies[mover.old][i])]
             /\ updateEgressNetworkPolicyRules({mover.old, mover.new}, egressPolicies', pdMap,
                                               notes, 0)
  /\ mover' = none
  /\ UNCHANGED <<api, events, handler, pdMap, due, answer, sync, receiver>>

-----------------------------------------------------------------------------
(***************************************************************************)
(* EgressDNS.Sync: the entry whose query is due first is updated, and a    *)
(* change sent on Updates; if none is due it chooses how long to wait, for *)
(* the first or, if there is none, for half an hour, and then waits that   *)
(* long, or for a signal.                                                  *)
(***************************************************************************)

\* GetMinQueryTime and Update.  A failed query keeps the addresses.
Update ==
  /\ due # <<>>
  /\ due' = Tail(due)
  /\ \/ /\ pdMap' = [pdMap EXCEPT ![Head(due)] = {answer}]
        /\ sync' = IF pdMap[Head(due)] = {answer} THEN sync
                   ELSE [step |-> "send", policy |-> Head(due)]
        /\ UNCHANGED budget
     \/ /\ Spend("dnsErrors")
        /\ UNCHANGED <<pdMap, sync>>

\* Without an entry there is nothing to wait for but the signal.
timer_Signal == sync.step = "waiting" /\ sync.timed

\* time.After fires, in the select of Sync.
timer == sync.step = "waiting"

Sync ==
  \/ /\ sync.step = "next"
     /\ Update
     /\ UNCHANGED receiver
  \/ /\ sync.step = "next" /\ due = <<>>
     /\ sync' = [step |-> "chosen", timed |-> \E p \in Policies : pdMap[p] # none]
     /\ UNCHANGED <<pdMap, due, receiver, budget>>
  \/ /\ sync.step = "chosen"
     /\ sync' = [sync EXCEPT !.step = "waiting"]
     /\ UNCHANGED <<pdMap, due, receiver, budget>>
  \/ /\ timer
     /\ sync' = [step |-> "next"]
     /\ UNCHANGED <<pdMap, due, receiver, budget>>
  \/ /\ sync.step = "send" /\ receiver = none
     /\ receiver' = [policy |-> sync.policy, vnid |-> none]
     /\ sync' = [step |-> "next"]
     /\ UNCHANGED <<pdMap, due, budget>>

SyncSteps ==
  /\ Sync
  /\ UNCHANGED <<api, events, ids, handler, mover, egressPolicies, answer, rules, missed>>

\* syncEgressDNSPolicyRules: GetVNID, then the rules of that VNID.
syncEgressDNSPolicyRules ==
  /\ receiver # none
  /\ LET v == ids[NamespaceOf[receiver.policy]] IN
       \/ /\ receiver.vnid = none
          /\ receiver' = IF v = none THEN none ELSE [receiver EXCEPT !.vnid = v]
          /\ UNCHANGED <<ids, rules, missed, budget>>
       \/ /\ receiver.vnid # none
          /\ UNCHANGED ids
          /\ updateEgressNetworkPolicyRules({receiver.vnid}, egressPolicies, pdMap, missed, 0)
          /\ receiver' = none
  /\ UNCHANGED <<api, events, handler, mover, egressPolicies, pdMap, due, answer, sync>>

-----------------------------------------------------------------------------
\* Policies come and go, names change their address, and time passes.
changePolicy(p, spec) ==
  /\ api[p] # spec
  /\ spec # none => ids[NamespaceOf[p]] # none
  /\ Spend("changes")
  /\ api' = [api EXCEPT ![p] = spec]
  /\ events' = Append(events, <<p, spec>>)
  /\ UNCHANGED <<ids, handler, mover, egressPolicies, pdMap, due, answer, sync, receiver, rules,
                 missed>>

nameMoves(a) ==
  /\ answer # a
  /\ Spend("answers")
  /\ answer' = a
  /\ UNCHANGED <<api, events, ids, handler, mover, egressPolicies, pdMap, due, sync, receiver,
                 rules, missed>>

timePasses(p) ==
  /\ pdMap[p] # none /\ ~Contains(due, p)
  /\ due' = Append(due, p)
  /\ UNCHANGED <<api, events, ids, handler, mover, egressPolicies, pdMap, answer, sync, receiver,
                 rules, missed, budget>>

Environment ==
  \/ \E p \in Policies, spec \in budget.specs : changePolicy(p, spec)
  \/ \E n \in Namespaces, v \in budget.vnids : setVNID(n, v)
  \/ \E a \in Addresses : nameMoves(a)
  \/ \E p \in Policies : timePasses(p)

\* SetupEgressNetworkPolicy with nothing in the API.
Init ==
  /\ budget \in Scenarios
  /\ api = [p \in Policies |-> none]
  /\ events = <<>>
  /\ ids = budget.ids
  /\ handler = none
  /\ mover = none
  /\ egressPolicies = [v \in VNIDs |-> <<>>]
  /\ pdMap = [p \in Policies |-> none]
  /\ due = <<>>
  /\ answer \in Addresses
  /\ sync = [step |-> "next"]
  /\ receiver = none
  /\ rules = [v \in VNIDs |-> none]
  /\ missed = {}

Next ==
  \/ GetVNID \/ handleEgressNetworkPolicy \/ UpdateEgressNetworkPolicyVNID
  \/ SyncSteps \/ syncEgressDNSPolicyRules
  \/ Environment

\* Weak fairness of the goroutines, and of time.
HandlerSteps == handler' # handler \/ Len(events') < Len(events)
SyncMoves == sync' # sync \/ (Len(due') < Len(due) /\ sync.step = "next")
Goroutines == {"handler", "mover", "sync", "receiver"} \cup Policies

CanGoOn(g) ==
  CASE g = "handler" -> handler # none \/ events # <<>>
    [] g = "mover" -> mover # none
    [] g = "sync" -> \/ sync.step \in {"next", "chosen"} \/ timer
                     \/ sync.step = "send" /\ receiver = none
    [] g = "receiver" -> receiver # none
    [] OTHER -> pdMap[g] # none /\ ~Contains(due, g)

GoesOn(g) ==
  CASE g = "handler" -> HandlerSteps
    [] g = "mover" -> mover' = none
    [] g = "sync" -> SyncMoves
    [] g = "receiver" -> receiver' # receiver
    [] OTHER -> ~Contains(due, g) /\ Contains(due', g)

Fairness == \A g \in Goroutines : []<>~CanGoOn(g) \/ []<><<GoesOn(g)>>_vars

Spec == Init /\ [][Next]_vars /\ Fairness

-----------------------------------------------------------------------------
\* The VNIDs that are not in missed, nor their namespaces.
Covered ==
  {v \in VNIDs \ {0} : /\ {<<"vnid", v>>, <<"written", v>>} \cap missed = {}
                        /\ \A n \in GetNamespaces(v) : <<"namespace", n>> \notin missed}

Quiet == events = <<>> /\ handler = none /\ mover = none /\ receiver = none /\ sync.step # "send"

\* The policies that are to apply to v.
PoliciesOf(v) ==
  {p \in Policies : api[p] \in {"dns", "cidr"} /\ ids[NamespaceOf[p]] = v}

\* When nothing is under way, table 101 says for each VNID in use what the policies in
\* the API and the addresses last resolved say: nothing without a policy, drop
\* for several namespaces or policies, otherwise the rule of the policy.
\* Not covered (missed): a policy handled while its namespace moves; a namespace with
\* several policies that moves; a VNID that another namespace without
\* a policy joins or leaves, for which the rules are not written again; a namespace
\* made anew after the deletion of its policy was dropped, which has that policy again;
\* and, until its rules are written again, a VNID whose transaction failed.
EgressRulesCurrent ==
  Quiet =>
    \A v \in Covered :
      LET P == PoliciesOf(v) IN
      GetNamespaces(v) # {} =>
        CASE P = {} -> rules[v] = none
          [] Cardinality(P) = 1 /\ Cardinality(GetNamespaces(v)) = 1 ->
               \E p \in P : rules[v] = RuleOf(p, api[p], pdMap)
          [] OTHER -> rules[v] = DropAll

NamesCurrent ==
  \A v \in Covered :
    GetNamespaces(v) # {} /\ rules[v] # none /\ rules[v].to \notin {{"cidr"}, {}}
      => rules[v].to = {answer}

\* A name's new address reaches the flows, whatever signals are lost: once the cluster
\* is at rest, the rule of a policy whose name was resolved when it was added has the
\* name's address.  Not covered: as above.
NamesFollowed == <>[]NamesCurrent
=============================================================================
