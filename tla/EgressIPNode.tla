----------------------------- MODULE EgressIPNode -----------------------------
(***************************************************************************)
(* What a node does with its EgressIPTracker.  The egressIPWatcher turns   *)
(* the tracker's calls into addresses, iptables rules and flows of OVS     *)
(* table 100 when they are about this node, and into nodes to monitor when *)
(* they are about another one.  The egressVXLANMonitor compares the packet *)
(* counts of the nodes it monitors and reports through an unbuffered       *)
(* channel, and watchVXLAN takes the reports to the tracker.               *)
(*                                                                         *)
(* A method of the tracker holds the tracker's lock while it makes its     *)
(* calls, and AddNode and RemoveNode take the monitor's lock, which a poll *)
(* holds from beginning to end, its sends and its pauses included.         *)
(***************************************************************************)
EXTENDS EgressIPTracker

CONSTANTS
  localIP,        \* the address of this node
  localNet,       \* the egress IPs in the network of its egress interface
  masqueradeBit,  \* number of the iptables mark bit that kube-proxy uses
  maxRetries,
  Scenarios       \* what is delivered first and may be later, and how many faults

VARIABLES
  calls,          \* calls that the running method of the tracker has still to make
  iptablesMark,   \* iptablesMark[ip] of the egressIPWatcher, or none
  addresses,      \* egress IPs on the egress interface
  egressIPs,      \* NodeIPTables.egressIPs: egressIPs[ip] is a mark or none
  chains,         \* the rules of OPENSHIFT-MASQUERADE and OPENSHIFT-FIREWALL-ALLOW
  table100,       \* table100[v]: where the flows of v in table 100 lead
  monitorNodes,   \* monitorNodes[a]: the egressVXLANNode of node address a, or none
  traffic,        \* how its packet counts compare with those it has recorded
  poller,         \* the poll that holds the monitor's lock
  receiver,       \* the report that watchVXLAN has received, or none
  up,             \* addresses of the nodes that answer
  todo,           \* what the informers deliver first
  scenario, budget,
  missed,         \* not in the code: what went wrong in a way the properties exclude
  reported        \* not in the code: nodes that the current poll has reported

watcher == <<iptablesMark, addresses, egressIPs, chains, table100>>
monitor == <<monitorNodes, traffic, poller, receiver, reported>>
nodeVars == <<vars, calls, watcher, monitor, up, todo, scenario, budget, missed>>

Idle == [polling |-> FALSE, retry |-> FALSE, reports |-> {}]

Spend(field) == budget[field] > 0 /\ budget' = [budget EXCEPT ![field] = @ - 1]

-----------------------------------------------------------------------------
(***************************************************************************)
(* NodeIPTables: a chain is the sequence of its rules, which the kernel    *)
(* tries from the first, each a target and the mark it matches.  Base      *)
(* stands for the rules that the chain has whatever the egress IPs are.    *)
(***************************************************************************)
Base == <<"base", <<>>>>
Chains == {"OPENSHIFT-MASQUERADE", "OPENSHIFT-FIREWALL-ALLOW"}

ensureRule(chain, rule, prepend) ==
  IF Contains(chain, rule) THEN chain
  ELSE IF prepend THEN <<rule>> \o chain ELSE Append(chain, rule)

ensureEgressIPRules(cs, ip, mark) ==
  [c \in Chains |-> ensureRule(cs[c], <<ip, mark>>, c = "OPENSHIFT-MASQUERADE")]

\* addChainRules and what follows: a chain that had not all its rules is flushed.
ensureChain(chain) == IF Contains(chain, Base) THEN chain ELSE <<Base>>

syncIPTableRules(cs) ==
  FoldLeft(LAMBDA acc, ip : ensureEgressIPRules(acc, ip, egressIPs[ip]),
           [c \in Chains |-> ensureChain(cs[c])],
           SetToSeq({ip \in EgressIPs : egressIPs[ip] # none}))

deleteEgressIPRules(cs, ip, mark) ==
  [c \in Chains |-> SelectSeq(cs[c], LAMBDA rule : rule # <<ip, mark>>)]

\* A mark is 32 bits wide: its top byte and the other 24, which hold a VNID.
getMarkForVNID_Cleared(vnid) ==
  LET bit == 2 ^ masqueradeBit
  IN  IF vnid = 0 THEN <<255, 0>>
      ELSE <<0, IF (vnid \div bit) % 2 = 1 THEN vnid - bit ELSE vnid>>

getMarkForVNID(vnid) ==
  LET bit == 2 ^ masqueradeBit
  IN  CASE vnid = 0                 -> <<255, 0>>
        [] (vnid \div bit) % 2 = 1  -> <<1, vnid - bit>>
        [] OTHER                    -> <<0, vnid>>

-----------------------------------------------------------------------------
(***************************************************************************)
(* The calls that take the watcher from what tracker value t has told it   *)
(* to what s has.  The changed egress IPs come in any order, an IP that    *)
(* moves is released before it is claimed, and the namespaces come last.   *)
(***************************************************************************)
Calls(t, s) ==
  LET moved == {ip \in EgressIPs : t.claims[ip] # s.claims[ip]}
  IN  {<<"release", ip, t.claims[ip]>> : ip \in {i \in moved : t.claims[i] # none}}
        \cup {<<"claim", ip, s.claims[ip]>> : ip \in {i \in moved : s.claims[i] # none}}
        \cup {<<"route", v, s.routes[v]>> : v \in {w \in VNIDs : t.routes[w] # s.routes[w]}}

Remote(call) == call[1] # "route" /\ call[3].node # localIP

\* The calls that may be made now, but for the monitor's lock.
Ready ==
  {call \in calls :
     CASE call[1] = "release" -> TRUE
       [] call[1] = "claim"   -> \A other \in calls : other[1] = "release" => other[2] # call[2]
       [] OTHER               -> \A other \in calls : other[1] = "route"}

\* ClaimEgressIP here.  When the address cannot be added, or the rules cannot, the
\* error is logged and the mark stays.
ClaimEgressIP(ip, vnid) ==
  LET mark == getMarkForVNID(vnid)
  IN  /\ iptablesMark' = [iptablesMark EXCEPT ![ip] = mark]
      /\ \/ /\ ip # localIP /\ ip \in localNet
            /\ addresses' = addresses \cup {ip}
            /\ \/ /\ chains' = ensureEgressIPRules(chains, ip, mark)
                  /\ egressIPs' = [egressIPs EXCEPT ![ip] = mark]
                  /\ UNCHANGED <<budget, missed>>
               \/ /\ Spend("errors") /\ missed' = missed \cup {<<"failed", ip>>}
                  /\ UNCHANGED <<chains, egressIPs>>
         \/ /\ \/ (ip = localIP \/ ip \notin localNet) /\ UNCHANGED budget
               \/ ip \in localNet /\ Spend("errors")
            /\ missed' = missed \cup {<<"failed", ip>>}
            /\ UNCHANGED <<addresses, chains, egressIPs>>
      /\ UNCHANGED table100

\* ReleaseEgressIP here: the rules stay when the address cannot be deleted.
ReleaseEgressIP(ip) ==
  /\ iptablesMark' = [iptablesMark EXCEPT ![ip] = none]
  /\ \/ /\ addresses' = addresses \ {ip}
        /\ egressIPs' = [egressIPs EXCEPT ![ip] = none]
        /\ \/ /\ chains' = deleteEgressIPRules(chains, ip, iptablesMark[ip])
              /\ UNCHANGED <<budget, missed>>
           \/ /\ Spend("errors") /\ missed' = missed \cup {<<"failed", ip>>}
              /\ UNCHANGED chains
     \/ /\ Spend("errors") /\ missed' = missed \cup {<<"failed", ip>>}
        /\ UNCHANGED <<addresses, egressIPs, chains>>
  /\ UNCHANGED table100

\* SetNamespaceEgressNormal, ...Dropped and ...ViaEgressIP: the new flow counts
\* from zero, so the packets sent to a node may seem to be no more than recorded.
\* When the transaction fails the error is logged and the old flow stays, until the
\* next call for the VNID.
setNamespaceEgress(v, route) ==
  \/ /\ table100' = [table100 EXCEPT ![v] =
                       [kind |-> route.kind, node |-> route.node,
                        mark |-> IF route.node = localIP THEN iptablesMark[route.ip] ELSE none]]
     /\ traffic' \in {traffic} \cup
          (IF table100[v].node \in {none, localIP} THEN {}
           ELSE {[traffic EXCEPT ![table100[v].node].out = FALSE]})
     /\ missed' = missed \ {<<"route", v>>}
     /\ UNCHANGED budget
  \/ /\ Spend("errors") /\ missed' = missed \cup {<<"route", v>>}
     /\ UNCHANGED <<table100, traffic>>

AddNode(a) ==
  IF monitorNodes[a] # none THEN UNCHANGED <<monitorNodes, traffic, missed>>
  ELSE LET u == tracker.nodesByNodeIP[a]
       IN  /\ monitorNodes' = [monitorNodes EXCEPT ![a] = [offline |-> FALSE, retries |-> 0]]
           /\ \E in \in {"same", "more"}, out \in BOOLEAN :
                traffic' = [traffic EXCEPT ![a] = [in |-> in, out |-> out]]
           /\ missed' = (missed \ {<<"unwatched", a>>}) \cup
                IF \/ u \in UIDs /\ tracker.nodes[u].offline
                   \/ receiver # none /\ receiver[1] = a
                THEN {<<"offline", a>>} ELSE {}

RemoveNode_IfIdle(a) ==
  /\ monitorNodes' = IF monitorNodes[a] # none /\ traffic[a].out THEN monitorNodes
                     ELSE [monitorNodes EXCEPT ![a] = none]
  /\ missed' = missed \cup
       IF \E ip \in EgressIPs : tracker.claims[ip] # none /\ tracker.claims[ip].node = a
       THEN {<<"unwatched", a>>} ELSE {}

\* The node is no longer monitored, whatever other egress IPs it holds.
RemoveNode(a) ==
  /\ monitorNodes' = [monitorNodes EXCEPT ![a] = none]
  /\ missed' = missed \cup
       IF \E ip \in EgressIPs : tracker.claims[ip] # none /\ tracker.claims[ip].node = a
       THEN {<<"unwatched", a>>} ELSE {}

call ==
  \E c \in Ready :
    /\ Remote(c) => ~poller.polling
    /\ calls' = calls \ {c}
    /\ CASE c[1] = "route" ->
              /\ setNamespaceEgress(c[2], c[3])
              /\ UNCHANGED <<iptablesMark, addresses, egressIPs, chains, monitorNodes>>
         [] Remote(c) ->
              /\ IF c[1] = "claim" THEN AddNode(c[3].node)
                                   ELSE RemoveNode(c[3].node) /\ UNCHANGED traffic
              /\ UNCHANGED <<watcher, budget>>
         [] OTHER ->
              /\ IF c[1] = "claim" THEN ClaimEgressIP(c[2], c[3].vnid) ELSE ReleaseEgressIP(c[2])
              /\ UNCHANGED <<monitorNodes, traffic>>
    /\ UNCHANGED <<vars, poller, receiver, reported, up, todo, scenario>>

-----------------------------------------------------------------------------
(***************************************************************************)
(* The egressVXLANMonitor.  traffic[a].in says whether the packets that    *)
(* came from a are fewer than, as many as or more than recorded, and       *)
(* traffic[a].out whether those sent to it are more.                       *)
(***************************************************************************)
outTraffic(a) == traffic[a].out /\ \E v \in VNIDs : table100[v].node = a

\* What check does with node a: its next value, whether it is to be looked at
\* again and whether it is reported.  A node to be looked at again keeps its counts.
checked_Unreset(a) ==
  LET node   == monitorNodes[a]
      silent == outTraffic(a) /\ traffic[a].in = "same"
      result(offline, retries, retry, report) ==
        [node |-> [offline |-> offline, retries |-> retries], retry |-> retry, report |-> report]
  IN  CASE node.offline -> LET back == traffic[a].in = "more"
                           IN  result(~back, node.retries, FALSE, back)
        [] ~node.offline /\ ~silent -> result(FALSE, 0, FALSE, FALSE)
        [] OTHER -> LET gone == node.retries = maxRetries
                    IN  result(gone, IF gone THEN node.retries ELSE node.retries + 1, TRUE, gone)

checked_UsedOnly(a) ==
  LET node   == monitorNodes[a]
      silent == outTraffic(a) /\ traffic[a].in = "same"
      result(offline, retries, retry, report) ==
        [node |-> [offline |-> offline, retries |-> retries], retry |-> retry, report |-> report]
  IN  CASE node.offline -> LET back == traffic[a].in = "more" /\ outTraffic(a)
                           IN  result(~back, node.retries, FALSE, back)
        [] ~node.offline /\ ~silent -> result(FALSE, 0, FALSE, FALSE)
        [] OTHER -> LET gone == node.retries = maxRetries
                    IN  result(gone, IF gone THEN 0 ELSE node.retries + 1, ~gone, gone)

checked(a) ==
  LET node   == monitorNodes[a]
      silent == outTraffic(a) /\ traffic[a].in = "same"
      result(offline, retries, retry, report) ==
        [node |-> [offline |-> offline, retries |-> retries], retry |-> retry, report |-> report]
  IN  CASE node.offline -> LET back == traffic[a].in = "more"
                           IN  result(~back, node.retries, FALSE, back)
        [] ~node.offline /\ ~silent -> result(FALSE, 0, FALSE, FALSE)
        [] OTHER -> LET gone == node.retries = maxRetries
                    IN  result(gone, IF gone THEN 0 ELSE node.retries + 1, ~gone, gone)

Recorded == [in |-> "same", out |-> FALSE]

\* The loop of check only waits to send: the lock is held and the counts were read
\* before it began, so what it does to the nodes is done at once.
check(retryOnly) ==
  LET visited == {a \in NodeIPs : /\ monitorNodes[a] # none
                                  /\ retryOnly => monitorNodes[a].retries > 0}
      reports == {a \in visited : checked(a).report}
      retry   == \E a \in visited : checked(a).retry
  IN  /\ monitorNodes' = [a \in NodeIPs |->
           IF a \in visited THEN checked(a).node ELSE monitorNodes[a]]
      /\ traffic' = [a \in NodeIPs |->
           IF a \in visited /\ ~checked(a).retry THEN Recorded ELSE traffic[a]]
      /\ poller' = IF reports = {} /\ ~retry THEN Idle
                   ELSE [polling |-> TRUE, retry |-> retry,
                         reports |-> {<<a, checked(a).node.offline>> : a \in reports}]
      /\ reported' = (IF retryOnly THEN reported ELSE {}) \cup reports
      /\ missed' = missed \ {<<"offline", a>> : a \in reports}

\* poll, from its beginning and after a pause.  Five seconds pass from one poll to
\* the next: who then waits for a lock that is free has got it.  check gives up when
\* it cannot read the flows.
pollInterval == calls = {} /\ receiver = none

poll ==
  /\ \/ /\ ~poller.polling /\ pollInterval /\ \E a \in NodeIPs : monitorNodes[a] # none
        /\ check(FALSE)
     \/ poller.polling /\ poller.reports = {} /\ check(TRUE)
  /\ UNCHANGED <<vars, calls, watcher, receiver, up, todo, scenario, budget>>

dumpFlowsFails ==
  /\ poller.polling /\ poller.reports = {} /\ Spend("errors")
  /\ poller' = Idle
  /\ UNCHANGED <<vars, calls, watcher, monitorNodes, traffic, receiver, reported, up, todo,
                 scenario, missed>>

\* watchVXLAN takes a report from the channel, and waits for the tracker's lock.
receive ==
  /\ receiver = none
  /\ \E r \in poller.reports :
       LET left == poller.reports \ {r}
       IN  /\ receiver' = r
           /\ poller' = IF left = {} /\ ~poller.retry THEN Idle
                        ELSE [poller EXCEPT !.reports = left]
  /\ UNCHANGED <<vars, calls, watcher, monitorNodes, traffic, reported, up, todo, scenario,
                 budget, missed>>

watchVXLAN ==
  /\ receiver # none /\ calls = {}
  /\ nodeOffline(receiver[1], receiver[2])
  /\ calls' = Calls(tracker, tracker')
  /\ receiver' = none
  /\ UNCHANGED <<watcher, monitorNodes, traffic, poller, reported, up, todo, scenario, budget,
                 missed>>

-----------------------------------------------------------------------------
(***************************************************************************)
(* The informers, the network and the firewall.                            *)
(***************************************************************************)
deliver(input) ==
  LET name == input.name
      obj  == input.obj
  IN  \/ input.kind = "HostSubnet" /\ obj # none /\ handleAddOrUpdateHostSubnet(name, obj)
      \/ input.kind = "HostSubnet" /\ obj = none /\ handleDeleteHostSubnet(name)
      \/ input.kind = "NetNamespace" /\ obj # none /\ handleAddOrUpdateNetNamespace(name, obj)
      \/ input.kind = "NetNamespace" /\ obj = none /\ handleDeleteNetNamespace(name)

inform ==
  /\ calls = {}
  /\ \/ /\ todo # <<>> /\ deliver(Head(todo))
        /\ todo' = Tail(todo)
        /\ UNCHANGED budget
     \/ /\ todo = <<>> /\ Spend("inputs")
        /\ \E input \in scenario.inputs : deliver(input)
        /\ UNCHANGED todo
  /\ calls' = Calls(tracker, tracker')
  /\ UNCHANGED <<watcher, monitor, up, scenario, missed>>

\* Packets to a, while a flow of table 100 leads there, and packets from it: those of
\* pods, and the answers to the pings of check.
packetOut(a) ==
  /\ monitorNodes[a] # none /\ ~traffic[a].out /\ \E v \in VNIDs : table100[v].node = a
  /\ traffic' = [traffic EXCEPT ![a].out = TRUE]

packetIn(a) ==
  /\ monitorNodes[a] # none /\ a \in up /\ traffic[a].in # "more"
  /\ traffic' = [traffic EXCEPT ![a].in = "more"]

packets ==
  /\ \E a \in NodeIPs : packetOut(a) \/ packetIn(a)
  /\ UNCHANGED <<vars, calls, watcher, monitorNodes, poller, receiver, reported, up, todo,
                 scenario, budget, missed>>

\* A node fails or recovers, or its flow in table 10 is made anew.
network ==
  /\ \E a \in NodeIPs \ {localIP} :
       \/ /\ Spend("outages")
          /\ up' = IF a \in up THEN up \ {a} ELSE up \cup {a}
          /\ UNCHANGED traffic
       \/ /\ Spend("resets") /\ monitorNodes[a] # none
          /\ traffic' = [traffic EXCEPT ![a].in = "less"]
          /\ UNCHANGED up
  /\ UNCHANGED <<vars, calls, watcher, monitorNodes, poller, receiver, reported, todo,
                 scenario, missed>>

\* Somebody flushes a chain or deletes its rules; the reload function or the loop of
\* NodeIPTables, which are not told of it, then ensure the rules or fail half-way.
disturb ==
  /\ Spend("flushes")
  /\ \E c \in Chains : chains' \in {[chains EXCEPT ![c] = <<>>],
                                    [chains EXCEPT ![c] = Remove(@, Base)]}
  /\ missed' = missed \cup {<<"disturbed", none>>}
  /\ UNCHANGED <<vars, calls, iptablesMark, addresses, egressIPs, table100, monitor, up, todo,
                 scenario>>

syncLoop ==
  /\ \/ /\ chains' = syncIPTableRules(chains)
        /\ missed' = missed \ {<<"disturbed", none>>}
        /\ UNCHANGED budget
     \/ /\ Spend("errors")
        /\ chains' = [c \in Chains |-> ensureChain(chains[c])]
        /\ UNCHANGED missed
  /\ UNCHANGED <<vars, calls, iptablesMark, addresses, egressIPs, table100, monitor, up, todo,
                 scenario>>

NodeInit ==
  /\ Init
  /\ scenario \in Scenarios
  /\ todo = scenario.todo /\ budget = scenario.budget
  /\ calls = {}
  /\ iptablesMark = [ip \in EgressIPs |-> none] /\ egressIPs = [ip \in EgressIPs |-> none]
  /\ addresses = {}
  /\ chains = [c \in Chains |-> <<Base>>]
  /\ table100 = [v \in VNIDs |-> [kind |-> "normal", node |-> none, mark |-> none]]
  /\ monitorNodes = [a \in NodeIPs |-> none] /\ traffic = [a \in NodeIPs |-> Recorded]
  /\ poller = Idle /\ receiver = none /\ up = NodeIPs
  /\ missed = {} /\ reported = {}

NodeNext ==
  call \/ poll \/ dumpFlowsFails \/ receive \/ watchVXLAN \/ inform \/ packets \/ network
    \/ disturb \/ syncLoop

\* The tracker's caller is served in the end by the mutex of the monitor, which the
\* poller gives up at the end of each poll; a node that is up answers the pings.
Goroutines == {"receive", "poll"} \cup NodeIPs

CanGoOn(g) ==
  CASE g = "receive" -> receiver = none /\ poller.reports # {}
    [] g = "poll" -> IF poller.polling THEN poller.reports = {}
                     ELSE pollInterval /\ \E a \in NodeIPs : monitorNodes[a] # none
    [] OTHER -> monitorNodes[g] # none /\ g \in up /\ traffic[g].in # "more"

GoesOn(g) ==
  CASE g = "receive" -> receiver = none /\ receiver' # none
    [] g = "poll" -> poll
    [] OTHER -> traffic[g].in # "more" /\ traffic'[g].in = "more"

\* Those that wait for a mutex.
LockUsers == {"call", "watchVXLAN"}

CanLock(g) == IF g = "call" THEN \E c \in Ready : Remote(c) => ~poller.polling
                            ELSE receiver # none /\ calls = {}

Locks(g) == IF g = "call" THEN calls' # calls /\ receiver' = receiver
                          ELSE receiver # none /\ receiver' = none

Fairness ==
  /\ \A g \in Goroutines : []<>~CanGoOn(g) \/ []<><<GoesOn(g)>>_nodeVars
  /\ \A g \in LockUsers : <>[]~CanLock(g) \/ []<><<Locks(g)>>_nodeVars

NodeSpec == NodeInit /\ [][NodeNext]_nodeVars /\ Fairness

-----------------------------------------------------------------------------
\* The first rule of OPENSHIFT-MASQUERADE for the packets with this mark.
Translated(mark) ==
  LET masquerade == chains["OPENSHIFT-MASQUERADE"]
      matches(rule) == rule = Base \/ rule[2] = mark
  IN  masquerade[SelectInSeq(masquerade, matches)]

Failed(ip) == <<"failed", ip>> \in missed
Held(ip) == tracker.claims[ip] # none /\ tracker.claims[ip].node = localIP

\* ClaimEgressIP, SetNamespaceEgressViaEgressIP and NodeIPTables agree: once the
\* tracker's calls are made, the packets of a VNID that leaves by an egress IP of
\* this node carry the mark whose first matching rule translates them to that IP,
\* the IP is on the interface, and no address or rule is left of an IP that is not
\* held.  An IP whose system calls failed, a VNID whose last OVS transaction failed
\* and, while rules changed behind the node's back are not yet synced, all of them,
\* are excluded.
EgressTrafficTranslated ==
  calls = {} /\ <<"disturbed", none>> \notin missed =>
    /\ \A v \in {w \in VNIDs : <<"route", w>> \notin missed} :
         LET route == tracker.routes[v]
         IN  /\ table100[v].kind = route.kind /\ table100[v].node = route.node
             /\ route.node = localIP /\ (\A ip \in EgressIPs : ~Failed(ip)) =>
                  /\ route.ip \in addresses
                  /\ Translated(table100[v].mark) = <<route.ip, table100[v].mark>>
    /\ \A ip \in EgressIPs : ~Failed(ip) =>
         /\ (ip \in addresses) = Held(ip)
         /\ Held(ip) = (\E i \in DOMAIN chains["OPENSHIFT-FIREWALL-ALLOW"] :
                          chains["OPENSHIFT-FIREWALL-ALLOW"][i][1] = ip)

\* AddNode and RemoveNode follow the claims: once the tracker's calls are made, the
\* nodes monitored are the other nodes that hold an egress IP, but for those that
\* RemoveNode gave up on the release of one of several IPs; and once the reports are
\* taken, the tracker believes of each what the monitor does, unless the node came
\* back to the monitor as a new one while the tracker knew it as offline.
MonitorFollowsTracker ==
  calls = {} =>
    \A a \in NodeIPs \ {localIP} :
      LET holds == \E ip \in EgressIPs : tracker.claims[ip] # none /\ tracker.claims[ip].node = a
          u     == tracker.nodesByNodeIP[a]
      IN  /\ monitorNodes[a] # none => holds
          /\ holds => monitorNodes[a] # none \/ <<"unwatched", a>> \in missed
          /\ /\ monitorNodes[a] # none /\ u \in UIDs /\ <<"offline", a>> \notin missed
             /\ poller.reports = {} /\ receiver = none
             => tracker.nodes[u].offline = monitorNodes[a].offline

\* The informer's handler waits for the monitor's lock, the poll that has it waits
\* for watchVXLAN, and watchVXLAN waits for the tracker's lock, which the handler has.
Stuck ==
  /\ receiver # none /\ poller.reports # {}
  /\ calls # {} /\ \A c \in Ready : Remote(c)

\* The three wait for each other only when one poll has two nodes to report.
StuckNeedsTwoReports == Stuck => Cardinality(reported) > 1

Answers(a) ==
  a \in up /\ monitorNodes[a] # none /\ <<"offline", a>> \notin missed /\ ~Stuck

Trusted(a) ==
  LET u == tracker.nodesByNodeIP[a] IN u \in UIDs => ~tracker.nodes[u].offline

\* A node that answers is not taken for offline for ever, as long as it is monitored:
\* check sees its packets, and the report reaches the tracker.
NodesComeBack ==
  \A a \in NodeIPs \ {localIP} :
    <>[]Answers(a) => []<>Trusted(a)
=============================================================================
