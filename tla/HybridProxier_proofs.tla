------------------------ MODULE HybridProxier_proofs ------------------------
(***************************************************************************)
(* Proofs about HybridProxier, for every number of services, versions and  *)
(* changes.                                                                *)
(***************************************************************************)
EXTENDS HybridProxier, TLAPS

\* Time enough for a leaf on a slow or busy machine.
USE SMTT(60)

States == {"idle", "ready", none}

\* What the proofs need of the constants.
Assumptions ==
  /\ none \notin BOOLEAN /\ none \notin Versions
  /\ none # "idle" /\ none # "ready"

-----------------------------------------------------------------------------
(* Lemmas about queues: a queue q of length n, whose entries begin with a   *)
(* service.                                                                *)

\* There is no event of s after the i-th.
Quiet(q, n, i, s) == \A j \in i + 1 .. n : q[j][1] # s

\* The j-th event is the first of s after the i-th.
First(q, n, i, j, s) ==
  j \in i + 1 .. n /\ q[j][1] = s /\ \A m \in i + 1 .. j - 1 : q[m][1] # s

\* The next event of s after the i-th starts from a state of V; if there is none,
\* the present state is one of V.
NextIn(q, n, i, s, V, present) ==
  /\ \A j \in i + 1 .. n : First(q, n, i, j, s) => q[j][2] \in V
  /\ Quiet(q, n, i, s) => present \in V

\* r is what is left of q without its first event.
Rest(q, r, n) == \A j \in 1 .. n - 1 : r[j] = q[j + 1]

\* p is q with an event e behind it.
More(q, p, n, e) == p[n + 1] = e /\ \A j \in 1 .. n : p[j] = q[j]

\* The first event leaves: what was after the i-th is after the one before it.
LEMMA RestQuiet ==
  ASSUME NEW n \in Nat \ {0}, NEW q, NEW r, Rest(q, r, n), NEW i \in 1 .. n, NEW s
  PROVE  Quiet(r, n - 1, i - 1, s) <=> Quiet(q, n, i, s)
<1>1. ASSUME Quiet(q, n, i, s), NEW j \in (i - 1) + 1 .. n - 1 PROVE r[j][1] # s
  <2>1. j \in 1 .. n - 1 /\ j + 1 \in i + 1 .. n
    OBVIOUS
  <2> QED
    BY <1>1, <2>1 DEF Quiet, Rest
<1>2. ASSUME Quiet(r, n - 1, i - 1, s), NEW j \in i + 1 .. n PROVE q[j][1] # s
  <2>1. j - 1 \in 1 .. n - 1 /\ j - 1 \in (i - 1) + 1 .. n - 1 /\ (j - 1) + 1 = j
    OBVIOUS
  <2>2. r[j - 1] = q[j]
    BY <2>1 DEF Rest
  <2> QED
    BY <1>2, <2>1, <2>2 DEF Quiet
<1> QED
  BY <1>1, <1>2 DEF Quiet

\* Likewise for the first event of s after the i-th.
LEMMA RestNext ==
  ASSUME NEW n \in Nat \ {0}, NEW q, NEW r, Rest(q, r, n), NEW i \in 1 .. n, NEW s,
         NEW V, NEW present, NextIn(q, n, i, s, V, present)
  PROVE  NextIn(r, n - 1, i - 1, s, V, present)
<1>1. ASSUME NEW j \in (i - 1) + 1 .. n - 1, First(r, n - 1, i - 1, j, s) PROVE r[j][2] \in V
  <2>1. j \in 1 .. n - 1 /\ j + 1 \in i + 1 .. n
    OBVIOUS
  <2>2. r[j] = q[j + 1]
    BY <2>1 DEF Rest
  <2>3. ASSUME NEW m \in i + 1 .. (j + 1) - 1 PROVE q[m][1] # s
    <3>1. m - 1 \in (i - 1) + 1 .. j - 1 /\ m - 1 \in 1 .. n - 1 /\ (m - 1) + 1 = m
      BY <2>1
    <3>2. r[m - 1] = q[m]
      BY <3>1 DEF Rest
    <3> QED
      BY <1>1, <3>1, <3>2 DEF First
  <2>4. First(q, n, i, j + 1, s)
    BY <1>1, <2>1, <2>2, <2>3 DEF First
  <2> QED
    BY <2>1, <2>2, <2>4 DEF NextIn
<1> QED
  BY <1>1, RestQuiet DEF NextIn

\* The first event is of another service.
LEMMA SkipHead ==
  ASSUME NEW n \in Nat \ {0}, NEW q, NEW s, q[1][1] # s
  PROVE  /\ Quiet(q, n, 0, s) <=> Quiet(q, n, 1, s)
         /\ \A V, present : NextIn(q, n, 0, s, V, present) => NextIn(q, n, 1, s, V, present)
<1>1. 0 + 1 .. n = {1} \cup (1 + 1 .. n)
  OBVIOUS
<1>2. Quiet(q, n, 0, s) <=> Quiet(q, n, 1, s)
  BY <1>1 DEF Quiet
<1>3. ASSUME NEW j \in 1 + 1 .. n, First(q, n, 1, j, s) PROVE First(q, n, 0, j, s)
  <2>1. 0 + 1 .. j - 1 = {1} \cup (1 + 1 .. j - 1)
    OBVIOUS
  <2> QED
    BY <1>1, <1>3, <2>1 DEF First
<1> QED
  BY <1>1, <1>2, <1>3 DEF NextIn

\* An event is added: nothing new for other services ...
LEMMA MoreOther ==
  ASSUME NEW n \in Nat, NEW q, NEW p, NEW e, More(q, p, n, e), NEW i \in 0 .. n, NEW s, e[1] # s
  PROVE  /\ Quiet(p, n + 1, i, s) <=> Quiet(q, n, i, s)
         /\ \A V, present : NextIn(q, n, i, s, V, present) => NextIn(p, n + 1, i, s, V, present)
<1>1. i + 1 .. n + 1 = (i + 1 .. n) \cup {n + 1} /\ i + 1 .. n \subseteq 1 .. n
  OBVIOUS
<1>2. Quiet(p, n + 1, i, s) <=> Quiet(q, n, i, s)
  BY <1>1 DEF Quiet, More
<1>3. ASSUME NEW j \in i + 1 .. n + 1, First(p, n + 1, i, j, s)
      PROVE  j \in i + 1 .. n /\ First(q, n, i, j, s) /\ p[j] = q[j]
  <2>1. j \in i + 1 .. n
    BY <1>1, <1>3 DEF First, More
  <2>2. i + 1 .. j - 1 \subseteq 1 .. n
    BY <2>1
  <2> QED
    BY <1>1, <1>3, <2>1, <2>2 DEF First, More
<1> QED
  BY <1>2, <1>3 DEF NextIn

\* ... and for its own service it starts from what was the present state.
LEMMA MoreOwn ==
  ASSUME NEW n \in Nat, NEW q, NEW p, NEW e, More(q, p, n, e), NEW i \in 0 .. n
  PROVE  /\ ~Quiet(p, n + 1, i, e[1])
         /\ \A V, present : NextIn(q, n, i, e[1], V, e[2]) => NextIn(p, n + 1, i, e[1], V, present)
<1>1. i + 1 .. n + 1 = (i + 1 .. n) \cup {n + 1} /\ i + 1 .. n \subseteq 1 .. n
  OBVIOUS
<1>2. ~Quiet(p, n + 1, i, e[1])
  BY <1>1 DEF Quiet, More
<1>3. ASSUME NEW j \in i + 1 .. n, First(p, n + 1, i, j, e[1])
      PROVE  First(q, n, i, j, e[1]) /\ p[j] = q[j]
  <2>1. i + 1 .. j - 1 \subseteq 1 .. n
    OBVIOUS
  <2> QED
    BY <1>1, <1>3, <2>1 DEF First, More
<1>4. First(p, n + 1, i, n + 1, e[1]) => Quiet(q, n, i, e[1])
  <2>1. (n + 1) - 1 = n
    OBVIOUS
  <2> QED
    BY <1>1, <2>1 DEF First, Quiet, More
<1> QED
  BY <1>1, <1>2, <1>3, <1>4 DEF NextIn, More

\* After the last event, the present state is the one it led to.
LEMMA LastNext ==
  ASSUME NEW n \in Nat, NEW p, NEW s, NEW present
  PROVE  NextIn(p, n, n, s, {present}, present)
BY DEF NextIn

-----------------------------------------------------------------------------
(* The inductive invariant.                                                *)

\* No change of s is left to handle.
Settled(s) == Quiet(serviceEvents, Len(serviceEvents), 0, s)

\* The last switch of s was to the unidling proxy, or to the main one.
SwitchedTo(s) == switchedToUserspace[s] = TRUE
SwitchedFrom(s) == switchedToUserspace[s] = FALSE

\* The states of Endpoints in which usingUserspace is as it is.
Known(s) ==
  {state \in States :
     IF usingUserspace[s] = none THEN state = none
     ELSE IF Uses(s) THEN state = "idle" ELSE state = "ready"}

Types ==
  /\ lister \in [Services -> Versions \cup {none}]
  /\ serviceEvents \in Seq(Services \X (Versions \cup {none}))
  /\ endpoints \in [Services -> States]
  /\ endpointsEvents \in Seq(Services \X States \X States)
  /\ usingUserspace \in [Services -> BOOLEAN \cup {none}]
  /\ switchedToUserspace \in [Services -> BOOLEAN \cup {none}]
  /\ main \in [Services -> Versions \cup {none}]
  /\ unidling \in [Services -> Versions \cup {none}]
  /\ mainEndpoints \subseteq Services

\* The last event of a service has it as it is.
ServiceQueue ==
  \A i \in 1 .. Len(serviceEvents) :
    Quiet(serviceEvents, Len(serviceEvents), i, serviceEvents[i][1])
      => serviceEvents[i][2] = lister[serviceEvents[i][1]]

\* The events of the Endpoints of a service are a history: from the state that
\* usingUserspace stands for, from one to the next, to the state as it is.
EndpointsQueue ==
  /\ \A s \in Services :
       NextIn(endpointsEvents, Len(endpointsEvents), 0, s, Known(s), endpoints[s])
  /\ \A i \in 1 .. Len(endpointsEvents) :
       /\ NextIn(endpointsEvents, Len(endpointsEvents), i, endpointsEvents[i][1],
                 {endpointsEvents[i][3]}, endpoints[endpointsEvents[i][1]])
       /\ endpointsEvents[i][2] # none \/ endpointsEvents[i][3] # none

\* A service is in no proxy but the one it belongs to and, once its changes have
\* been handled, there as it is; a service that has been switched is there.
Place(s) ==
  /\ IF Uses(s) THEN main[s] = none ELSE unidling[s] = none
  /\ Settled(s) => IF Uses(s) THEN unidling[s] = lister[s] ELSE main[s] = lister[s]
  /\ SwitchedTo(s) => Uses(s) /\ unidling[s] # none
  /\ SwitchedFrom(s) => ~Uses(s) /\ main[s] # none

Places == \A s \in Services \ misplaced : Place(s)

Forwarded == \A s \in Services : s \in mainEndpoints <=> usingUserspace[s] = FALSE

IInv == Types /\ ServiceQueue /\ EndpointsQueue /\ Places /\ Forwarded

\* At first there is nothing.
LEMMA InitIInv == Assumptions /\ Init => IInv
<1> SUFFICES ASSUME Assumptions, Init PROVE IInv
  OBVIOUS
<1>1. /\ serviceEvents = <<>> /\ endpointsEvents = <<>> /\ Len(serviceEvents) = 0
      /\ Len(endpointsEvents) = 0 /\ mainEndpoints = {}
  BY DEF Init
<1>2. \A s \in Services :
        /\ lister[s] = none /\ endpoints[s] = none /\ main[s] = none /\ unidling[s] = none
        /\ usingUserspace[s] = none /\ switchedToUserspace[s] = none
  BY Zenon DEF Init
<1>3. Types
  <2>1. /\ usingUserspace \in [Services -> BOOLEAN \cup {none}]
        /\ switchedToUserspace \in [Services -> BOOLEAN \cup {none}]
    BY Zenon DEF Init
  <2>2. /\ lister \in [Services -> Versions \cup {none}]
        /\ main \in [Services -> Versions \cup {none}]
        /\ unidling \in [Services -> Versions \cup {none}]
        /\ endpoints \in [Services -> States]
    BY DEF Init, States
  <2> QED
    BY <1>1, <2>1, <2>2 DEF Types
<1>4. ServiceQueue
  BY <1>1 DEF ServiceQueue
<1>5. \A s \in Services : ~Uses(s) /\ ~SwitchedTo(s) /\ ~SwitchedFrom(s) /\ usingUserspace[s] # FALSE
  BY <1>2, Zenon DEF Uses, SwitchedTo, SwitchedFrom, Assumptions
<1>6. EndpointsQueue
  <2>1. \A s \in Services : none \in Known(s)
    BY <1>2, Zenon DEF Known, States
  <2> QED
    BY <1>1, <1>2, <2>1 DEF EndpointsQueue, NextIn
<1>7. Places
  BY <1>2, <1>5, Zenon DEF Places, Place
<1>8. Forwarded
  BY <1>1, <1>5, Zenon DEF Forwarded
<1> QED
  BY <1>3, <1>4, <1>6, <1>7, <1>8 DEF IInv

-----------------------------------------------------------------------------
(* The steps.                                                              *)

\* A service changes: it is not settled, and the new event has it as it is.
LEMMA ChangeServiceStep ==
  ASSUME Assumptions, IInv, NEW s \in Services, changeService(s)
  PROVE  IInv'
<1>1. PICK version \in Versions \cup {none} :
        /\ lister' = [lister EXCEPT ![s] = version]
        /\ serviceEvents' = Append(serviceEvents, <<s, version>>)
  BY Zenon DEF changeService
<1>2. UNCHANGED <<endpoints, endpointsEvents, usingUserspace, switchedToUserspace, main,
                  unidling, mainEndpoints, misplaced>>
  BY DEF changeService
<1> DEFINE e == <<s, version>>
           n == Len(serviceEvents)
<1>3. /\ n \in Nat /\ Len(serviceEvents') = n + 1 /\ More(serviceEvents, serviceEvents', n, e)
      /\ serviceEvents' \in Seq(Services \X (Versions \cup {none}))
      /\ \A i \in 1 .. n : serviceEvents[i][1] \in Services
  BY <1>1 DEF IInv, Types, More
<1>4. /\ lister' \in [Services -> Versions \cup {none}] /\ lister'[s] = version
      /\ \A r \in Services : r # s => lister'[r] = lister[r]
  BY <1>1 DEF IInv, Types
<1>5. Types'
  BY <1>2, <1>3, <1>4 DEF IInv, Types
<1>6. \A i \in 0 .. n, r \in Services :
        /\ r # s => (Quiet(serviceEvents', n + 1, i, r) <=> Quiet(serviceEvents, n, i, r))
        /\ r = s => ~Quiet(serviceEvents', n + 1, i, r)
  <2> TAKE i \in 0 .. n, r \in Services
  <2>1. e[1] = s
    OBVIOUS
  <2>2. CASE r # s
    BY <1>3, <2>1, <2>2, MoreOther
  <2>3. CASE r = s
    BY <1>3, <2>1, <2>3, MoreOwn
  <2> QED
    BY <2>2, <2>3
<1> HIDE DEF n, e
<1>7. ServiceQueue'
  <2> SUFFICES ASSUME NEW i \in 1 .. n + 1,
                      Quiet(serviceEvents', n + 1, i, serviceEvents'[i][1])
               PROVE  serviceEvents'[i][2] = lister'[serviceEvents'[i][1]]
    BY <1>3 DEF ServiceQueue
  <2>1. CASE i = n + 1
    BY <1>3, <1>4, <2>1 DEF More, e
  <2>2. CASE i # n + 1
    <3>1. i \in 1 .. n /\ i \in 0 .. n /\ serviceEvents'[i] = serviceEvents[i]
      BY <1>3, <2>2 DEF More
    <3>2. PICK r \in Services : r = serviceEvents[i][1]
      BY <1>3, <3>1
    <3>3. r # s /\ Quiet(serviceEvents, n, i, r)
      BY <1>6, <3>1, <3>2
    <3> QED
      BY <1>4, <3>1, <3>2, <3>3 DEF IInv, ServiceQueue, n
  <2> QED
    BY <2>1, <2>2
<1>8. EndpointsQueue' /\ Forwarded'
  BY <1>2, Zenon DEF IInv, EndpointsQueue, Forwarded, Known, Uses
<1>9. Places'
  <2> SUFFICES ASSUME NEW r \in Services \ misplaced PROVE Place(r)'
    BY <1>2 DEF Places
  <2>1. Place(r) /\ Uses(r)' = Uses(r) /\ SwitchedTo(r)' = SwitchedTo(r)
        /\ SwitchedFrom(r)' = SwitchedFrom(r) /\ main'[r] = main[r] /\ unidling'[r] = unidling[r]
    BY <1>2, Zenon DEF IInv, Places, Uses, SwitchedTo, SwitchedFrom
  <2>2. Settled(r)' => Settled(r) /\ lister'[r] = lister[r]
    <3>1. 0 \in 0 .. n
      BY <1>3
    <3> QED
      BY <1>3, <1>4, <1>6, <3>1 DEF Settled, n
  <2> QED
    BY <2>1, <2>2 DEF Place
<1> QED
  BY <1>5, <1>7, <1>8, <1>9 DEF IInv

\* The Endpoints of a service change: the new event goes on from where they were.
LEMMA ChangeEndpointsStep ==
  ASSUME Assumptions, IInv, NEW s \in Services, changeEndpoints(s)
  PROVE  IInv'
<1>1. PICK state \in States :
        /\ endpoints[s] = none => state # none
        /\ endpoints' = [endpoints EXCEPT ![s] = state]
        /\ endpointsEvents' = Append(endpointsEvents, <<s, endpoints[s], state>>)
  BY Zenon DEF changeEndpoints, States
<1>2. UNCHANGED <<lister, serviceEvents, usingUserspace, switchedToUserspace, main, unidling,
                  mainEndpoints, misplaced>>
  BY DEF changeEndpoints
<1> DEFINE e == <<s, endpoints[s], state>>
           q == endpointsEvents
           n == Len(endpointsEvents)
<1>3. /\ n \in Nat /\ Len(endpointsEvents') = n + 1 /\ More(q, endpointsEvents', n, e)
      /\ endpointsEvents' \in Seq(Services \X States \X States)
      /\ \A i \in 1 .. n : q[i][1] \in Services
  BY <1>1 DEF IInv, Types, More
<1>4. /\ endpoints' \in [Services -> States] /\ endpoints'[s] = state
      /\ \A r \in Services : r # s => endpoints'[r] = endpoints[r]
  BY <1>1 DEF IInv, Types
<1>5. Types'
  BY <1>2, <1>3, <1>4 DEF IInv, Types
<1>6. ASSUME NEW i \in 0 .. n, NEW r \in Services, NEW V, NextIn(q, n, i, r, V, endpoints[r])
      PROVE  NextIn(endpointsEvents', n + 1, i, r, V, endpoints'[r])
  <2>1. e[1] = s /\ e[2] = endpoints[s]
    OBVIOUS
  <2> HIDE DEF e, n, q
  <2>2. CASE r # s
    <3>1. endpoints'[r] = endpoints[r]
      BY <1>4, <2>2
    <3> QED
      BY <1>3, <1>6, <2>1, <2>2, <3>1, MoreOther, Zenon
  <2>3. CASE r = s
    BY <1>3, <1>6, <2>1, <2>3, MoreOwn
  <2> QED
    BY <2>2, <2>3
<1>7. \A r \in Services : Known(r)' = Known(r)
  BY <1>2 DEF Known, Uses
<1>8. 0 \in 0 .. n /\ 1 .. n \subseteq 0 .. n /\ 1 .. n + 1 = (1 .. n) \cup {n + 1}
  BY <1>3
<1>9. \A r \in Services : NextIn(endpointsEvents', n + 1, 0, r, Known(r)', endpoints'[r])
  <2> TAKE r \in Services
  <2>1. NextIn(q, n, 0, r, Known(r), endpoints[r])
    BY DEF IInv, EndpointsQueue
  <2> QED
    BY <1>6, <1>7, <1>8, <2>1
<1>10. \A i \in 1 .. n + 1 :
         /\ NextIn(endpointsEvents', n + 1, i, endpointsEvents'[i][1],
                   {endpointsEvents'[i][3]}, endpoints'[endpointsEvents'[i][1]])
         /\ endpointsEvents'[i][2] # none \/ endpointsEvents'[i][3] # none
  <2> TAKE i \in 1 .. n + 1
  <2>1. CASE i = n + 1
    <3>1. endpointsEvents'[i] = e /\ endpointsEvents'[i][1] = s
          /\ endpointsEvents'[i][2] = endpoints[s] /\ endpointsEvents'[i][3] = state
      BY <1>3, <2>1 DEF More
    <3>2. NextIn(endpointsEvents', n + 1, n + 1, s, {state}, state)
      BY <1>3, LastNext
    <3> QED
      BY <1>1, <1>4, <2>1, <3>1, <3>2, Zenon
  <2>2. CASE i \in 1 .. n
    <3>1. endpointsEvents'[i] = q[i]
      BY <1>3, <2>2 DEF More
    <3>2. /\ NextIn(q, n, i, q[i][1], {q[i][3]}, endpoints[q[i][1]])
          /\ q[i][2] # none \/ q[i][3] # none
      BY <2>2, Zenon DEF IInv, EndpointsQueue
    <3>3. q[i][1] \in Services /\ i \in 0 .. n
      BY <1>3, <1>8, <2>2
    <3>4. NextIn(endpointsEvents', n + 1, i, q[i][1], {q[i][3]}, endpoints'[q[i][1]])
      BY <1>6, <3>2, <3>3
    <3> QED
      BY <3>1, <3>2, <3>4
  <2> QED
    BY <1>8, <2>1, <2>2
<1>11. EndpointsQueue'
  BY <1>3, <1>9, <1>10, Zenon DEF EndpointsQueue
<1>12. ServiceQueue' /\ Forwarded'
  BY <1>2 DEF IInv, ServiceQueue, Forwarded
<1>13. Places'
  BY <1>2 DEF IInv, Places, Place, Settled, Uses, SwitchedTo, SwitchedFrom
<1> QED
  BY <1>5, <1>11, <1>12, <1>13 DEF IInv

\* A change of a service is handled: it goes to the proxy the service belongs to.
LEMMA HandleServiceStep ==
  ASSUME Assumptions, IInv, handleService
  PROVE  IInv'
<1> DEFINE q == serviceEvents
           n == Len(serviceEvents)
<1>1. /\ n \in Nat \ {0} /\ Len(serviceEvents') = n - 1 /\ Rest(q, serviceEvents', n)
      /\ serviceEvents' \in Seq(Services \X (Versions \cup {none}))
      /\ Head(serviceEvents) = q[1] /\ q[1] \in Services \X (Versions \cup {none})
  BY DEF handleService, IInv, Types, Rest
<1>2. PICK s \in Services, version \in Versions \cup {none} : s = q[1][1] /\ version = q[1][2]
  BY <1>1
<1>3. /\ UNCHANGED <<lister, endpoints, endpointsEvents, usingUserspace, mainEndpoints, misplaced>>
      /\ IF version = none THEN OnServiceDelete(s) ELSE OnServiceAdd(s, version)
  BY <1>1, <1>2 DEF handleService
<1>4. /\ IF Uses(s) THEN unidling' = [unidling EXCEPT ![s] = version] /\ main' = main
                    ELSE main' = [main EXCEPT ![s] = version] /\ unidling' = unidling
      /\ IF version = none THEN switchedToUserspace' = [switchedToUserspace EXCEPT ![s] = none]
                           ELSE switchedToUserspace' = switchedToUserspace
  BY <1>3, Zenon DEF OnServiceAdd, OnServiceDelete, Put
<1>5. /\ main' \in [Services -> Versions \cup {none}]
      /\ unidling' \in [Services -> Versions \cup {none}]
      /\ IF Uses(s) THEN unidling'[s] = version /\ main'[s] = main[s]
                    ELSE main'[s] = version /\ unidling'[s] = unidling[s]
      /\ \A r \in Services : r # s => main'[r] = main[r] /\ unidling'[r] = unidling[r]
  BY <1>4, Zenon DEF IInv, Types
<1>6. /\ switchedToUserspace' \in [Services -> BOOLEAN \cup {none}]
      /\ \A r \in Services : r # s => switchedToUserspace'[r] = switchedToUserspace[r]
      /\ IF version = none THEN switchedToUserspace'[s] = none
                           ELSE switchedToUserspace'[s] = switchedToUserspace[s]
  <2>0. switchedToUserspace \in [Services -> BOOLEAN \cup {none}]
    BY DEF IInv, Types
  <2>1. CASE version = none
    BY <1>4, <2>0, <2>1, Zenon
  <2>2. CASE version # none
    BY <1>4, <2>0, <2>2, Zenon
  <2> QED
    BY <2>1, <2>2
<1>7. Types'
  <2>1. /\ lister' \in [Services -> Versions \cup {none}] /\ endpoints' \in [Services -> States]
        /\ endpointsEvents' \in Seq(Services \X States \X States)
        /\ mainEndpoints' \subseteq Services
    BY <1>3 DEF IInv, Types
  <2>2. usingUserspace' \in [Services -> BOOLEAN \cup {none}]
    BY <1>3, Zenon DEF IInv, Types
  <2> QED
    BY <1>1, <1>5, <1>6, <2>1, <2>2, Zenon DEF Types
<1>8. ServiceQueue'
  <2> SUFFICES ASSUME NEW i \in 1 .. n - 1,
                      Quiet(serviceEvents', n - 1, i, serviceEvents'[i][1])
               PROVE  serviceEvents'[i][2] = lister[serviceEvents'[i][1]]
    BY <1>1, <1>3 DEF ServiceQueue
  <2>1. i + 1 \in 1 .. n /\ (i + 1) - 1 = i /\ serviceEvents'[i] = q[i + 1]
    BY <1>1 DEF Rest
  <2>2. Quiet(q, n, i + 1, q[i + 1][1])
    BY <1>1, <2>1, RestQuiet
  <2> QED
    BY <2>1, <2>2 DEF IInv, ServiceQueue
<1>9. EndpointsQueue' /\ Forwarded'
  BY <1>3, Zenon DEF IInv, EndpointsQueue, Forwarded, Known, Uses
<1>10. \A r \in Services : Settled(r)' <=> Quiet(q, n, 1, r)
  <2>1. 1 \in 1 .. n /\ 1 - 1 = 0
    BY <1>1
  <2>2. \A r \in Services : Quiet(serviceEvents', n - 1, 0, r) <=> Quiet(q, n, 1, r)
    BY <1>1, <2>1, RestQuiet
  <2> QED
    BY <1>1, <2>2 DEF Settled
<1>11. Places'
  <2> SUFFICES ASSUME NEW r \in Services \ misplaced PROVE Place(r)'
    BY <1>3 DEF Places
  <2>1. Place(r) /\ (Uses(r)' <=> Uses(r)) /\ lister'[r] = lister[r]
    BY <1>3, Zenon DEF IInv, Places, Uses
  <2>2. CASE r # s
    <3>1. /\ SwitchedTo(r)' <=> SwitchedTo(r)
          /\ SwitchedFrom(r)' <=> SwitchedFrom(r)
      BY <1>6, <2>2, Zenon DEF SwitchedTo, SwitchedFrom
    <3>2. Settled(r)' <=> Settled(r)
      BY <1>1, <1>2, <1>10, <2>2, SkipHead DEF Settled
    <3> QED
      BY <1>5, <2>1, <2>2, <3>1, <3>2 DEF Place
  <2>3. CASE r = s
    <3>1. Settled(s)' => version = lister[s]
      <4>1. 1 \in 1 .. n
        BY <1>1
      <4> QED
        BY <1>2, <1>10, <4>1 DEF IInv, ServiceQueue
    <3>2. CASE version = none
      <4>1. ~SwitchedTo(s)' /\ ~SwitchedFrom(s)'
        BY <1>6, <3>2, Zenon DEF SwitchedTo, SwitchedFrom, Assumptions
      <4> QED
        BY <1>5, <2>1, <2>3, <3>1, <4>1 DEF Place
    <3>3. CASE version # none
      <4>1. /\ SwitchedTo(s)' <=> SwitchedTo(s)
            /\ SwitchedFrom(s)' <=> SwitchedFrom(s)
        BY <1>6, <3>3, Zenon DEF SwitchedTo, SwitchedFrom
      <4> QED
        BY <1>5, <2>1, <2>3, <3>1, <3>3, <4>1 DEF Place
    <3> QED
      BY <3>2, <3>3
  <2> QED
    BY <2>2, <2>3
<1> QED
  BY <1>7, <1>8, <1>9, <1>11 DEF IInv

\* What the handling of the Endpoints of s leaves alone of the others in the two proxies.
Others(s) ==
  \A r \in Services : r # s =>
    /\ switchedToUserspace'[r] = switchedToUserspace[r]
    /\ main'[r] = main[r] /\ unidling'[r] = unidling[r]
    /\ r \in misplaced' <=> r \in misplaced

ProxyTypes ==
  /\ switchedToUserspace \in [Services -> BOOLEAN \cup {none}]
  /\ main \in [Services -> Versions \cup {none}]
  /\ unidling \in [Services -> Versions \cup {none}]

\* s is in its place after the step, if it is not among the misplaced, and the others are left
\* alone.
Placed(s) == ProxyTypes' /\ Others(s) /\ (s \notin misplaced' => Place(s)')

\* A service that is not moved is where it belongs, or one of the misplaced.
LEMMA NoSwitchPlace ==
  ASSUME Assumptions, IInv, NEW s \in Services, NEW using \in BOOLEAN, NoSwitch(s, using),
         UNCHANGED <<lister, serviceEvents>>, Uses(s)' <=> using
  PROVE  Placed(s)
<1>1. /\ UNCHANGED <<switchedToUserspace, main, unidling>>
      /\ misplaced' = IF Elsewhere(s, using) THEN misplaced \union {s} ELSE misplaced
  BY Zenon DEF NoSwitch
<1>2. ProxyTypes' /\ Others(s)
  BY <1>1 DEF IInv, Types, ProxyTypes, Others
<1>3. ASSUME s \notin misplaced' PROVE Place(s)'
  <2>1. s \notin misplaced /\ ~Elsewhere(s, using) /\ Place(s)
    BY <1>1, <1>3 DEF IInv, Places
  <2>2. /\ SwitchedTo(s)' <=> SwitchedTo(s)
        /\ SwitchedFrom(s)' <=> SwitchedFrom(s)
        /\ Settled(s)' <=> Settled(s)
    BY <1>1, Zenon DEF SwitchedTo, SwitchedFrom, Settled
  <2>3. main'[s] = main[s] /\ unidling'[s] = unidling[s] /\ lister'[s] = lister[s]
    BY <1>1
  <2>4. CASE using
    <3>1. main[s] = none /\ Uses(s)'
      BY <2>1, <2>4 DEF Elsewhere
    <3> QED
      BY <2>1, <2>2, <2>3, <3>1 DEF Place
  <2>5. CASE ~using
    <3>1. unidling[s] = none /\ ~Uses(s)'
      BY <2>1, <2>5 DEF Elsewhere
    <3> QED
      BY <2>1, <2>2, <2>3, <3>1 DEF Place
  <2> QED
    BY <2>4, <2>5
<1> QED
  BY <1>2, <1>3 DEF Placed

\* switchService puts a service where it belongs, or it was there already; without
\* the service in the lister, it may leave it misplaced.
LEMMA SwitchPlace ==
  ASSUME Assumptions, IInv, NEW s \in Services, NEW using \in BOOLEAN, switchService(s, using),
         UNCHANGED <<lister, serviceEvents>>, Uses(s)' <=> using
  PROVE  Placed(s)
<1>0. Settled(s)' <=> Settled(s)
  BY DEF Settled
<1>1. CASE switchedToUserspace[s] = using
  <2>1. UNCHANGED <<switchedToUserspace, main, unidling, misplaced>>
    BY <1>1, Zenon DEF switchService
  <2>2. ProxyTypes' /\ Others(s)
    BY <2>1 DEF IInv, Types, ProxyTypes, Others
  <2>3. ASSUME s \notin misplaced' PROVE Place(s)'
    <3>1. Place(s)
      BY <2>1, <2>3 DEF IInv, Places
    <3>2. (using => SwitchedTo(s)) /\ (~using => SwitchedFrom(s))
      BY <1>1, Zenon DEF SwitchedTo, SwitchedFrom
    <3>3. Uses(s)' <=> Uses(s)
      BY <3>1, <3>2 DEF Place
    <3>4. /\ SwitchedTo(s)' <=> SwitchedTo(s)
          /\ SwitchedFrom(s)' <=> SwitchedFrom(s)
      BY <2>1, Zenon DEF SwitchedTo, SwitchedFrom
    <3> QED
      BY <1>0, <2>1, <3>1, <3>3, <3>4 DEF Place
  <2> QED
    BY <2>2, <2>3 DEF Placed
<1>2. CASE switchedToUserspace[s] # using /\ lister[s] = none
  <2>1. NoSwitch(s, using)
    BY <1>2, Zenon DEF switchService
  <2> QED
    BY <2>1, NoSwitchPlace
<1>3. CASE switchedToUserspace[s] # using /\ lister[s] # none
  <2>1. /\ switchedToUserspace' = [switchedToUserspace EXCEPT ![s] = using]
        /\ main' = [main EXCEPT ![s] = IF using THEN none ELSE lister[s]]
        /\ unidling' = [unidling EXCEPT ![s] = IF using THEN lister[s] ELSE none]
        /\ misplaced' = misplaced \ {s}
    BY <1>3, Zenon DEF switchService
  <2>2. /\ switchedToUserspace' \in [Services -> BOOLEAN \cup {none}]
        /\ switchedToUserspace'[s] = using
        /\ \A r \in Services : r # s => switchedToUserspace'[r] = switchedToUserspace[r]
    <3>1. switchedToUserspace \in [Services -> BOOLEAN \cup {none}]
      BY DEF IInv, Types
    <3> QED
      BY <2>1, <3>1, Zenon
  <2>3. /\ main' \in [Services -> Versions \cup {none}]
        /\ unidling' \in [Services -> Versions \cup {none}]
        /\ main'[s] = IF using THEN none ELSE lister[s]
        /\ unidling'[s] = IF using THEN lister[s] ELSE none
        /\ \A r \in Services : r # s => main'[r] = main[r] /\ unidling'[r] = unidling[r]
    BY <2>1 DEF IInv, Types
  <2>4. \A r \in Services : r # s => (r \in misplaced' <=> r \in misplaced)
    BY <2>1
  <2>5. ProxyTypes' /\ Others(s)
    BY <2>2, <2>3, <2>4, Zenon DEF ProxyTypes, Others
  <2>6. Place(s)'
    <3>1. (SwitchedTo(s)' => using) /\ (SwitchedFrom(s)' => ~using)
      BY <2>2, Zenon DEF SwitchedTo, SwitchedFrom
    <3>2. lister'[s] = lister[s]
      OBVIOUS
    <3> QED
      BY <1>3, <2>3, <3>1, <3>2 DEF Place
  <2> QED
    BY <2>5, <2>6 DEF Placed
<1> QED
  BY <1>1, <1>2, <1>3

\* usingUserspace becomes u for s, for which the main proxy has the Endpoints unless u is not FALSE.
Told(s, u) ==
  /\ usingUserspace' = [usingUserspace EXCEPT ![s] = u]
  /\ mainEndpoints' = IF u = FALSE THEN mainEndpoints \cup {s} ELSE mainEndpoints \ {s}

\* The handler for new Endpoints, which were not known.
LEMMA AddHandled ==
  ASSUME Assumptions, IInv, NEW s \in Services, NEW using \in BOOLEAN, NEW state,
         using = shouldEndpointsUseUserspace(state), usingUserspace[s] = none,
         OnEndpointsAdd(s, state)
  PROVE  Told(s, using) /\ NoSwitch(s, using)
<1>1. /\ usingUserspace' = [usingUserspace EXCEPT ![s] = using]
      /\ mainEndpoints' = IF using THEN mainEndpoints ELSE mainEndpoints \union {s}
      /\ NoSwitch(s, using)
  BY Zenon DEF OnEndpointsAdd
<1>2. s \notin mainEndpoints
  <2>1. usingUserspace[s] # FALSE
    BY Zenon DEF Assumptions
  <2> QED
    BY <2>1, Zenon DEF IInv, Forwarded
<1>3. CASE using = TRUE
  <2>1. mainEndpoints' = mainEndpoints /\ using # FALSE
    BY <1>1, <1>3, Zenon
  <2>2. mainEndpoints \ {s} = mainEndpoints
    BY <1>2
  <2> QED
    BY <1>1, <2>1, <2>2, Zenon DEF Told
<1>4. CASE using = FALSE
  BY <1>1, <1>4, Zenon DEF Told
<1> QED
  BY <1>3, <1>4, Zenon

\* The handler for Endpoints that were known.
LEMMA UpdateHandled ==
  ASSUME Assumptions, IInv, NEW s \in Services, NEW using \in BOOLEAN, NEW state,
         using = shouldEndpointsUseUserspace(state), usingUserspace[s] # none,
         OnEndpointsUpdate(s, state)
  PROVE  /\ Told(s, using)
         /\ \/ switchService(s, using)
            \/ /\ ~using /\ ~Uses(s)
               /\ UNCHANGED <<switchedToUserspace, main, unidling, misplaced>>
<1>1. /\ usingUserspace' = [usingUserspace EXCEPT ![s] = using]
      /\ mainEndpoints' = IF using THEN mainEndpoints \ {s} ELSE mainEndpoints \union {s}
      /\ IF usingUserspace[s] = using /\ ~using
         THEN UNCHANGED <<switchedToUserspace, main, unidling, misplaced>>
         ELSE switchService(s, using)
  BY Zenon DEF OnEndpointsUpdate
<1>2. usingUserspace[s] = using /\ ~using => ~Uses(s)
  BY Zenon DEF Uses
<1>3. CASE using = TRUE
  BY <1>1, <1>3, Zenon DEF Told
<1>4. CASE using = FALSE
  BY <1>1, <1>2, <1>4, Zenon DEF Told
<1> QED
  BY <1>3, <1>4, Zenon

\* The handler for Endpoints that are gone.
LEMMA DeleteHandled ==
  ASSUME Assumptions, IInv, NEW s \in Services, usingUserspace[s] # none, OnEndpointsDelete(s)
  PROVE  Told(s, none) /\ NoSwitch(s, FALSE)
<1>1. /\ usingUserspace' = [usingUserspace EXCEPT ![s] = none]
      /\ mainEndpoints' = IF Uses(s) THEN mainEndpoints ELSE mainEndpoints \ {s}
      /\ NoSwitch(s, FALSE)
  BY Zenon DEF OnEndpointsDelete
<1>2. Uses(s) => s \notin mainEndpoints
  <2>1. Uses(s) => usingUserspace[s] # FALSE
    BY Zenon DEF Uses
  <2> QED
    BY <2>1, Zenon DEF IInv, Forwarded
<1>3. mainEndpoints' = mainEndpoints \ {s}
  BY <1>1, <1>2
<1>4. none # FALSE
  BY Zenon DEF Assumptions
<1> QED
  BY <1>1, <1>3, <1>4, Zenon DEF Told

\* What Told and Placed leave of the invariant, and the state that is known now.
LEMMA ToldPlaced ==
  ASSUME Assumptions, IInv, NEW s \in Services, NEW u \in BOOLEAN \cup {none}, Told(s, u), Placed(s),
         UNCHANGED <<lister, serviceEvents>>
  PROVE  /\ usingUserspace' \in [Services -> BOOLEAN \cup {none}] /\ usingUserspace'[s] = u
         /\ mainEndpoints' \subseteq Services
         /\ Places' /\ Forwarded'
         /\ \A r \in Services : r # s => Known(r)' = Known(r)
<1>1. /\ usingUserspace' \in [Services -> BOOLEAN \cup {none}] /\ usingUserspace'[s] = u
      /\ \A r \in Services : r # s => usingUserspace'[r] = usingUserspace[r]
  <2>1. usingUserspace \in [Services -> BOOLEAN \cup {none}]
    BY DEF IInv, Types
  <2> QED
    BY <2>1, Zenon DEF Told
<1>2. \A r \in Services : r # s => (Uses(r)' <=> Uses(r)) /\ Known(r)' = Known(r)
  BY <1>1, Zenon DEF Uses, Known
<1>3. mainEndpoints' \subseteq Services
  BY DEF Told, IInv, Types
<1>4. Forwarded'
  <2> SUFFICES ASSUME NEW r \in Services PROVE r \in mainEndpoints' <=> usingUserspace'[r] = FALSE
    BY Zenon DEF Forwarded
  <2>1. CASE r = s
    <3>1. CASE u = FALSE
      BY <1>1, <2>1, <3>1, Zenon DEF Told
    <3>2. CASE u # FALSE
      BY <1>1, <2>1, <3>2, Zenon DEF Told
    <3> QED
      BY <3>1, <3>2, Zenon
  <2>2. CASE r # s
    <3>1. r \in mainEndpoints' <=> r \in mainEndpoints
      BY <2>2 DEF Told
    <3>2. r \in mainEndpoints <=> usingUserspace[r] = FALSE
      BY DEF IInv, Forwarded
    <3> QED
      BY <1>1, <2>2, <3>1, <3>2, Zenon
  <2> QED
    BY <2>1, <2>2, Zenon
<1>5. Places'
  <2> SUFFICES ASSUME NEW r \in Services, r \notin misplaced' PROVE Place(r)'
    BY DEF Places
  <2>1. CASE r = s
    BY <2>1 DEF Placed
  <2>2. CASE r # s
    <3>1. /\ switchedToUserspace'[r] = switchedToUserspace[r]
          /\ main'[r] = main[r] /\ unidling'[r] = unidling[r] /\ r \notin misplaced
      BY <2>2, Zenon DEF Placed, Others
    <3>2. Place(r)
      BY <3>1 DEF IInv, Places
    <3>3. /\ SwitchedTo(r)' <=> SwitchedTo(r)
          /\ SwitchedFrom(r)' <=> SwitchedFrom(r)
      BY <3>1, Zenon DEF SwitchedTo, SwitchedFrom
    <3>4. (Settled(r)' <=> Settled(r)) /\ lister'[r] = lister[r]
      BY DEF Settled
    <3> QED
      BY <1>2, <2>2, <3>1, <3>2, <3>3, <3>4 DEF Place
  <2> QED
    BY <2>1, <2>2
<1> QED
  BY <1>1, <1>2, <1>3, <1>4, <1>5

\* Endpoints are known exactly if usingUserspace has them.
LEMMA KnownState ==
  ASSUME Assumptions, NEW s \in Services, NEW state \in Known(s)
  PROVE  state = none <=> usingUserspace[s] = none
BY DEF Known, Assumptions

\* A change of Endpoints is handled.
LEMMA HandleEndpointsStep ==
  ASSUME Assumptions, IInv, handleEndpoints
  PROVE  IInv'
<1> DEFINE q == endpointsEvents
           n == Len(endpointsEvents)
<1>1. /\ n \in Nat \ {0} /\ Len(endpointsEvents') = n - 1 /\ Rest(q, endpointsEvents', n)
      /\ endpointsEvents' \in Seq(Services \X States \X States)
      /\ Head(endpointsEvents) = q[1] /\ q[1] \in Services \X States \X States
  BY DEF handleEndpoints, IInv, Types, Rest
<1>2. PICK s \in Services, old \in States, new \in States :
        s = q[1][1] /\ old = q[1][2] /\ new = q[1][3]
  BY <1>1
<1>3. /\ UNCHANGED <<lister, serviceEvents, endpoints>>
      /\ IF new = none THEN OnEndpointsDelete(s)
         ELSE IF old = none THEN OnEndpointsAdd(s, new) ELSE OnEndpointsUpdate(s, new)
  BY <1>1, <1>2 DEF handleEndpoints
<1>4. 1 \in 1 .. n /\ 1 \in 0 + 1 .. n /\ 1 - 1 = 0
  BY <1>1
<1>5. old = none <=> usingUserspace[s] = none
  <2>1. First(q, n, 0, 1, s)
    BY <1>2, <1>4 DEF First
  <2>2. NextIn(q, n, 0, s, Known(s), endpoints[s])
    BY DEF IInv, EndpointsQueue
  <2>3. old \in Known(s)
    BY <1>2, <1>4, <2>1, <2>2 DEF NextIn
  <2> QED
    BY <2>3, KnownState
<1>6. old # none \/ new # none
  BY <1>2, <1>4, Zenon DEF IInv, EndpointsQueue
<1>7. \E u \in BOOLEAN \cup {none} :
        /\ Told(s, u) /\ Placed(s)
        /\ u = IF new = none THEN none ELSE shouldEndpointsUseUserspace(new)
  <2>1. PICK using \in BOOLEAN : using = shouldEndpointsUseUserspace(new)
    BY Zenon DEF shouldEndpointsUseUserspace
  <2>2. ASSUME NEW u \in BOOLEAN \cup {none}, Told(s, u)
        PROVE  Uses(s)' <=> u = TRUE
    <3>1. usingUserspace \in [Services -> BOOLEAN \cup {none}]
      BY DEF IInv, Types
    <3> QED
      BY <2>2, <3>1, Zenon DEF Told, Uses
  <2>3. CASE new = none
    <3>1. Told(s, none) /\ NoSwitch(s, FALSE)
      BY <1>3, <1>5, <1>6, <2>3, DeleteHandled, Zenon
    <3>2. ~Uses(s)'
      BY <2>2, <3>1, Zenon DEF Assumptions
    <3>3. Placed(s)
      BY <1>3, <3>1, <3>2, NoSwitchPlace, Zenon
    <3> QED
      BY <2>3, <3>1, <3>3, Zenon
  <2>4. CASE new # none /\ old = none
    <3>1. Told(s, using) /\ NoSwitch(s, using)
      BY <1>3, <1>5, <2>1, <2>4, AddHandled, Zenon
    <3>2. Uses(s)' <=> using
      BY <2>2, <3>1, Zenon
    <3>3. Placed(s)
      BY <1>3, <3>1, <3>2, NoSwitchPlace
    <3> QED
      BY <2>1, <2>4, <3>1, <3>3, Zenon
  <2>5. CASE new # none /\ old # none
    <3>1. /\ Told(s, using)
          /\ \/ switchService(s, using)
             \/ /\ ~using /\ ~Uses(s)
                /\ UNCHANGED <<switchedToUserspace, main, unidling, misplaced>>
      BY <1>3, <1>5, <2>1, <2>5, UpdateHandled, Zenon
    <3>2. Uses(s)' <=> using
      BY <2>2, <3>1, Zenon
    <3>3. CASE switchService(s, using)
      <4>1. Placed(s)
        BY <1>3, <3>2, <3>3, SwitchPlace
      <4> QED
        BY <2>1, <2>5, <3>1, <4>1, Zenon
    <3>4. CASE /\ ~using /\ ~Uses(s)
               /\ UNCHANGED <<switchedToUserspace, main, unidling, misplaced>>
      <4>1. ProxyTypes' /\ Others(s)
        BY <3>4 DEF IInv, Types, ProxyTypes, Others
      <4>2. ASSUME s \notin misplaced' PROVE Place(s)'
        <5>1. Place(s)
          BY <3>4, <4>2 DEF IInv, Places
        <5>2. /\ SwitchedTo(s)' <=> SwitchedTo(s)
              /\ SwitchedFrom(s)' <=> SwitchedFrom(s)
              /\ Settled(s)' <=> Settled(s)
          BY <1>3, <3>4, Zenon DEF SwitchedTo, SwitchedFrom, Settled
        <5> QED
          BY <1>3, <3>2, <3>4, <5>1, <5>2 DEF Place
      <4>3. Placed(s)
        BY <4>1, <4>2 DEF Placed
      <4> QED
        BY <2>1, <2>5, <3>1, <4>3, Zenon
    <3> QED
      BY <3>1, <3>3, <3>4
  <2> QED
    BY <2>3, <2>4, <2>5
<1>8. PICK u \in BOOLEAN \cup {none} :
        /\ Told(s, u) /\ Placed(s)
        /\ u = IF new = none THEN none ELSE shouldEndpointsUseUserspace(new)
  BY <1>7
<1>9. /\ usingUserspace' \in [Services -> BOOLEAN \cup {none}] /\ usingUserspace'[s] = u
      /\ mainEndpoints' \subseteq Services
      /\ Places' /\ Forwarded'
      /\ \A r \in Services : r # s => Known(r)' = Known(r)
  BY <1>3, <1>8, ToldPlaced
<1>10. new \in Known(s)'
  <2>1. CASE new = none
    BY <1>8, <1>9, <2>1, Zenon DEF Known
  <2>2. CASE new = "idle"
    <3>1. u = TRUE /\ new # none
      BY <1>8, <2>2, Zenon DEF shouldEndpointsUseUserspace, Assumptions
    <3>2. usingUserspace'[s] # none /\ Uses(s)'
      BY <1>9, <3>1, Zenon DEF Uses, Assumptions
    <3> QED
      BY <2>2, <3>2 DEF Known, States
  <2>3. CASE new = "ready"
    <3>0. new # none /\ new # "idle"
      BY <2>3 DEF Assumptions
    <3>1. u = FALSE
      BY <1>8, <3>0, Zenon DEF shouldEndpointsUseUserspace
    <3>2. usingUserspace'[s] # none /\ ~Uses(s)'
      BY <1>9, <3>1, Zenon DEF Uses, Assumptions
    <3> QED
      BY <2>3, <3>2 DEF Known, States
  <2> QED
    BY <2>1, <2>2, <2>3 DEF States
<1>11. Types'
  <2>1. lister' \in [Services -> Versions \cup {none}] /\ endpoints' \in [Services -> States]
        /\ serviceEvents' \in Seq(Services \X (Versions \cup {none}))
    BY <1>3 DEF IInv, Types
  <2> QED
    BY <1>1, <1>8, <1>9, <2>1, Zenon DEF Types, Placed, ProxyTypes
<1>12. ServiceQueue'
  BY <1>3 DEF IInv, ServiceQueue
<1>13. ASSUME NEW r \in Services
       PROVE  NextIn(endpointsEvents', n - 1, 0, r, Known(r)', endpoints[r])
  <2>1. CASE r # s
    <3>1. NextIn(q, n, 0, r, Known(r), endpoints[r])
      BY DEF IInv, EndpointsQueue
    <3>2. NextIn(q, n, 1, r, Known(r), endpoints[r])
      BY <1>1, <1>2, <2>1, <3>1, SkipHead, Zenon
    <3>3. NextIn(endpointsEvents', n - 1, 1 - 1, r, Known(r), endpoints[r])
      BY <1>1, <1>4, <3>2, RestNext
    <3> QED
      BY <1>4, <1>9, <2>1, <3>3
  <2>2. CASE r = s
    <3>1. NextIn(q, n, 1, s, {new}, endpoints[s])
      BY <1>2, <1>4, Zenon DEF IInv, EndpointsQueue
    <3>2. NextIn(endpointsEvents', n - 1, 1 - 1, s, {new}, endpoints[s])
      BY <1>1, <1>4, <3>1, RestNext
    <3> QED
      BY <1>4, <1>10, <2>2, <3>2 DEF NextIn
  <2> QED
    BY <2>1, <2>2
<1>14. ASSUME NEW i \in 1 .. n - 1
       PROVE  /\ NextIn(endpointsEvents', n - 1, i, endpointsEvents'[i][1],
                        {endpointsEvents'[i][3]}, endpoints[endpointsEvents'[i][1]])
              /\ endpointsEvents'[i][2] # none \/ endpointsEvents'[i][3] # none
  <2>1. i + 1 \in 1 .. n /\ (i + 1) - 1 = i /\ endpointsEvents'[i] = q[i + 1]
    BY <1>1 DEF Rest
  <2>2. /\ NextIn(q, n, i + 1, q[i + 1][1], {q[i + 1][3]}, endpoints[q[i + 1][1]])
        /\ q[i + 1][2] # none \/ q[i + 1][3] # none
    BY <2>1, Zenon DEF IInv, EndpointsQueue
  <2>3. NextIn(endpointsEvents', n - 1, (i + 1) - 1, q[i + 1][1], {q[i + 1][3]},
               endpoints[q[i + 1][1]])
    BY <1>1, <2>1, <2>2, RestNext
  <2> QED
    BY <2>1, <2>2, <2>3
<1>15. EndpointsQueue'
  BY <1>1, <1>3, <1>13, <1>14, Zenon DEF EndpointsQueue
<1> QED
  BY <1>9, <1>11, <1>12, <1>15 DEF IInv

\* The invariant is inductive.
LEMMA StepIInv == Assumptions /\ IInv /\ [Next]_vars => IInv'
<1> SUFFICES ASSUME Assumptions, IInv, [Next]_vars PROVE IInv'
  OBVIOUS
<1>1. ASSUME NEW s \in Services, changeService(s) PROVE IInv'
  BY <1>1, ChangeServiceStep
<1>2. ASSUME NEW s \in Services, changeEndpoints(s) PROVE IInv'
  BY <1>2, ChangeEndpointsStep
<1>3. CASE handleService
  BY <1>3, HandleServiceStep
<1>4. CASE handleEndpoints
  BY <1>4, HandleEndpointsStep
<1>5. CASE UNCHANGED vars
  <2>1. UNCHANGED <<lister, serviceEvents, endpoints, endpointsEvents, usingUserspace,
                    switchedToUserspace, main, unidling, mainEndpoints, misplaced>>
    BY <1>5, Zenon DEF vars
  <2>2. Types' /\ ServiceQueue' /\ Forwarded'
    BY <2>1 DEF IInv, Types, ServiceQueue, Forwarded
  <2>3. EndpointsQueue'
    BY <2>1, Zenon DEF IInv, EndpointsQueue, Known, Uses
  <2>4. Places'
    BY <2>1 DEF IInv, Places, Place, Settled, Uses, SwitchedTo, SwitchedFrom
  <2> QED
    BY <2>2, <2>3, <2>4 DEF IInv
<1> QED
  BY <1>1, <1>2, <1>3, <1>4, <1>5 DEF Next

\* Once both handlers have caught up, every service is in exactly one proxy, the
\* one its Endpoints ask for, as it is now, except for the misplaced ones, and the
\* main proxy has exactly the Endpoints that are not idled: whatever the order in
\* which the handlers were told of services and Endpoints.
THEOREM PlacementCorrect == Assumptions => (Spec => []ServicesPlaced)
<1> SUFFICES ASSUME Assumptions PROVE Spec => []ServicesPlaced
  OBVIOUS
<1>1. Init => IInv
  BY InitIInv
<1>2. IInv /\ [Next]_vars => IInv'
  BY StepIInv
<1>3. IInv => ServicesPlaced
  <2> SUFFICES ASSUME IInv, serviceEvents = <<>>, endpointsEvents = <<>>
               PROVE  /\ mainEndpoints = {s \in Services : endpoints[s] = "ready"}
                      /\ \A s \in Services \ misplaced :
                           IF endpoints[s] = "idle"
                           THEN unidling[s] = lister[s] /\ main[s] = none
                           ELSE main[s] = lister[s] /\ unidling[s] = none
    BY DEF ServicesPlaced, queues
  <2>0. \A s \in Services : /\ Quiet(endpointsEvents, Len(endpointsEvents), 0, s)
                            /\ Quiet(serviceEvents, Len(serviceEvents), 0, s)
    <3>1. Len(serviceEvents) = 0 /\ Len(endpointsEvents) = 0
      OBVIOUS
    <3> QED
      BY <3>1 DEF Quiet
  <2>1. \A s \in Services : endpoints[s] \in Known(s)
    BY <2>0, Zenon DEF IInv, EndpointsQueue, NextIn
  <2>2. \A s \in Services : /\ endpoints[s] = "idle" <=> Uses(s)
                            /\ endpoints[s] = "ready" <=> usingUserspace[s] = FALSE
    <3> SUFFICES ASSUME NEW s \in Services
                 PROVE  /\ endpoints[s] = "idle" <=> Uses(s)
                        /\ endpoints[s] = "ready" <=> usingUserspace[s] = FALSE
      BY Zenon
    <3>1. usingUserspace[s] \in BOOLEAN \cup {none}
      BY DEF IInv, Types
    <3>2. endpoints[s] = IF usingUserspace[s] = none THEN none
                         ELSE IF Uses(s) THEN "idle" ELSE "ready"
      BY <2>1 DEF Known
    <3>3. CASE usingUserspace[s] = none
      <4>1. ~Uses(s) /\ usingUserspace[s] # FALSE
        BY <3>3, Zenon DEF Uses, Assumptions
      <4> QED
        BY <3>2, <3>3, <4>1, Zenon DEF Assumptions
    <3>4. CASE usingUserspace[s] = TRUE
      <4>1. Uses(s) /\ usingUserspace[s] # FALSE /\ usingUserspace[s] # none
        BY <3>4, Zenon DEF Uses, Assumptions
      <4> QED
        BY <3>2, <4>1, Zenon
    <3>5. CASE usingUserspace[s] = FALSE
      <4>1. ~Uses(s) /\ usingUserspace[s] # none
        BY <3>5, Zenon DEF Uses, Assumptions
      <4> QED
        BY <3>2, <3>5, <4>1
    <3> QED
      BY <3>1, <3>3, <3>4, <3>5, Zenon
  <2>3. mainEndpoints = {s \in Services : endpoints[s] = "ready"}
    BY <2>2 DEF IInv, Types, Forwarded
  <2>4. \A s \in Services \ misplaced : Place(s) /\ Settled(s)
    BY <2>0, Zenon DEF IInv, Places, Settled
  <2> QED
    BY <2>2, <2>3, <2>4 DEF Place
<1> QED
  BY <1>1, <1>2, <1>3, PTL DEF Spec
=============================================================================
