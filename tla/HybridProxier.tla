--------------------------- MODULE HybridProxier ---------------------------
(***************************************************************************)
(* HybridProxier (pkg/network/proxyimpl/hybrid/proxy.go) runs two service  *)
(* proxies: idled services belong to the unidling proxy, all others to the *)
(* main one.  Whether a service is idled is read off its Endpoints, which  *)
(* another informer reports than the services; the handler of the          *)
(* Endpoints moves a service from one proxy to the other, and takes it     *)
(* from the cache of the service informer, which is ahead of the handler.  *)
(***************************************************************************)
EXTENDS Integers, Sequences

CONSTANTS
    Services,
    Versions,       \* the versions of a service
    none,
    Scenarios       \* the bounds a behaviour may start with

VARIABLES
    lister,         \* serviceLister: Services -> a version or none
    serviceEvents,  \* what OnServiceAdd, Update and Delete have to be told
    endpoints,      \* in the API: Services -> "idle", "ready" or none
    endpointsEvents,    \* what OnEndpointsAdd, Update and Delete ... of them
    usingUserspace,     \* Services -> TRUE, FALSE or none
    switchedToUserspace,    \* likewise
    main,           \* the main proxy: Services -> a version or none
    unidling,       \* the unidling proxy, likewise
    mainEndpoints,  \* the Endpoints that the main proxy was given
    misplaced,      \* the services that the code is known to lose
    budget          \* bounds

queues == <<serviceEvents, endpointsEvents>>
vars == <<lister, serviceEvents, endpoints, endpointsEvents, usingUserspace,
          switchedToUserspace, main, unidling, mainEndpoints, misplaced,
          budget>>

Spend(field) == /\ budget[field] > 0
                /\ budget' = [budget EXCEPT ![field] = @ - 1]

Uses(s) == usingUserspace[s] = TRUE

-----------------------------------------------------------------------------
(* The services: the two proxies are told of what usingUserspace says.     *)

Put(s, version) ==
    IF Uses(s) THEN /\ unidling' = [unidling EXCEPT ![s] = version]
                    /\ UNCHANGED main
               ELSE /\ main' = [main EXCEPT ![s] = version]
                    /\ UNCHANGED unidling

\* OnServiceAdd and OnServiceUpdate.
OnServiceAdd(s, version) ==
    /\ Put(s, version)
    /\ UNCHANGED switchedToUserspace

OnServiceDelete_KeepsSwitch(s) ==
    /\ Put(s, none)
    /\ UNCHANGED switchedToUserspace

OnServiceDelete(s) ==
    /\ Put(s, none)
    /\ switchedToUserspace' = [switchedToUserspace EXCEPT ![s] = none]

handleService ==
    /\ serviceEvents # <<>>
    /\ LET s == Head(serviceEvents)[1]
           version == Head(serviceEvents)[2]
       IN IF version = none THEN OnServiceDelete(s) ELSE OnServiceAdd(s, version)
    /\ serviceEvents' = Tail(serviceEvents)
    /\ UNCHANGED <<lister, endpoints, endpointsEvents, usingUserspace,
                   mainEndpoints, misplaced, budget>>

-----------------------------------------------------------------------------
(* The Endpoints: `using' is the new usingUserspace[s].                    *)

shouldEndpointsUseUserspace(state) == state = "idle"

\* Where the service is, when it is in a proxy at all, is not where
\* usingUserspace will say it is.
Elsewhere(s, using) == IF using THEN main[s] # none ELSE unidling[s] # none

NoSwitch(s, using) ==
    /\ UNCHANGED <<switchedToUserspace, main, unidling>>
    /\ misplaced' = IF Elsewhere(s, using) THEN misplaced \union {s}
                                           ELSE misplaced

switchService(s, using) ==
    IF switchedToUserspace[s] = using
      THEN UNCHANGED <<switchedToUserspace, main, unidling, misplaced>>
      ELSE IF lister[s] = none
      THEN NoSwitch(s, using)
      ELSE /\ switchedToUserspace' = [switchedToUserspace EXCEPT ![s] = using]
           /\ main' = [main EXCEPT ![s] = IF using THEN none ELSE lister[s]]
           /\ unidling' = [unidling EXCEPT ![s] = IF using THEN lister[s]
                                                            ELSE none]
           /\ misplaced' = misplaced \ {s}

OnEndpointsAdd(s, state) ==
    LET was == usingUserspace[s]
        using == shouldEndpointsUseUserspace(state)
    IN /\ usingUserspace' = [usingUserspace EXCEPT ![s] = using]
       /\ mainEndpoints' = IF using THEN mainEndpoints
                                    ELSE mainEndpoints \union {s}
       /\ IF was # none /\ was # using THEN switchService(s, using)
                                       ELSE NoSwitch(s, using)

OnEndpointsUpdate(s, state) ==
    LET was == usingUserspace[s]
        using == shouldEndpointsUseUserspace(state)
    IN /\ usingUserspace' = [usingUserspace EXCEPT ![s] = using]
       /\ mainEndpoints' = IF was = none THEN mainEndpoints
                           ELSE IF using THEN mainEndpoints \ {s}
                           ELSE mainEndpoints \union {s}
       /\ IF was = none \/ (was = using /\ ~using)
            THEN UNCHANGED <<switchedToUserspace, main, unidling, misplaced>>
            ELSE switchService(s, using)

\* The service stays in the unidling proxy if that is where it is.
OnEndpointsDelete(s) ==
    IF usingUserspace[s] = none
      THEN UNCHANGED <<usingUserspace, mainEndpoints, switchedToUserspace,
                       main, unidling, misplaced>>
      ELSE /\ mainEndpoints' = IF Uses(s) THEN mainEndpoints
                                          ELSE mainEndpoints \ {s}
           /\ usingUserspace' = [usingUserspace EXCEPT ![s] = none]
           /\ NoSwitch(s, FALSE)

\* An event is <<service, state before, state after>>.
handleEndpoints ==
    /\ endpointsEvents # <<>>
    /\ LET s == Head(endpointsEvents)[1]
           old == Head(endpointsEvents)[2]
           new == Head(endpointsEvents)[3]
       IN IF new = none THEN OnEndpointsDelete(s)
          ELSE IF old = none THEN OnEndpointsAdd(s, new)
          ELSE OnEndpointsUpdate(s, new)
    /\ endpointsEvents' = Tail(endpointsEvents)
    /\ UNCHANGED <<lister, serviceEvents, endpoints, budget>>

-----------------------------------------------------------------------------
\* A service changes: the informer has it in its cache before it is handled.
changeService(s) ==
    /\ Spend("services")
    /\ \E version \in Versions \union {none} :
          /\ version # lister[s]
          /\ lister' = [lister EXCEPT ![s] = version]
          /\ serviceEvents' = Append(serviceEvents, <<s, version>>)
    /\ UNCHANGED <<endpoints, endpointsEvents, usingUserspace,
                   switchedToUserspace, main, unidling, mainEndpoints,
                   misplaced>>

\* The Endpoints are idled, filled or deleted, or change without either.
changeEndpoints(s) ==
    /\ Spend("endpoints")
    /\ \E state \in {"idle", "ready", none} :
          /\ endpoints[s] = none => state # none
          /\ endpoints' = [endpoints EXCEPT ![s] = state]
          /\ endpointsEvents' = Append(endpointsEvents,
                                       <<s, endpoints[s], state>>)
    /\ UNCHANGED <<lister, serviceEvents, usingUserspace,
                   switchedToUserspace, main, unidling, mainEndpoints,
                   misplaced>>

Init ==
    /\ budget \in Scenarios
    /\ lister = [s \in Services |-> none]
    /\ serviceEvents = <<>>
    /\ endpoints = [s \in Services |-> none]
    /\ endpointsEvents = <<>>
    /\ usingUserspace = [s \in Services |-> none]
    /\ switchedToUserspace = [s \in Services |-> none]
    /\ main = [s \in Services |-> none]
    /\ unidling = [s \in Services |-> none]
    /\ mainEndpoints = {}
    /\ misplaced = {}

Next ==
    \/ \E s \in Services : changeService(s) \/ changeEndpoints(s)
    \/ handleService
    \/ handleEndpoints

Spec == Init /\ [][Next]_vars

-----------------------------------------------------------------------------
\* When both handlers have caught up, every service is in exactly one proxy, as
\* it is now: in the unidling one if its Endpoints are idled, else in the main
\* one; a deleted service is in neither, and the main proxy has exactly the
\* Endpoints that are not idled, in whatever order services and Endpoints were
\* reported.  Not so for a service that was in a proxy when its Endpoints first
\* came up idled, or were deleted while idled, or whose move was asked for when
\* it was no longer in the lister: these stay where they are until the next move.
ServicesPlaced ==
    queues = <<<<>>, <<>>>> =>
      /\ mainEndpoints = {s \in Services : endpoints[s] = "ready"}
      /\ \A s \in Services \ misplaced :
            IF endpoints[s] = "idle"
              THEN unidling[s] = lister[s] /\ main[s] = none
              ELSE main[s] = lister[s] /\ unidling[s] = none
=============================================================================
