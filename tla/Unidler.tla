------------------------------ MODULE Unidler ------------------------------
(***************************************************************************)
(* The sockets of the unidling proxy (pkg/network/proxyimpl/unidler/       *)
(* unidlersocket.go).  The TCP socket of an idled service accepts          *)
(* connections, asks for pods once (NeedPods) and holds the connections.   *)
(* The listener is closed when the service is given to the main proxy; the *)
(* held connections are then proxied if endpoints turned up, or closed.    *)
(* The UDP socket asks for pods once per burst of packets.                 *)
(*                                                                         *)
(* Goroutines: ProxyLoop with awaitAwakening, acceptConns, which hands it  *)
(* one connection at a time, and waitForEndpoints, which closes the        *)
(* channel endpointsAvail and must therefore run once only.                *)
(***************************************************************************)
EXTENDS Integers, Sequences, FiniteSetsExt

CONSTANTS
    Conns,
    MaxHeldConnections,
    needPodsWaitTimeout,    \* in ticks of needPodsTickLen
    none,
    Scenarios               \* the protocols and bounds of the behaviours

VARIABLES
    protocol,       \* "TCP" or "UDP"
    listening,      \* the socket is open, the service alive
    hasEndpoints,   \* loadBalancer.ServiceHasEndpoints
    loop,           \* where ProxyLoop is
    conn,           \* Conns -> "new", "accepted", "proxied" or "closed"
    inConn,         \* the connection in acceptConns' hand, or none
    received,       \* the one in awaitAwakening's, or none
    held,           \* connectionList.conns: a sequence of <<conn, connectedAt>>
    clock,          \* connectionList.timeSinceStart, in ticks
    timeoutStarted, \* timeout_started (and sent_need_pods: both are set at once)
    waiters,        \* the goroutines in waitForEndpoints
    closes,         \* how often endpointsAvail was closed
    timer,          \* UDP: ticks until wakeupTimeoutTimer fires
    silence,        \* UDP: ticks since the last packet (not in the code)
    signals,        \* the calls of NeedPods
    bursts,         \* UDP: the bursts of packets so far (not in the code)
    budget          \* bounds

tcpVars == <<conn, inConn, received, held, clock, timeoutStarted, waiters,
             closes>>
udpVars == <<timer, silence, bursts>>
vars == <<protocol, listening, hasEndpoints, loop, tcpVars, udpVars, signals,
          budget>>

Spend(field) == /\ budget[field] > 0
                /\ budget' = [budget EXCEPT ![field] = @ - 1]

-----------------------------------------------------------------------------
(* connectionList                                                          *)

\* The oldest connection is dropped when the list is full.
Add(c) ==
    LET full == Len(held) >= MaxHeldConnections
    IN /\ held' = Append(IF full THEN Tail(held) ELSE held, <<c, clock>>)
       /\ conn' = IF full THEN [conn EXCEPT ![Head(held)[1]] = "closed"]
                          ELSE conn

Young(h, now) == now - h[2] < needPodsWaitTimeout

\* How many connections cleanOldConnections closes: those before the first that
\* has not timed out, and none if all have.
cleanInd_All(now) ==
    LET young == {i \in 1 .. Len(held) : Young(held[i], now)}
    IN IF young = {} THEN Len(held) ELSE Min(young) - 1

cleanInd(now) ==
    LET young == {i \in 1 .. Len(held) : Young(held[i], now)}
    IN IF young = {} THEN 0 ELSE Min(young) - 1

HeldUpTo(n) == {held[i][1] : i \in 1 .. n}

Close(closing) == [c \in Conns |-> IF c \in closing THEN "closed" ELSE conn[c]]

Tick ==
    LET n == cleanInd(clock + 1)
    IN /\ clock' = clock + 1
       /\ held' = SubSeq(held, n + 1, Len(held))
       /\ conn' = Close(HeldUpTo(n))

-----------------------------------------------------------------------------
(* tcpUnidlerSocket                                                        *)

\* acceptConns: Accept returns a connection, which then waits for the loop.
acceptConns ==
    /\ protocol = "TCP" /\ loop \in {"select", "received"}
    /\ listening /\ inConn = none
    /\ \E c \in {d \in Conns : conn[d] = "new"} :
          /\ conn' = [conn EXCEPT ![c] = "accepted"]
          /\ inConn' = c
    /\ UNCHANGED <<protocol, listening, hasEndpoints, loop, received, held,
                   clock, timeoutStarted, waiters, closes, udpVars, signals,
                   budget>>

\* awaitAwakening receives a connection: NeedPods is sent once ...
receiveConn ==
    /\ loop = "select" /\ inConn # none
    /\ received' = inConn
    /\ inConn' = none
    /\ loop' = "received"
    /\ IF ~timeoutStarted /\ ~hasEndpoints
         THEN timeoutStarted' = TRUE /\ signals' = signals + 1
         ELSE UNCHANGED <<timeoutStarted, signals>>
    /\ UNCHANGED <<protocol, listening, hasEndpoints, conn, held, clock,
                   waiters, closes, udpVars, budget>>

\* ... the endpoints are asked for a second time, and the connection is held.
holdConn ==
    /\ loop = "received"
    /\ waiters' = IF held = <<>> /\ ~hasEndpoints THEN waiters + 1 ELSE waiters
    /\ Add(received)
    /\ received' = none
    /\ loop' = "select"
    /\ UNCHANGED <<protocol, listening, hasEndpoints, inConn, clock,
                   timeoutStarted, closes, udpVars, signals, budget>>

tick ==
    /\ loop = "select" /\ protocol = "TCP"
    /\ timeoutStarted
    /\ Spend("ticks")
    /\ Tick
    /\ UNCHANGED <<protocol, listening, hasEndpoints, loop, inConn, received,
                   timeoutStarted, waiters, closes, udpVars, signals>>

\* The listener is closed and acceptConns has closed the channel.
awakened ==
    /\ loop = "select" /\ protocol = "TCP"
    /\ ~listening /\ inConn = none
    /\ loop' = "waiting"
    /\ UNCHANGED <<protocol, listening, hasEndpoints, tcpVars, udpVars, signals,
                   budget>>

waitForEndpoints ==
    /\ waiters > 0
    /\ hasEndpoints
    /\ waiters' = waiters - 1
    /\ closes' = closes + 1
    /\ UNCHANGED <<protocol, listening, hasEndpoints, loop, conn, inConn,
                   received, held, clock, timeoutStarted, udpVars, signals,
                   budget>>

\* The rest of ProxyLoop: with endpoints, every held connection is connected or,
\* where that fails, closed; after the timeout, all of them are closed.
connect ==
    /\ loop = "waiting"
    /\ closes > 0
    /\ \E failing \in SUBSET HeldUpTo(Len(held)) :
          conn' = [c \in Conns |-> IF c \in failing THEN "closed"
                                   ELSE IF c \in HeldUpTo(Len(held))
                                   THEN "proxied" ELSE conn[c]]
    /\ loop' = "done"
    /\ UNCHANGED <<protocol, listening, hasEndpoints, inConn, received, held,
                   clock, timeoutStarted, waiters, closes, udpVars, signals,
                   budget>>

timedOut ==
    /\ loop = "waiting"
    /\ conn' = Close(HeldUpTo(Len(held)))
    /\ held' = <<>>
    /\ loop' = "done"
    /\ UNCHANGED <<protocol, listening, hasEndpoints, inConn, received, clock,
                   timeoutStarted, waiters, closes, udpVars, signals, budget>>

-----------------------------------------------------------------------------
(* udpUnidlerSocket: `loop' is "first" until the first packet.             *)

\* readFromSock has a packet or a temporary failure; sendWakeup sends NeedPods and starts a timer,
\* for the first packet and for every one that finds the timer expired.
packet ==
    /\ protocol = "UDP" /\ listening /\ loop \in {"first", "burst"}
    /\ Spend("packets")
    /\ loop' = "burst"
    /\ timer' = needPodsWaitTimeout
    /\ signals' = IF loop = "first" \/ timer = 0 THEN signals + 1 ELSE signals
    /\ bursts' = IF loop = "first" \/ silence >= needPodsWaitTimeout
                   THEN bursts + 1 ELSE bursts
    /\ silence' = 0
    /\ UNCHANGED <<protocol, listening, hasEndpoints, tcpVars>>

udpTick ==
    /\ protocol = "UDP" /\ loop = "burst"
    /\ Spend("ticks")
    /\ timer' = IF timer > 0 THEN timer - 1 ELSE 0
    /\ silence' = silence + 1
    /\ UNCHANGED <<protocol, listening, hasEndpoints, loop, tcpVars, signals,
                   bursts>>

\* The socket was closed, or its read fails for good.
readFails ==
    /\ protocol = "UDP" /\ loop \in {"first", "burst"}
    /\ loop' = "done"
    /\ UNCHANGED <<protocol, listening, hasEndpoints, tcpVars, udpVars, signals,
                   budget>>

-----------------------------------------------------------------------------
\* ProxyLoop starts, unless the service port was closed before.
start ==
    /\ loop = "start"
    /\ loop' = IF ~listening THEN "done"
               ELSE IF protocol = "TCP" THEN "select" ELSE "first"
    /\ UNCHANGED <<protocol, listening, hasEndpoints, tcpVars, udpVars, signals,
                   budget>>

\* The userspace proxy closes the socket when the service is deleted from it.
closeSocket ==
    /\ listening
    /\ listening' = FALSE
    /\ UNCHANGED <<protocol, hasEndpoints, loop, tcpVars, udpVars, signals,
                   budget>>

endpointsChange ==
    /\ Spend("endpoints")
    /\ hasEndpoints' = ~hasEndpoints
    /\ UNCHANGED <<protocol, listening, loop, tcpVars, udpVars, signals>>

Init ==
    \E s \in Scenarios :
        /\ protocol = s.protocol
        /\ budget = s.budget
        /\ listening = TRUE
        /\ hasEndpoints = FALSE
        /\ loop = "start"
        /\ conn = [c \in Conns |-> "new"]
        /\ inConn = none /\ received = none
        /\ held = <<>> /\ clock = 0
        /\ timeoutStarted = FALSE
        /\ waiters = 0 /\ closes = 0
        /\ timer = 0 /\ silence = 0
        /\ signals = 0 /\ bursts = 0

Next ==
    \/ start \/ closeSocket \/ endpointsChange
    \/ acceptConns \/ receiveConn \/ holdConn \/ tick \/ awakened
    \/ waitForEndpoints \/ connect \/ timedOut
    \/ packet \/ udpTick \/ readFails

Spec == Init /\ [][Next]_vars

-----------------------------------------------------------------------------
\* endpointsAvail is closed at most once, since waitForEndpoints is started only
\* for the first connection of the list and the list is never emptied again
\* while connections come in; at most MaxHeldConnections are held; no accepted
\* connection is forgotten (it is on its way to the list, in the list, proxied
\* or closed) and none is left open when ProxyLoop is done; NeedPods is sent once
\* by the TCP socket and once per burst of packets by the UDP socket.
ConnectionsAccountedFor ==
    /\ closes + waiters <= 1
    /\ Len(held) <= MaxHeldConnections
    /\ {c \in Conns : conn[c] = "accepted"}
         = IF loop = "done" THEN {}
           ELSE HeldUpTo(Len(held)) \union ({inConn, received} \ {none})
    /\ protocol = "TCP" => signals <= 1
    /\ protocol = "UDP" => signals = bursts
=============================================================================
