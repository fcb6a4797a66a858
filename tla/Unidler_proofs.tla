--------------------------- MODULE Unidler_proofs ---------------------------
(***************************************************************************)
(* Proofs about Unidler, for every number of connections, limit of held    *)
(* connections, timeout and bound on what happens.                         *)
(***************************************************************************)
EXTENDS Unidler, WellFoundedInduction, TLAPS

\* Time enough for a leaf on a slow or busy machine.
USE SMTT(60)

\* What the proofs need of the constants.
Assumptions ==
  /\ MaxHeldConnections \in Nat \ {0}
  /\ needPodsWaitTimeout \in Nat
  /\ none \notin Conns
  /\ \A s \in Scenarios : s.protocol \in {"TCP", "UDP"}

-----------------------------------------------------------------------------
(* Lemmas about the list of connections.                                   *)

\* A set of indices of a sequence has a smallest element, and Min is that.
LEMMA MinOfIndices ==
  ASSUME NEW n \in Nat, NEW I \in SUBSET (1 .. n), I # {}
  PROVE  Min(I) \in I /\ \A j \in I : Min(I) <= j
<1>1. I \subseteq Nat
  OBVIOUS
<1>2. \E i \in I : \A j \in I : ~(<<j, i>> \in OpToRel(<, Nat))
  BY <1>1, NatLessThanWellFounded, WFMin, Zenon
<1>3. PICK i \in I : \A j \in I : ~(<<j, i>> \in OpToRel(<, Nat))
  BY <1>2, Zenon
<1>4. \A j \in I : i <= j
  <2> TAKE j \in I
  <2>1. i \in Nat /\ j \in Nat
    BY <1>1
  <2>2. ~(j < i)
    BY <1>3, <2>1, Zenon DEF OpToRel
  <2> QED
    BY <2>1, <2>2
<1> QED
  BY <1>4, Zenon DEF Min

\* cleanOldConnections leaves at least one connection on a list that is not empty.
LEMMA CleanKeepsOne ==
  ASSUME held \in Seq(Conns \X Nat), NEW now \in Nat
  PROVE  /\ cleanInd(now) \in Nat
         /\ cleanInd(now) <= Len(held)
         /\ held # <<>> => cleanInd(now) < Len(held)
<1> DEFINE I == {i \in 1 .. Len(held) : Young(held[i], now)}
<1>1. cleanInd(now) = IF I = {} THEN 0 ELSE Min(I) - 1
  BY DEF cleanInd
<1>2. Len(held) \in Nat /\ (held # <<>> => Len(held) > 0)
  OBVIOUS
<1>3. I # {} => Min(I) \in 1 .. Len(held)
  BY <1>2, MinOfIndices, Zenon
<1> HIDE DEF I
<1> QED
  BY <1>1, <1>2, <1>3

-----------------------------------------------------------------------------
(* The inductive invariant.                                                *)

HeldConns == HeldUpTo(Len(held))

\* The types that the other conjuncts need.
Types ==
  /\ protocol \in {"TCP", "UDP"}
  /\ conn \in [Conns -> {"new", "accepted", "proxied", "closed"}]
  /\ inConn \in Conns \cup {none} /\ received \in Conns \cup {none}
  /\ held \in Seq(Conns \X Nat)
  /\ clock \in Nat /\ waiters \in Nat /\ closes \in Nat
  /\ timer \in Nat /\ silence \in Nat /\ signals \in Nat /\ bursts \in Nat
  /\ timeoutStarted \in BOOLEAN

\* Which goroutine may have a connection in its hand where ProxyLoop is.
Places ==
  /\ loop \in IF protocol = "TCP"
             THEN {"start", "select", "received", "waiting", "done"}
             ELSE {"start", "first", "burst", "done"}
  /\ inConn # none => loop \in {"select", "received"}
  /\ received # none <=> loop = "received"
  /\ loop \in {"start", "first", "burst"} => held = <<>>

\* A connection is in one place only.
Distinct ==
  /\ \A i, j \in 1 .. Len(held) : held[i][1] = held[j][1] => i = j
  /\ inConn \notin HeldConns /\ received \notin HeldConns
  /\ inConn # none => inConn # received

\* Every accepted connection is somewhere.
Accepted ==
  {c \in Conns : conn[c] = "accepted"}
    = IF loop = "done" THEN {} ELSE HeldConns \cup ({inConn, received} \ {none})

\* The first connection of the list starts the only waiter.
OneWaiter ==
  /\ closes + waiters <= 1
  /\ held = <<>> /\ loop # "done" => closes + waiters = 0

Limit == Len(held) <= MaxHeldConnections

\* NeedPods: once by the TCP socket; in the UDP socket, the timer has expired
\* exactly when the last packet is long enough ago.
Signals ==
  /\ protocol = "TCP" => signals = IF timeoutStarted THEN 1 ELSE 0
  /\ protocol = "UDP" => signals = bursts
  /\ loop = "burst" => timer = IF silence < needPodsWaitTimeout
                                THEN needPodsWaitTimeout - silence ELSE 0

IInv == Types /\ Places /\ Distinct /\ Accepted /\ OneWaiter /\ Limit /\ Signals

\* Nothing is accepted, held, awaited or asked for at first.
LEMMA InitIInv == Assumptions /\ Init => IInv
<1> SUFFICES ASSUME Assumptions, Init PROVE IInv
  OBVIOUS
<1>1. PICK s \in Scenarios : protocol = s.protocol
  BY DEF Init
<1>2. protocol \in {"TCP", "UDP"}
  BY <1>1 DEF Assumptions
<1>3. Len(held) = 0 /\ HeldConns = {} /\ held \in Seq(Conns \X Nat) /\ held = <<>>
  BY DEF Init, HeldConns, HeldUpTo
<1>4. Types
  <2>1. conn = [c \in Conns |-> "new"] /\ inConn = none /\ received = none
    BY DEF Init
  <2>2. /\ clock = 0 /\ waiters = 0 /\ closes = 0 /\ timer = 0 /\ silence = 0
        /\ signals = 0 /\ bursts = 0
    BY DEF Init
  <2>3. timeoutStarted \in BOOLEAN
    BY Zenon DEF Init
  <2> QED
    BY <1>2, <1>3, <2>1, <2>2, <2>3 DEF Types
<1>5. Places
  BY <1>2, <1>3 DEF Init, Places
<1>6. Distinct
  BY <1>3 DEF Init, Distinct, Assumptions
<1>7. Accepted
  BY <1>3 DEF Init, Accepted
<1>8. OneWaiter /\ Limit /\ Signals
  BY <1>3 DEF Init, OneWaiter, Limit, Signals, Assumptions
<1> QED
  BY <1>4, <1>5, <1>6, <1>7, <1>8 DEF IInv

-----------------------------------------------------------------------------
(* The steps that leave the list and the connections alone.                *)

\* The list stays as it is.
LEMMA SameList ==
  ASSUME UNCHANGED held
  PROVE  HeldConns' = HeldConns /\ Len(held') = Len(held)
BY DEF HeldConns, HeldUpTo

\* Starting, closing the socket and the endpoints coming and going.
LEMMA OutsideSteps ==
  ASSUME IInv, start \/ closeSocket \/ endpointsChange \/ UNCHANGED vars
  PROVE  IInv'
<1>1. /\ UNCHANGED <<protocol, conn, inConn, received, held, clock, timeoutStarted, waiters,
                     closes, timer, silence, signals, bursts>>
      /\ \/ UNCHANGED loop
         \/ loop = "start" /\ loop' = "done"
         \/ loop = "start" /\ loop' = IF protocol = "TCP" THEN "select" ELSE "first"
  BY Zenon DEF start, closeSocket, endpointsChange, vars, tcpVars, udpVars
<1>2. HeldConns' = HeldConns /\ Len(held') = Len(held)
  BY <1>1, SameList
<1>3. Types'
  BY <1>1 DEF IInv, Types
<1>4. Places'
  BY <1>1 DEF IInv, Places, Types
<1>5. Distinct'
  BY <1>1, <1>2 DEF IInv, Distinct
<1>6. loop = "start" => HeldConns = {} /\ inConn = none /\ received = none
  BY DEF IInv, Places, HeldConns, HeldUpTo
<1>7. Accepted'
  BY <1>1, <1>2, <1>6 DEF IInv, Accepted
<1>8. OneWaiter' /\ Limit'
  BY <1>1, <1>2 DEF IInv, OneWaiter, Limit
<1>9. Signals'
  BY <1>1 DEF IInv, Signals
<1> QED
  BY <1>3, <1>4, <1>5, <1>7, <1>8, <1>9 DEF IInv

\* The listener is closed; waitForEndpoints has seen endpoints.
LEMMA WaitingSteps ==
  ASSUME IInv, awakened \/ waitForEndpoints
  PROVE  IInv'
<1>1. /\ UNCHANGED <<protocol, conn, inConn, received, held, clock, timeoutStarted, timer,
                     silence, signals, bursts>>
      /\ \/ UNCHANGED <<waiters, closes>> /\ inConn = none /\ loop = "select"
            /\ loop' = "waiting" /\ protocol = "TCP"
         \/ UNCHANGED loop /\ waiters > 0 /\ waiters' = waiters - 1 /\ closes' = closes + 1
  BY Zenon DEF awakened, waitForEndpoints, tcpVars, udpVars
<1>2. HeldConns' = HeldConns /\ Len(held') = Len(held)
  BY <1>1, SameList
<1>3. Types'
  BY <1>1 DEF IInv, Types
<1>4. Places'
  BY <1>1 DEF IInv, Places
<1>5. Distinct'
  BY <1>1, <1>2 DEF IInv, Distinct
<1>6. Accepted'
  BY <1>1, <1>2 DEF IInv, Accepted
<1>7. OneWaiter' /\ Limit'
  BY <1>1, <1>2 DEF IInv, OneWaiter, Limit, Types
<1>8. Signals'
  BY <1>1 DEF IInv, Signals
<1> QED
  BY <1>3, <1>4, <1>5, <1>6, <1>7, <1>8 DEF IInv

\* The UDP socket.
LEMMA DatagramSteps ==
  ASSUME Assumptions, IInv, packet \/ udpTick \/ readFails
  PROVE  IInv'
<1>1. /\ UNCHANGED <<protocol, conn, inConn, received, held, clock, timeoutStarted, waiters,
                     closes>>
      /\ protocol = "UDP" /\ loop \in {"first", "burst"} /\ loop' \in {"burst", "done"}
  BY Zenon DEF packet, udpTick, readFails, tcpVars
<1>2. HeldConns' = HeldConns /\ Len(held') = Len(held)
  BY <1>1, SameList
<1>3. held = <<>> /\ HeldConns = {} /\ inConn = none /\ received = none
  BY <1>1 DEF IInv, Places, HeldConns, HeldUpTo
<1> DEFINE Timer(l, t, d) ==
             l = "burst" => t = IF d < needPodsWaitTimeout
                                THEN needPodsWaitTimeout - d ELSE 0
<1>4. /\ timer' \in Nat /\ silence' \in Nat /\ signals' \in Nat /\ bursts' \in Nat
      /\ signals' = bursts' /\ Timer(loop', timer', silence')
  <2>0. /\ timer \in Nat /\ silence \in Nat /\ signals \in Nat /\ bursts \in Nat
        /\ signals = bursts /\ Timer(loop, timer, silence) /\ needPodsWaitTimeout \in Nat
    BY <1>1 DEF IInv, Types, Signals, Assumptions
  <2>1. CASE packet
    BY <1>1, <2>0, <2>1 DEF packet
  <2>2. CASE udpTick
    BY <2>0, <2>2 DEF udpTick
  <2>3. CASE readFails
    BY <2>0, <2>3 DEF readFails, udpVars
  <2> QED
    BY <2>1, <2>2, <2>3
<1>5. Types'
  BY <1>1, <1>4 DEF IInv, Types
<1>6. Places'
  BY <1>1, <1>3 DEF IInv, Places
<1>7. Distinct'
  BY <1>1, <1>2 DEF IInv, Distinct
<1>8. Accepted'
  BY <1>1, <1>2, <1>3 DEF IInv, Accepted
<1>9. OneWaiter' /\ Limit'
  BY <1>1, <1>2 DEF IInv, OneWaiter, Limit
<1>10. Signals'
  BY <1>1, <1>4 DEF Signals
<1> QED
  BY <1>5, <1>6, <1>7, <1>8, <1>9, <1>10 DEF IInv

-----------------------------------------------------------------------------
(* The steps that move connections.                                        *)

\* A connection is accepted.
LEMMA AcceptStep ==
  ASSUME Assumptions, IInv, acceptConns
  PROVE  IInv'
<1>1. PICK c \in Conns : conn[c] = "new" /\ conn' = [conn EXCEPT ![c] = "accepted"] /\ inConn' = c
  BY Zenon DEF acceptConns
<1>2. /\ UNCHANGED <<protocol, loop, received, held, clock, timeoutStarted, waiters, closes,
                     timer, silence, signals, bursts>>
      /\ loop \in {"select", "received"} /\ inConn = none
  BY Zenon DEF acceptConns, udpVars
<1>3. HeldConns' = HeldConns /\ Len(held') = Len(held)
  BY <1>2, SameList
<1>4. c \notin HeldConns /\ c # received /\ c # none
  BY <1>1, <1>2 DEF IInv, Accepted, Types, Assumptions
<1>5. Types'
  BY <1>1, <1>2 DEF IInv, Types
<1>6. Places'
  BY <1>1, <1>2 DEF IInv, Places
<1>7. Distinct'
  BY <1>1, <1>2, <1>3, <1>4 DEF IInv, Distinct
<1>8. Accepted'
  BY <1>1, <1>2, <1>3, <1>4 DEF IInv, Accepted, Types
<1>9. OneWaiter' /\ Limit' /\ Signals'
  BY <1>2, <1>3 DEF IInv, OneWaiter, Limit, Signals
<1> QED
  BY <1>5, <1>6, <1>7, <1>8, <1>9 DEF IInv

\* awaitAwakening receives a connection.
LEMMA ReceiveStep ==
  ASSUME Assumptions, IInv, receiveConn
  PROVE  IInv'
<1>1. /\ UNCHANGED <<protocol, conn, held, clock, waiters, closes, timer, silence, bursts>>
      /\ loop = "select" /\ loop' = "received" /\ inConn # none
      /\ received' = inConn /\ inConn' = none
  BY Zenon DEF receiveConn, udpVars
<1>2. HeldConns' = HeldConns /\ Len(held') = Len(held)
  BY <1>1, SameList
<1>3. protocol = "TCP" /\ received = none
  BY <1>1 DEF IInv, Places, Types
<1>4. \/ UNCHANGED <<timeoutStarted, signals>>
      \/ ~timeoutStarted /\ timeoutStarted' = TRUE /\ signals' = signals + 1
  BY Zenon DEF receiveConn
<1>5. Types'
  <2>1. signals' \in Nat
    BY <1>4 DEF IInv, Types
  <2>2. timeoutStarted' \in BOOLEAN
    BY <1>4, Zenon DEF IInv, Types
  <2> QED
    BY <1>1, <2>1, <2>2 DEF IInv, Types
<1>6. Places'
  BY <1>1 DEF IInv, Places
<1>7. Distinct'
  BY <1>1, <1>2, <1>3 DEF IInv, Distinct
<1>8. Accepted'
  BY <1>1, <1>2, <1>3 DEF IInv, Accepted
<1>9. OneWaiter' /\ Limit'
  BY <1>1, <1>2 DEF IInv, OneWaiter, Limit
<1>10. Signals'
  BY <1>1, <1>3, <1>4 DEF IInv, Signals
<1> QED
  BY <1>5, <1>6, <1>7, <1>8, <1>9, <1>10 DEF IInv

Names(f, n) == {f[i][1] : i \in 1 .. n}

NoneTwice(f, n) == \A i, j \in 1 .. n : f[i][1] = f[j][1] => i = j

\* g is f (of length n) without its first k entries.
Shifted(f, g, n, k) == \A i \in 1 .. n - k : g[i] = f[i + k]

\* g is f (of length n) and then an entry of c.
Appended(f, g, n, c) == g[n + 1][1] = c /\ \A i \in 1 .. n : g[i] = f[i]

\* What is left of a list without its first k entries: no connection twice, and
\* the connections of the list that are not among those k.
LEMMA ShiftNames ==
  ASSUME NEW n \in Nat, NEW k \in 0 .. n, NEW f, NEW g, Shifted(f, g, n, k), NoneTwice(f, n)
  PROVE  NoneTwice(g, n - k) /\ Names(g, n - k) = Names(f, n) \ Names(f, k)
<1> USE DEF Shifted, NoneTwice, Names
<1>1. \A i \in 1 .. n - k : i + k \in 1 .. n /\ ~ (i + k \in 1 .. k) /\ i \in Int
  OBVIOUS
<1>2. ASSUME NEW i \in 1 .. n - k, NEW j \in 1 .. n - k, g[i][1] = g[j][1] PROVE i = j
  <2>1. f[i + k][1] = f[j + k][1]
    BY <1>2
  <2>2. i + k = j + k
    BY <1>1, <2>1
  <2> QED
    BY <1>1, <2>2
<1>3. ASSUME NEW i \in 1 .. n - k
      PROVE  g[i][1] \in {f[j][1] : j \in 1 .. n} \ {f[j][1] : j \in 1 .. k}
  <2>1. g[i][1] = f[i + k][1] /\ i + k \in 1 .. n /\ ~ (i + k \in 1 .. k)
    BY <1>1
  <2>2. 1 .. k \subseteq 1 .. n
    OBVIOUS
  <2>3. \A j \in 1 .. k : f[j][1] # f[i + k][1]
    BY <2>1, <2>2
  <2> QED
    BY <2>1, <2>3
<1>4. ASSUME NEW i \in 1 .. n, ~ (i \in 1 .. k) PROVE f[i][1] \in {g[j][1] : j \in 1 .. n - k}
  <2>1. i - k \in 1 .. n - k /\ (i - k) + k = i
    BY <1>4
  <2>2. g[i - k] = f[i]
    BY <2>1
  <2> QED
    BY <2>1, <2>2
<1> QED
  BY <1>2, <1>3, <1>4

\* A list with a new connection behind it: still no connection twice.
LEMMA AppendNames ==
  ASSUME NEW n \in Nat, NEW f, NEW g, NEW c, Appended(f, g, n, c), c \notin Names(f, n),
         NoneTwice(f, n)
  PROVE  NoneTwice(g, n + 1) /\ Names(g, n + 1) = Names(f, n) \cup {c}
<1>1. 1 .. n + 1 = (1 .. n) \cup {n + 1}
  OBVIOUS
<1> QED
  BY <1>1 DEF Appended, NoneTwice, Names

\* Add closes the first connection of a full list or none, and puts the new one behind the rest.
LEMMA AddShape ==
  ASSUME Assumptions, IInv, NEW c \in Conns, c \notin HeldConns, Add(c)
  PROVE  /\ held' \in Seq(Conns \X Nat) /\ held' # <<>>
         /\ Len(held') <= MaxHeldConnections
         /\ NoneTwice(held', Len(held'))
         /\ \E dropped \in SUBSET HeldConns :
              /\ HeldConns' = (HeldConns \ dropped) \cup {c}
              /\ conn' = [d \in Conns |-> IF d \in dropped THEN "closed" ELSE conn[d]]
<1>1. /\ held \in Seq(Conns \X Nat) /\ Len(held) \in Nat /\ clock \in Nat
      /\ conn \in [Conns -> {"new", "accepted", "proxied", "closed"}]
  BY DEF IInv, Types
<1>2. NoneTwice(held, Len(held))
  BY DEF IInv, Distinct, NoneTwice
<1>3. MaxHeldConnections \in Nat \ {0} /\ Len(held) <= MaxHeldConnections
  BY DEF IInv, Limit, Assumptions
<1>4. HeldConns = Names(held, Len(held)) /\ HeldConns' = Names(held', Len(held'))
  BY DEF HeldConns, HeldUpTo, Names
<1>5. CASE Len(held) >= MaxHeldConnections
  <2>1. /\ held' = Append(Tail(held), <<c, clock>>)
        /\ conn' = [conn EXCEPT ![Head(held)[1]] = "closed"]
    BY <1>5 DEF Add
  <2>2. Len(held) > 0 /\ held # <<>> /\ Head(held) = held[1]
    BY <1>1, <1>3, <1>5
  <2>3. /\ Tail(held) \in Seq(Conns \X Nat) /\ Len(Tail(held)) = Len(held) - 1
        /\ \A i \in 1 .. Len(held) - 1 : Tail(held)[i] = held[i + 1]
    BY <1>1, <2>2
  <2>4. PICK n \in Nat : n = Len(held) - 1
    BY <1>1, <2>2
  <2>5. /\ held' \in Seq(Conns \X Nat) /\ Len(held') = n + 1
        /\ Appended(Tail(held), held', n, c)
    BY <1>1, <2>1, <2>2, <2>3, <2>4 DEF Appended
  <2>6. NoneTwice(Tail(held), n) /\ Names(Tail(held), n) = HeldConns \ Names(held, 1)
    <3>1. /\ Len(held) \in Nat /\ 1 \in 0 .. Len(held) /\ Len(held) - 1 = n
          /\ Shifted(held, Tail(held), Len(held), 1)
      BY <1>1, <2>2, <2>3, <2>4 DEF Shifted
    <3> QED
      BY <1>2, <1>4, <3>1, ShiftNames
  <2>7. Names(held, 1) = {held[1][1]} /\ held[1][1] \in HeldConns
    BY <1>1, <1>4, <2>2 DEF Names
  <2>8. NoneTwice(held', n + 1) /\ Names(held', n + 1) = Names(Tail(held), n) \cup {c}
    <3>1. c \notin Names(Tail(held), n) /\ n \in Nat
      BY <2>4, <2>6
    <3> QED
      BY <2>5, <2>6, <3>1, AppendNames
  <2>9. HeldConns' = (HeldConns \ {held[1][1]}) \cup {c}
    BY <1>4, <2>5, <2>6, <2>7, <2>8
  <2>10. conn' = [d \in Conns |-> IF d \in {held[1][1]} THEN "closed" ELSE conn[d]]
    BY <1>1, <2>1, <2>2, Zenon
  <2>11. held' # <<>> /\ Len(held') <= MaxHeldConnections
    BY <1>3, <2>2, <2>4, <2>5
  <2>12. {held[1][1]} \in SUBSET HeldConns
    BY <2>7
  <2> QED
    BY <2>5, <2>8, <2>9, <2>10, <2>11, <2>12, Zenon
<1>6. CASE Len(held) < MaxHeldConnections
  <2>1. held' = Append(held, <<c, clock>>) /\ conn' = conn
    BY <1>1, <1>3, <1>6 DEF Add
  <2>2. /\ held' \in Seq(Conns \X Nat) /\ Len(held') = Len(held) + 1
        /\ Appended(held, held', Len(held), c)
    BY <1>1, <2>1 DEF Appended
  <2>3. NoneTwice(held', Len(held) + 1) /\ Names(held', Len(held) + 1) = HeldConns \cup {c}
    BY <1>1, <1>2, <1>4, <2>2, AppendNames
  <2>4. held' # <<>> /\ Len(held') <= MaxHeldConnections
    BY <1>1, <1>3, <1>6, <2>2
  <2>5. \E dropped \in SUBSET HeldConns :
           /\ HeldConns' = (HeldConns \ dropped) \cup {c}
           /\ conn' = [d \in Conns |-> IF d \in dropped THEN "closed" ELSE conn[d]]
    <3>1. {} \in SUBSET HeldConns
      BY Zenon
    <3> QED
      BY <1>1, <1>4, <2>1, <2>2, <2>3, <3>1, Zenon
  <2> QED
    BY <2>2, <2>3, <2>4, <2>5, Zenon
<1>7. Len(held) >= MaxHeldConnections \/ Len(held) < MaxHeldConnections
  BY <1>1, <1>3
<1> QED
  BY <1>5, <1>6, <1>7, Zenon

\* The received connection is put on the list.
LEMMA HoldStep ==
  ASSUME Assumptions, IInv, holdConn
  PROVE  IInv'
<1>1. /\ UNCHANGED <<protocol, inConn, clock, timeoutStarted, closes, timer, silence, signals,
                     bursts>>
      /\ loop = "received" /\ loop' = "select" /\ received' = none /\ Add(received)
      /\ waiters' = IF held = <<>> /\ ~hasEndpoints THEN waiters + 1 ELSE waiters
  BY Zenon DEF holdConn, udpVars
<1>2. received \in Conns /\ received \notin HeldConns /\ received # inConn /\ protocol = "TCP"
  BY <1>1 DEF IInv, Types, Places, Distinct
<1>3. /\ held' \in Seq(Conns \X Nat) /\ held' # <<>> /\ Len(held') <= MaxHeldConnections
      /\ NoneTwice(held', Len(held'))
      /\ \E dropped \in SUBSET HeldConns :
           /\ HeldConns' = (HeldConns \ dropped) \cup {received}
           /\ conn' = [d \in Conns |-> IF d \in dropped THEN "closed" ELSE conn[d]]
  BY <1>1, <1>2, AddShape, Zenon
<1>4. PICK dropped \in SUBSET HeldConns :
        /\ HeldConns' = (HeldConns \ dropped) \cup {received}
        /\ conn' = [d \in Conns |-> IF d \in dropped THEN "closed" ELSE conn[d]]
  BY <1>3
<1>5. none \notin HeldConns'
  <2>1. HeldConns \subseteq Conns
    BY DEF IInv, Types, HeldConns, HeldUpTo
  <2> QED
    BY <1>2, <1>4, <2>1 DEF Assumptions
<1>6. waiters' \in Nat /\ closes + waiters' <= 1
  BY <1>1 DEF IInv, Types, OneWaiter
<1>7. Types'
  <2>1. conn' \in [Conns -> {"new", "accepted", "proxied", "closed"}]
    BY <1>4 DEF IInv, Types
  <2>2. /\ clock' \in Nat /\ closes' \in Nat /\ timer' \in Nat /\ silence' \in Nat
        /\ signals' \in Nat /\ bursts' \in Nat /\ timeoutStarted' \in BOOLEAN
        /\ protocol' \in {"TCP", "UDP"}
        /\ inConn' \in Conns \cup {none} /\ received' \in Conns \cup {none}
    BY <1>1 DEF IInv, Types
  <2> QED
    BY <1>3, <1>6, <2>1, <2>2 DEF Types
<1>8. Places'
  BY <1>1, <1>2 DEF Places
<1>9. Distinct'
  BY <1>1, <1>2, <1>3, <1>4, <1>5 DEF IInv, Distinct, NoneTwice
<1>10. Accepted'
  <2>1. {c \in Conns : conn[c] = "accepted"} = HeldConns \cup ({inConn, received} \ {none})
    BY <1>1 DEF IInv, Accepted
  <2>2. inConn \notin HeldConns
    BY DEF IInv, Distinct
  <2>3. {c \in Conns : conn'[c] = "accepted"} = {c \in Conns : conn[c] = "accepted"} \ dropped
    BY <1>4
  <2>4. inConn \notin dropped /\ received \notin dropped
    BY <1>2, <2>2
  <2>5. {c \in Conns : conn'[c] = "accepted"} = HeldConns' \cup ({inConn, none} \ {none})
    BY <1>2, <1>4, <2>1, <2>3, <2>4 DEF Assumptions
  <2> QED
    BY <1>1, <2>5 DEF Accepted
<1>11. OneWaiter' /\ Limit'
  BY <1>1, <1>3, <1>6 DEF OneWaiter, Limit
<1>12. Signals'
  BY <1>1 DEF IInv, Signals
<1> QED
  BY <1>7, <1>8, <1>9, <1>10, <1>11, <1>12 DEF IInv

\* Old connections are closed, but never all.
LEMMA TickStep ==
  ASSUME Assumptions, IInv, tick
  PROVE  IInv'
<1>1. /\ UNCHANGED <<protocol, loop, inConn, received, timeoutStarted, waiters, closes, timer,
                     silence, signals, bursts>>
      /\ loop = "select" /\ Tick
  BY Zenon DEF tick, udpVars
<1>2. held \in Seq(Conns \X Nat) /\ Len(held) \in Nat /\ clock \in Nat
  BY DEF IInv, Types
<1>3. PICK n : n = cleanInd(clock + 1)
  OBVIOUS
<1>4. n \in Nat /\ n <= Len(held) /\ (held # <<>> => n < Len(held))
  BY <1>2, <1>3, CleanKeepsOne
<1>5. clock' = clock + 1 /\ held' = SubSeq(held, n + 1, Len(held)) /\ conn' = Close(HeldUpTo(n))
  BY <1>1, <1>3 DEF Tick
<1>6. /\ held' \in Seq(Conns \X Nat) /\ Len(held') = Len(held) - n
      /\ \A i \in 1 .. Len(held) - n : held'[i] = held[i + n]
  <2>1. /\ held' \in Seq(Conns \X Nat)
        /\ Len(held') = IF n + 1 <= Len(held) THEN Len(held) - (n + 1) + 1 ELSE 0
        /\ \A i \in 1 .. Len(held) - (n + 1) + 1 : held'[i] = held[(n + 1) + i - 1]
    BY <1>2, <1>4, <1>5
  <2> QED
    BY <1>2, <1>4, <2>1
<1>7. /\ NoneTwice(held', Len(held) - n)
      /\ Names(held', Len(held) - n) = Names(held, Len(held)) \ Names(held, n)
  <2>1. NoneTwice(held, Len(held))
    BY DEF IInv, Distinct, NoneTwice
  <2>2. n \in 0 .. Len(held)
    BY <1>2, <1>4
  <2>3. Shifted(held, held', Len(held), n)
    BY <1>6 DEF Shifted
  <2> QED
    BY <1>2, <2>1, <2>2, <2>3, ShiftNames
<1>8. HeldConns' = HeldConns \ HeldUpTo(n)
  BY <1>6, <1>7, Zenon DEF HeldConns, HeldUpTo, Names
<1>9. conn' = [c \in Conns |-> IF c \in HeldUpTo(n) THEN "closed" ELSE conn[c]]
  BY <1>5 DEF Close
<1>10. HeldUpTo(n) \subseteq HeldConns
  BY <1>2, <1>4 DEF HeldConns, HeldUpTo
<1>11. Types'
  <2>1. conn' \in [Conns -> {"new", "accepted", "proxied", "closed"}]
    BY <1>9 DEF IInv, Types
  <2>2. clock' \in Nat
    BY <1>2, <1>5
  <2> QED
    BY <1>1, <1>6, <2>1, <2>2 DEF IInv, Types
<1>12. Places'
  BY <1>1 DEF IInv, Places
<1>13. Distinct'
  BY <1>1, <1>6, <1>7, <1>8 DEF IInv, Distinct, NoneTwice
<1>14. Accepted'
  <2>1. {c \in Conns : conn[c] = "accepted"} = HeldConns \cup ({inConn, received} \ {none})
    BY <1>1 DEF IInv, Accepted
  <2>2. inConn \notin HeldConns /\ received \notin HeldConns
    BY DEF IInv, Distinct
  <2>3. {c \in Conns : conn'[c] = "accepted"}
          = {c \in Conns : conn[c] = "accepted"} \ HeldUpTo(n)
    BY <1>9
  <2>4. {c \in Conns : conn'[c] = "accepted"} = HeldConns' \cup ({inConn, received} \ {none})
    BY <1>8, <1>10, <2>1, <2>2, <2>3
  <2> QED
    BY <1>1, <2>4 DEF Accepted
<1>15. OneWaiter' /\ Limit'
  <2>1. held' = <<>> => held = <<>>
    BY <1>2, <1>4, <1>6
  <2>2. Len(held') <= MaxHeldConnections
    BY <1>2, <1>4, <1>6 DEF IInv, Limit, Assumptions
  <2> QED
    BY <1>1, <2>1, <2>2 DEF IInv, OneWaiter, Limit
<1>16. Signals'
  BY <1>1 DEF IInv, Signals
<1> QED
  BY <1>11, <1>12, <1>13, <1>14, <1>15, <1>16 DEF IInv

\* ProxyLoop ends: every held connection is proxied or closed.
LEMMA EndSteps ==
  ASSUME Assumptions, IInv, connect \/ timedOut
  PROVE  IInv'
<1>1. /\ UNCHANGED <<protocol, inConn, received, clock, timeoutStarted, waiters, closes, timer,
                     silence, signals, bursts>>
      /\ loop = "waiting" /\ loop' = "done" /\ (held' = held \/ held' = <<>>)
  BY Zenon DEF connect, timedOut, udpVars
<1>2. inConn = none /\ received = none /\ protocol = "TCP"
  BY <1>1 DEF IInv, Types, Places
<1>3. {c \in Conns : conn[c] = "accepted"} = HeldConns
  <2>1. {c \in Conns : conn[c] = "accepted"} = HeldConns \cup ({none, none} \ {none})
    BY <1>1, <1>2 DEF IInv, Accepted
  <2> QED
    BY <2>1
<1>4. /\ conn' \in [Conns -> {"new", "accepted", "proxied", "closed"}]
      /\ \A c \in Conns : conn'[c] # "accepted"
  <2>1. CASE connect
    <3>1. PICK failing \in SUBSET HeldConns :
            conn' = [c \in Conns |-> IF c \in failing THEN "closed"
                                     ELSE IF c \in HeldConns THEN "proxied" ELSE conn[c]]
      BY <2>1 DEF connect, HeldConns
    <3> QED
      BY <1>3, <3>1 DEF IInv, Types
  <2>2. CASE timedOut
    <3>1. conn' = [c \in Conns |-> IF c \in HeldConns THEN "closed" ELSE conn[c]]
      BY <2>2 DEF timedOut, HeldConns, Close
    <3> QED
      BY <1>3, <3>1 DEF IInv, Types
  <2> QED
    BY <2>1, <2>2
<1>5. /\ held' \in Seq(Conns \X Nat) /\ Len(held') <= MaxHeldConnections
      /\ NoneTwice(held', Len(held')) /\ none \notin HeldConns'
  <2>1. CASE held' = held
    <3>1. HeldConns' = HeldConns
      BY <2>1, SameList
    <3> QED
      BY <1>2, <2>1, <3>1 DEF IInv, Types, Limit, Distinct, NoneTwice
  <2>2. CASE held' = <<>>
    BY <2>2 DEF Assumptions, NoneTwice, HeldConns, HeldUpTo
  <2> QED
    BY <1>1, <2>1, <2>2
<1>6. Types'
  BY <1>1, <1>4, <1>5 DEF IInv, Types
<1>7. Places'
  BY <1>1, <1>2 DEF Places
<1>8. Distinct'
  BY <1>1, <1>2, <1>5 DEF Distinct, NoneTwice
<1>9. Accepted'
  BY <1>1, <1>4 DEF Accepted
<1>10. OneWaiter' /\ Limit'
  BY <1>1, <1>5 DEF IInv, OneWaiter, Limit
<1>11. Signals'
  BY <1>1 DEF IInv, Signals
<1> QED
  BY <1>6, <1>7, <1>8, <1>9, <1>10, <1>11 DEF IInv

-----------------------------------------------------------------------------
\* The invariant is inductive.
LEMMA StepIInv == Assumptions /\ IInv /\ [Next]_vars => IInv'
<1> SUFFICES ASSUME Assumptions, IInv, [Next]_vars PROVE IInv'
  OBVIOUS
<1>1. CASE start \/ closeSocket \/ endpointsChange
  BY <1>1, OutsideSteps
<1>2. CASE acceptConns
  BY <1>2, AcceptStep
<1>3. CASE receiveConn
  BY <1>3, ReceiveStep
<1>4. CASE holdConn
  BY <1>4, HoldStep
<1>5. CASE tick
  BY <1>5, TickStep
<1>6. CASE awakened \/ waitForEndpoints
  BY <1>6, WaitingSteps
<1>7. CASE connect \/ timedOut
  BY <1>7, EndSteps
<1>8. CASE packet \/ udpTick \/ readFails
  BY <1>8, DatagramSteps
<1>9. CASE UNCHANGED vars
  <2>1. UNCHANGED <<protocol, loop, conn, inConn, received, held, clock, timeoutStarted,
                    waiters, closes, timer, silence, signals, bursts>>
    BY <1>9, Zenon DEF vars, tcpVars, udpVars
  <2>2. HeldConns' = HeldConns /\ Len(held') = Len(held)
    BY <2>1, SameList
  <2> QED
    BY <2>1, <2>2 DEF IInv, Types, Places, Distinct, Accepted, OneWaiter, Limit, Signals
<1> QED
  BY <1>1, <1>2, <1>3, <1>4, <1>5, <1>6, <1>7, <1>8, <1>9, Zenon DEF Next

\* The sockets of the unidling proxy close endpointsAvail at most once (closing a
\* channel again panics), hold at most MaxHeldConnections connections, forget no
\* connection they accepted and leave none open when ProxyLoop is done, and send
\* NeedPods once per TCP socket and once per burst of UDP packets.
THEOREM ConnectionsCorrect == Assumptions => (Spec => []ConnectionsAccountedFor)
<1> SUFFICES ASSUME Assumptions PROVE Spec => []ConnectionsAccountedFor
  OBVIOUS
<1>1. Init => IInv
  BY InitIInv
<1>2. IInv /\ [Next]_vars => IInv'
  BY StepIInv
<1>3. IInv => ConnectionsAccountedFor
  <2> SUFFICES ASSUME IInv PROVE ConnectionsAccountedFor
    OBVIOUS
  <2>1. protocol = "TCP" => signals <= 1
    BY DEF IInv, Signals, Types
  <2> QED
    BY <2>1 DEF IInv, Accepted, OneWaiter, Limit, Signals, HeldConns, ConnectionsAccountedFor
<1> QED
  BY <1>1, <1>2, <1>3, PTL DEF Spec
=============================================================================
