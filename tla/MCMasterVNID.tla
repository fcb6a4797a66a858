---------------------------- MODULE MCMasterVNID ----------------------------
(***************************************************************************)
(* Instances of MasterVNID for TLC: the default namespace and two more.    *)
(***************************************************************************)
EXTENDS MasterVNID, TLC

CONSTANTS default, a, b

Ask(action, args) == [action |-> action, args |-> args]

\* Every change but a namespace joining itself.
AllRequests ==
  [n \in Namespaces |->
     {Ask("global", n), Ask("isolate", n), Ask("invalid", n)}
       \cup {Ask("join", m) : m \in Namespaces \ {n}}]

\* No joins, except with the default namespace, which is never deleted.
LastingRequests ==
  [n \in Namespaces |->
     {Ask("global", n), Ask("isolate", n)} \cup ({Ask("join", Default)} \ {Ask("join", n)})]

\* No joins at all.
NoJoins == [n \in Namespaces |-> {Ask("global", n), Ask("isolate", n)}]

\* A namespace asked to join itself.
SelfJoins == [n \in Namespaces |-> {Ask("join", n)}]

\* Namespaces other than the default one are told apart by their names only.
Symmetry == Permutations({a, b})
=============================================================================
