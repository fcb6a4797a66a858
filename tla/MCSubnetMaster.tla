--------------------------- MODULE MCSubnetMaster ---------------------------
(***************************************************************************)
(* Instances of SubnetMaster for TLC.                                      *)
(***************************************************************************)
EXTENDS SubnetMaster, TLC

CONSTANTS n1, n2, ip1, ip2, ip3

Bounds(users, admins, faults, gaps, restarts) ==
  [users |-> users, admins |-> admins, faults |-> faults, gaps |-> gaps, restarts |-> restarts]

\* Two networks of one subnet each: one is exhausted at once, and a subnet that
\* is released is the next to be handed out.
SmallNetworks ==
  <<[base |-> 1024, netBits |-> 8, hostBits |-> 8],
    [base |-> 256, netBits |-> 8, hostBits |-> 8]>>

Small(budgets) == [networks : {SmallNetworks}, budget : budgets]

\* One network of up to 2^12 addresses, cut in every way; nobody uses it.
AllShapes ==
  {<<s>> : s \in {t \in [base : {0, 61440}, netBits : 1 .. 12, hostBits : 1 .. 12] : ValidShape(t)}}

\* Users, administrators, failures, broken watches and restarts by twos and
\* threes.  Administrators and restarts together have one network only: the
\* subnet of a HostSubnet deleted during the restart is then the one a node is
\* given.
SafetyScenarios ==
  Small({Bounds(3, 0, 1, 0, 0), Bounds(3, 0, 0, 1, 0), Bounds(3, 0, 0, 0, 1),
         Bounds(2, 0, 1, 1, 0), Bounds(2, 0, 1, 0, 1), Bounds(1, 1, 1, 0, 0),
         Bounds(0, 2, 1, 0, 1)})
    \cup [networks : {<<SmallNetworks[1]>>}, budget : {Bounds(1, 2, 0, 0, 1)}]
    \cup [networks : AllShapes, budget : {Bounds(0, 0, 0, 0, 0)}]

LivenessScenarios ==
  Small({Bounds(3, 0, 0, 0, 0), Bounds(2, 0, 2, 0, 1), Bounds(1, 1, 0, 0, 0)})

ReuseScenarios == Small({Bounds(3, 0, 0, 1, 0)})

Symmetry == Permutations({n1, n2}) \cup Permutations({ip1, ip2})
=============================================================================
