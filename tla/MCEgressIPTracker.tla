-------------------------- MODULE MCEgressIPTracker --------------------------
(***************************************************************************)
(* Instances of EgressIPTracker for TLC: two nodes, two namespaces and two *)
(* egress IPs, three addresses for the nodes.                              *)
(***************************************************************************)
EXTENDS EgressIPTracker

CONSTANTS x, y

\* Every HostSubnet keeps its UID, and every NetNamespace its NetID (a name and
\* what it stands for are one model value, so that both can be permuted).
OneUID == [h \in Hosts |-> {h}]
OneVNID == [n \in Namespaces |-> {n}]

AllLists == {<<>>, <<x>>, <<y>>, <<x, y>>, <<y, x>>, <<x, x>>, <<y, y>>}

Interchangeable ==
  UNION {Permutations(S) : S \in {NodeIPs, Hosts, Namespaces, EgressIPs}}
=============================================================================
