------------------------ MODULE SubnetSafety_proofs -------------------------
(***************************************************************************)
(* The theorems about SubnetMaster.                                        *)
(***************************************************************************)
EXTENDS SubnetOwnership_proofs, SubnetLost_proofs, FiniteSetTheorems, WellFoundedInduction

\* Time enough for a leaf on a slow or busy machine.
USE SMTT(60)

\* The facts the lemmas need of finite sets and of Min.
LEMMA FactsHold == Facts
<1>1. MinFact
  <2> SUFFICES ASSUME NEW I \in SUBSET Nat, I # {}
               PROVE  Min(I) \in I /\ \A i \in I : Min(I) <= i
    BY DEF MinFact
  <2>1. \E i \in I : \A j \in I : ~(<<j, i>> \in OpToRel(<, Nat))
    BY NatLessThanWellFounded, WFMin, Zenon
  <2>2. PICK i \in I : \A j \in I : ~(<<j, i>> \in OpToRel(<, Nat))
    BY <2>1, Zenon
  <2>3. \A j \in I : i <= j
    <3> TAKE j \in I
    <3>1. i \in Nat /\ j \in Nat
      OBVIOUS
    <3>2. ~(j < i)
      BY <2>2, <3>1, Zenon DEF OpToRel
    <3> QED
      BY <3>1, <3>2
  <2> QED
    BY <2>3, Zenon DEF Min
<1>2. \A names \in SUBSET Names : Cardinality(names) \in Nat
  BY NamesAssumption, FS_Subset, FS_CardinalityType, Zenon
<1> QED
  BY <1>1, <1>2, Zenon DEF Facts

\* The inductive invariant: every subnet that is not loose has at most one name
\* that it is, was or is going to be the subnet of.
THEOREM Invariance == Spec => []IInv
<1>1. Init => IInv
  BY InitStatic, InitOwnership, Zenon DEF IInv
<1>2. IInv /\ [Next]_vars => IInv'
  <2> SUFFICES ASSUME IInv, [Next]_vars
               PROVE  IInv'
    OBVIOUS
  <2>1. PICK own : Static(own)
    BY Zenon DEF IInv
  <2>2. Static(own)' /\ Ownership'
    BY <2>1, FactsHold, NextStatic, NextOwned, Zenon DEF IInv
  <2> QED
    BY <2>2, Zenon DEF IInv
<1> QED
  BY <1>1, <1>2, PTL DEF Spec

\* The objects, the informers, the allocators and the goroutines are what they
\* may be, however many nodes, networks and failures there are.
THEOREM TypeCorrect == Spec => []TypeOK
<1>1. IInv => TypeOK
  BY InvImplies, Zenon
<1> QED
  BY <1>1, Invariance, PTL

\* No two HostSubnets have one subnet, unless it is loose: free at the list of
\* initSubnetAllocators with its release still to come, or released by addNode after a
\* Create that was carried out and returned an error.
THEOREM SubnetsDisjoint == Spec => []DisjointSubnets
<1>1. IInv => DisjointSubnets
  BY InvImplies, Zenon
<1> QED
  BY <1>1, Invariance, PTL

\* Once the master has started, every subnet of a HostSubnet is taken, unless it is loose
\* in either of these ways.
THEOREM StoredTaken == Spec => []StoredIsTaken
<1>1. IInv => StoredIsTaken
  BY InvImplies, Zenon
<1> QED
  BY <1>1, Invariance, PTL

\* The inductive invariant of the histories.
OrderInv == (\E own : Static(own)) /\ InOrderOfEvents

\* While both handlers run no step loses a subnet: whatever the goroutines, calls
\* that fail, late events, resyncs and users do, one that is taken belongs to a
\* HostSubnet or is going to be released.
THEOREM NoneLost == Spec => NoSubnetLost
<1> DEFINE A == phase = "running" /\ phase' = "running" => Lost' \subseteq Lost
<1>1. Init => OrderInv
  BY InitStatic, InitOrder, Zenon DEF OrderInv
<1>2. ASSUME OrderInv, [Next]_vars
      PROVE  OrderInv' /\ A
  <2>1. PICK own : Static(own)
    BY <1>2, Zenon DEF OrderInv
  <2>2. Static(own)' /\ InOrderOfEvents' /\ A
    BY <1>2, <2>1, FactsHold, NextStatic, NextOrder, Zenon DEF OrderInv
  <2> HIDE DEF A
  <2> QED
    BY <2>2, Zenon DEF OrderInv
<1> HIDE DEF A
<1>3. OrderInv /\ [Next]_vars => [A]_vars
  BY <1>2
<1>4. OrderInv /\ [Next]_vars => OrderInv'
  BY <1>2, Zenon
<1>5. Spec => [][A]_vars
  BY <1>1, <1>3, <1>4, PTL DEF Spec
<1> QED
  BY <1>5, Zenon DEF NoSubnetLost, A
=============================================================================
