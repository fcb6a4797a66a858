-------------------------- MODULE SubnetAllocator ---------------------------
(***************************************************************************)
(* The SubnetAllocator of one cluster network, and the list of allocators  *)
(* the master has, one for each cluster network.                           *)
(*                                                                         *)
(* A subnet is its first address; an allocator has a network of 2^netBits  *)
(* addresses from base on (netBits is 32 - netMaskSize), cut in subnets of *)
(* 2^hostBits.  Every operation holds the allocator's mutex throughout, so *)
(* each is an operator from one value of the allocator to the next.        *)
(***************************************************************************)
EXTENDS Integers, Sequences, FiniteSets, FiniteSetsExt

NoSubnet == -1

Shape == [base : Nat, netBits : Nat, hostBits : Nat]

\* The parameters newSubnetAllocator accepts.
ValidShape(s) == s.hostBits # 0 /\ s.hostBits <= s.netBits

newSubnetAllocator(s) ==
  [base |-> s.base, netBits |-> s.netBits, hostBits |-> s.hostBits,
   next |-> 0, allocMap |-> {}]

numSubnets(sna) == 2 ^ (sna.netBits - sna.hostBits)

InNetwork(sna, subnet) == subnet \in sna.base .. sna.base + 2 ^ sna.netBits - 1

\* hostBits is not whole octets and the subnet number reaches the next octet.
Rotates(sna) ==
  sna.hostBits % 8 # 0 /\ (sna.hostBits - 1) \div 8 # (sna.netBits - 1) \div 8

genSubnet_ShiftShort(sna, n) ==
  LET shifted == n * 2 ^ sna.hostBits
      leftShift == 8 - (sna.hostBits % 8)
      rightShift == sna.netBits - sna.hostBits - leftShift
  IN  IF ~Rotates(sna) THEN sna.base + shifted
      ELSE sna.base + ((shifted * 2 ^ leftShift) % 2 ^ sna.netBits)
             + (((shifted \div 2 ^ (rightShift + 1)) \div 2 ^ sna.hostBits) % 2 ^ leftShift)
                 * 2 ^ sna.hostBits

\* The n-th subnet in the order of allocation: the bits of n are rotated so that
\* the low ones go to the octets above the one shared with the host part.  The
\* masks are remainders, and the three parts have no bits in common, so that |
\* is +.
genSubnet(sna, n) ==
  LET shifted == n * 2 ^ sna.hostBits
      leftShift == 8 - (sna.hostBits % 8)
      rightShift == sna.netBits - sna.hostBits - leftShift
  IN  IF ~Rotates(sna) THEN sna.base + shifted
      ELSE sna.base + ((shifted * 2 ^ leftShift) % 2 ^ sna.netBits)
             + (((shifted \div 2 ^ rightShift) \div 2 ^ sna.hostBits) % 2 ^ leftShift)
                 * 2 ^ sna.hostBits

Subnets(sna) == {genSubnet(sna, n) : n \in 0 .. numSubnets(sna) - 1}

\* The i for which the (i + next)-th subnet is available.
Available(sna) ==
  {i \in 0 .. numSubnets(sna) - 1 :
     genSubnet(sna, (i + sna.next) % numSubnets(sna)) \notin sna.allocMap}

\* The number of the subnet allocateNetwork finds.
FirstAvailable(sna) == (Min(Available(sna)) + sna.next) % numSubnets(sna)

\* allocateNetwork of one allocator: what it returns (NoSubnet when full) and
\* what it leaves.
allocated(sna) ==
  IF Available(sna) = {} THEN NoSubnet ELSE genSubnet(sna, FirstAvailable(sna))

afterAllocate_NoMark(sna) ==
  IF Available(sna) = {} THEN [sna EXCEPT !.next = 0]
  ELSE [sna EXCEPT !.next = FirstAvailable(sna) + 1]

afterAllocate(sna) ==
  IF Available(sna) = {} THEN [sna EXCEPT !.next = 0]
  ELSE [sna EXCEPT !.next = FirstAvailable(sna) + 1, !.allocMap = @ \cup {allocated(sna)}]

-----------------------------------------------------------------------------
(***************************************************************************)
(* The master's methods on its list of allocators.  The cluster networks   *)
(* are disjoint, so at most one of them contains a subnet; a subnet that   *)
(* is in none, and NoSubnet, which does not parse, is an error that is     *)
(* only logged.                                                            *)
(***************************************************************************)
markAllocatedNetworks_Unchecked(list, subnets) ==
  [k \in DOMAIN list |-> [list[k] EXCEPT !.allocMap = @ \cup subnets]]

markAllocatedNetworks(list, subnets) ==
  [k \in DOMAIN list |->
     [list[k] EXCEPT !.allocMap = @ \cup {s \in subnets : InNetwork(list[k], s)}]]

releaseNetwork(list, subnet) ==
  [k \in DOMAIN list |-> [list[k] EXCEPT !.allocMap = @ \ {subnet}]]

\* The allocators that can serve a request; the first of them does, and those
\* before it are asked in vain.
WithRoom(list) == {k \in DOMAIN list : Available(list[k]) # {}}

allocateNetwork(list) ==
  LET room == WithRoom(list)
      last == IF room = {} THEN Len(list) ELSE Min(room)
  IN  [subnet |-> allocated(list[last]),
       list   |-> [k \in DOMAIN list |-> IF k <= last THEN afterAllocate(list[k]) ELSE list[k]]]

Taken(list) == UNION {list[k].allocMap : k \in DOMAIN list}

-----------------------------------------------------------------------------
\* The bits of a subnet that are in the octet it shares with the host part, and
\* those above that octet.
SharedBits(sna, subnet) ==
  ((subnet - sna.base) % 2 ^ (8 * ((sna.hostBits + 7) \div 8))) \div 2 ^ sna.hostBits
UpperBits(sna, subnet) == (subnet - sna.base) \div 2 ^ (8 * ((sna.hostBits + 7) \div 8))

\* Along the order of allocation, the subnets of sna appear by their part in the
\* shared octet first, and for each by the octets above; so none appears twice.
InOrder(sna) ==
  \A n \in 0 .. numSubnets(sna) - 2 :
    LET this == genSubnet(sna, n)
        that == genSubnet(sna, n + 1)
    IN  \/ SharedBits(sna, this) < SharedBits(sna, that)
        \/ /\ SharedBits(sna, this) = SharedBits(sna, that)
           /\ UpperBits(sna, this) < UpperBits(sna, that)

\* All of them are subnets of the network.
WithinNetwork(sna) ==
  \A subnet \in Subnets(sna) :
    InNetwork(sna, subnet) /\ (subnet - sna.base) % 2 ^ sna.hostBits = 0
=============================================================================
