--------------------------- MODULE VNIDAssignment ---------------------------
(***************************************************************************)
(* What the VNID master promises about the NetNamespace objects, with no   *)
(* map, allocator, informer or version in sight: a namespace is given a    *)
(* VNID that nobody has, and shares one only by becoming global or by      *)
(* joining a namespace that has it.                                        *)
(***************************************************************************)
EXTENDS Integers

CONSTANTS Namespaces, Default, MinVNID, MaxVNID
VARIABLE assigned  \* the VNID of every namespace

GlobalVNID == 0
NoVNID == -1

Unused == {id \in MinVNID .. MaxVNID : \A n \in Namespaces : assigned[n] # id}

Has(n) == assigned[n] # NoVNID

Renumbered(n, id) == assigned' = [assigned EXCEPT ![n] = id]

Assign(n, id) ==
  /\ ~Has(n)
  /\ IF n = Default THEN id = GlobalVNID ELSE id \in Unused
  /\ Renumbered(n, id)

Revoke(n) == Has(n) /\ n # Default /\ Renumbered(n, NoVNID)

MakeGlobal(n) == Has(n) /\ Renumbered(n, GlobalVNID)

Join(n, m) == Has(n) /\ Has(m) /\ Renumbered(n, assigned[m])

Isolate(n, id) == Has(n) /\ n # Default /\ id \in Unused /\ Renumbered(n, id)

Init == assigned = [n \in Namespaces |-> NoVNID]

Next ==
  \E n \in Namespaces :
    \/ \E id \in {GlobalVNID} \cup MinVNID .. MaxVNID : Assign(n, id) \/ Isolate(n, id)
    \/ Revoke(n) \/ MakeGlobal(n)
    \/ \E m \in Namespaces : Join(n, m)

Spec == Init /\ [][Next]_assigned
=============================================================================
