----------------------------- MODULE SetMempool -----------------------------
(***************************************************************************)
(* What the rest of the node takes the mempool for: a bounded set of       *)
(* transactions, no two of which spend the same output, that changes by    *)
(* one transaction at a time.  Node uses the mempool in this form.         *)
(***************************************************************************)
EXTENDS Integers, FiniteSets

CONSTANT MaxSize  \* max_size

VARIABLE members  \* transactions [id, ins, ...]

Fits(tx) == \A other \in members : tx.ins \cap other.ins = {}

AddMember ==
  \E tx \in members' \ members :
    /\ members' = members \cup {tx}
    /\ Fits(tx)
    /\ Cardinality(members) < MaxSize

DropMember == \E tx \in members : members' = members \ {tx}

SetInit == members = {}

SetSpec == SetInit /\ [][AddMember \/ DropMember]_members
=============================================================================
