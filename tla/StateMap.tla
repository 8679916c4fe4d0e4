------------------------------ MODULE StateMap ------------------------------
(***************************************************************************)
(* The storage of the contracts of crates/zentra-runtime/src/state.rs and  *)
(* the root that commits to it, and the proofs of inclusion of             *)
(* crates/zentra-core/src/merkle.rs over a growing list of leaves.         *)
(*                                                                         *)
(* Keys and values are strings of bytes: the hash of an entry is over      *)
(* their concatenation.                                                    *)
(***************************************************************************)
EXTENDS Merkle, SequencesExt, FiniteSets

CONSTANTS
  ContractIds,   \* contract ids, numbers: they are sorted
  Keys,        \* strings of bytes
  Values,
  MaxLeaves    \* bound on the list of leaves

ASSUME StateAssumption ==
  /\ ContractIds \subseteq Nat /\ IsFiniteSet(ContractIds)
  /\ Keys \subseteq Seq(Nat) /\ IsFiniteSet(Keys)
  /\ Values \subseteq Seq(Nat)

VARIABLES
  storage,  \* contract id -> its namespace, itself a function on some keys
  txLeaves  \* the transactions of a block

stateVars == <<storage, txLeaves>>

NoEntries == [x \in {} |-> <<>>]

Removed(f, x) == [y \in DOMAIN f \ {x} |-> f[y]]
With(f, x, v) == [y \in DOMAIN f \cup {x} |-> IF y = x THEN v ELSE f[y]]

Namespace(c) == IF c \in DOMAIN storage THEN storage[c] ELSE NoEntries

StateMapInit == storage = NoEntries /\ txLeaves = <<>>

\* set.
SetEntry(c, k, v) ==
  /\ storage' = With(storage, c, With(Namespace(c), k, v))
  /\ UNCHANGED txLeaves

\* A faulty variant: an empty namespace stays.
Emptied(c, k) == With(storage, c, Removed(storage[c], k))

\* What is left after a delete: empty namespaces are cleaned up.
Deleted(c, k) ==
  IF DOMAIN storage[c] \subseteq {k} THEN Removed(storage, c)
  ELSE With(storage, c, Removed(storage[c], k))

DeleteEntry(c, k) ==
  /\ c \in DOMAIN storage
  /\ storage' = Deleted(c, k)
  /\ UNCHANGED txLeaves

ClearContract(c) ==
  /\ storage' = Removed(storage, c)
  /\ UNCHANGED txLeaves

\* The transaction list of a template grows.
AddLeaf ==
  /\ Len(txLeaves) < MaxLeaves
  /\ txLeaves' = Append(txLeaves, <<"tx", Len(txLeaves)>>)
  /\ UNCHANGED storage

StorageNext ==
  \/ \E c \in ContractIds, k \in Keys, v \in Values : SetEntry(c, k, v)
  \/ \E c \in ContractIds, k \in Keys : DeleteEntry(c, k)
  \/ \E c \in ContractIds : ClearContract(c)

StateMapNext == StorageNext \/ AddLeaf

StateMapSpec == StateMapInit /\ [][StateMapNext]_stateVars

----------------------------------------------------------------------------
(* state_root                                                              *)

\* Lexicographic order.
Before(j, k) ==
  \/ \E i \in 1..Len(k) : /\ SubSeq(j, 1, i - 1) = SubSeq(k, 1, i - 1)
                          /\ Len(j) >= i /\ j[i] < k[i]
  \/ Len(j) < Len(k) /\ SubSeq(k, 1, Len(j)) = j

\* The faulty variant leaves the contract out of the hash.
BareLeaf(c, k, v) == <<"leaf", k \o v>>
EntryHash(c, k, v) == <<"leaf", <<c>> \o k \o v>>

\* The ids are sorted, and so are the keys of a contract: a sort lists every
\* member once.
IdsInOrder(store) ==
  CHOOSE q \in [1..Cardinality(DOMAIN store) -> DOMAIN store] :
    Range(q) = DOMAIN store /\ \A i, j \in DOMAIN q : i < j => q[i] < q[j]

KeysInOrder(map) ==
  CHOOSE q \in [1..Cardinality(DOMAIN map) -> DOMAIN map] :
    Range(q) = DOMAIN map /\ \A i, j \in DOMAIN q : i < j => Before(q[i], q[j])

\* merkle_root_for_contract.
ContractRoot(c, map) ==
  LET keys == KeysInOrder(map)
  IN  BuildTree([i \in DOMAIN keys |-> EntryHash(c, keys[i], map[keys[i]])])

StateRoot(store) ==
  LET ids == IdsInOrder(store)
  IN  BuildTree([i \in DOMAIN ids |-> ContractRoot(ids[i], store[ids[i]])])

----------------------------------------------------------------------------

\* All contents: every contract has a value or nothing under every key.
Contents ==
  LET maps == (UNION {[ks -> Values] : ks \in SUBSET Keys}) \ {NoEntries}
  IN  UNION {[cs -> maps] : cs \in SUBSET ContractIds}

KeyLengths(store) == {Len(k) : k \in (UNION {DOMAIN store[c] : c \in DOMAIN store})}

RootOf == [store \in Contents |-> StateRoot(store)]

\* The other contents that have the root of a store.
SameRoot(store) ==
  LET root == StateRoot(store)
  IN  {other \in Contents : RootOf[other] = root} \ {store}

\* "A Merkle state root can be computed over the entire storage for
\* consensus commitment" (state.rs:7): whatever order of writes, deletions and
\* clearings led to a store that is not empty, no other contents, the empty
\* ones included, have its root.  Keys must have one length: an entry is
\* hashed as key and value put together, with no mark where the key ends.
StateRootBinds ==
  storage # NoEntries =>
    /\ storage \in Contents
    /\ \A other \in SameRoot(storage) :
         Cardinality(KeyLengths(storage) \cup KeyLengths(other)) > 1

\* A proof of inclusion verifies for its own transaction and for no other of
\* the block, whatever the number of transactions; and the two tree loops
\* compute the same root.
MerkleProofsSound ==
  /\ MerkleRoot(txLeaves) = BuildTree(txLeaves)
  /\ \A i, j \in DOMAIN txLeaves :
       VerifyProof(MerkleRoot(txLeaves), txLeaves[j], MerkleProof(txLeaves, i - 1)) <=> i = j
=============================================================================
