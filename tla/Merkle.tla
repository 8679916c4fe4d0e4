------------------------------- MODULE Merkle -------------------------------
(***************************************************************************)
(* The Merkle trees of crates/zentra-core/src/merkle.rs (the transactions  *)
(* of a block) and of crates/zentra-runtime/src/state.rs (the state of the *)
(* contracts), which are computed by two different loops.                  *)
(*                                                                         *)
(* Hashes are terms: a hash is a tuple that holds what was hashed.         *)
(***************************************************************************)
EXTENDS Integers, Sequences

ZeroHash == <<"zero">>

\* Hash::combine.
Combine(left, right) == <<"node", left, right>>

\* One round of compute_merkle_root and compute_merkle_proof: the last hash
\* is doubled if there is an odd number, then the pairs are combined.
Padded(level) ==
  IF Len(level) % 2 # 0 THEN Append(level, level[Len(level)]) ELSE level

NextLevel(level) ==
  [i \in 1..(Len(Padded(level)) \div 2) |->
     Combine(Padded(level)[2 * i - 1], Padded(level)[2 * i])]

\* A round of the loop, while there is more than one hash.
Climb(level) == IF Len(level) = 1 THEN level ELSE NextLevel(level)

\* The levels of the loop, from the hashes to the root: a round takes at least
\* one hash away, so there are no more rounds than hashes.
Levels(hashes) ==
  LET level[n \in 0..Len(hashes)] == IF n = 0 THEN hashes ELSE Climb(level[n - 1])
  IN  level

\* compute_merkle_root.
MerkleRoot(hashes) == IF hashes = <<>> THEN ZeroHash ELSE Levels(hashes)[Len(hashes)][1]

\* compute_merkle_proof counts from 0: the sibling of an even index is on its
\* right, that of an odd one on its left.
Sibling(idx) == IF idx % 2 = 0 THEN idx + 1 ELSE idx - 1

\* A round of compute_merkle_proof.
ProofRound(p) ==
  IF Len(p.level) = 1 THEN p
  ELSE [level |-> NextLevel(p.level),
        idx   |-> p.idx \div 2,
        proof |-> Append(p.proof, [hash  |-> Padded(p.level)[Sibling(p.idx) + 1],
                                   right |-> p.idx % 2 = 0])]

ProofRounds(hashes, idx) ==
  LET round[n \in 0..Len(hashes)] ==
        IF n = 0 THEN [level |-> hashes, idx |-> idx, proof |-> <<>>]
        ELSE ProofRound(round[n - 1])
  IN  round

MerkleProof(hashes, idx) ==
  IF Len(hashes) <= 1 \/ idx >= Len(hashes) THEN <<>>
  ELSE ProofRounds(hashes, idx)[Len(hashes)].proof

\* A faulty variant: the side of the sibling is ignored.
OnTheRight(hash, step) == Combine(hash, step.hash)

Join(hash, step) ==
  IF step.right THEN Combine(hash, step.hash) ELSE Combine(step.hash, hash)

ProofRoot(hash, proof) ==
  LET current[n \in 0..Len(proof)] ==
        IF n = 0 THEN hash ELSE Join(current[n - 1], proof[n])
  IN  current[Len(proof)]

\* verify_merkle_proof.
VerifyProof(root, hash, proof) == ProofRoot(hash, proof) = root

----------------------------------------------------------------------------
(* build_merkle_tree of state.rs                                           *)

\* The last hash without a partner is combined with itself.
PairUp(level) ==
  [i \in 1..((Len(level) + 1) \div 2) |->
     Combine(level[2 * i - 1],
             IF 2 * i <= Len(level) THEN level[2 * i] ELSE level[2 * i - 1])]

PairRound(level) == IF Len(level) <= 1 THEN level ELSE PairUp(level)

PairAll(hashes) ==
  LET level[n \in 0..Len(hashes)] ==
        IF n = 0 THEN hashes ELSE PairRound(level[n - 1])
  IN  level

BuildTree(hashes) == IF hashes = <<>> THEN ZeroHash ELSE PairAll(hashes)[Len(hashes)][1]
=============================================================================
