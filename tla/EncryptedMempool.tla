-------------------------- MODULE EncryptedMempool --------------------------
(***************************************************************************)
(* The commit-reveal queue of                                              *)
(* crates/zentra-finance/src/encrypted_mempool.rs.                         *)
(*                                                                         *)
(*   entry  [id, text, key]   a transaction as encrypt_transaction makes   *)
(*          it: its text stands for its commitment (the hash of the text), *)
(*          text and key for its ciphertext; id is its place in the order  *)
(*          of acceptance (history)                                        *)
(*                                                                         *)
(* Decrypting with another key than the one a text was encrypted with      *)
(* yields Noise.                                                           *)
(***************************************************************************)
EXTENDS Integers, Sequences

CONSTANTS
  Texts,        \* transactions
  EmptyText,    \* the one of length 0
  EpochKeys,    \* keys
  NoKey,        \* no key is set
  Noise,        \* what a wrong key yields
  MaxAccepted,  \* bound on the submissions accepted
  MaxKeysSet    \* bound on the keys set

ASSUME EncryptedAssumption ==
  /\ NoKey \notin EpochKeys
  /\ MaxAccepted \in Nat /\ MaxKeysSet \in Nat

VARIABLES
  queue,      \* pending
  decKey,     \* decryption_key
  accepted,   \* history: number of submissions accepted
  dropped,    \* history: ids of the entries that clear dropped
  revealed,   \* history: what decrypt_all has returned, [id, text]
  keysSet,    \* history: keys set
  drains      \* history: times decrypt_all went through the queue

eVars == <<queue, decKey, accepted, dropped, revealed, keysSet, drains>>

EncryptedInit ==
  /\ queue = <<>> /\ decKey = NoKey
  /\ accepted = 0 /\ dropped = {} /\ revealed = <<>>
  /\ keysSet = 0 /\ drains = 0

\* The checks of submit_encrypted.  It looks at the queue only: a text that
\* has been revealed or dropped is accepted again; and not at the key, which
\* may have been set already.
CanSubmitEncrypted(text) ==
  text # EmptyText /\ \A i \in DOMAIN queue : queue[i].text # text

EncryptTransaction(id, text, key) == [id |-> id, text |-> text, key |-> key]

SubmitEncrypted(text, key) ==
  /\ CanSubmitEncrypted(text)
  /\ accepted < MaxAccepted
  /\ accepted' = accepted + 1
  /\ queue' = Append(queue, EncryptTransaction(accepted + 1, text, key))
  /\ UNCHANGED <<decKey, dropped, revealed, keysSet, drains>>

SetDecryptionKey(key) ==
  /\ keysSet < MaxKeysSet
  /\ decKey' = key
  /\ keysSet' = keysSet + 1
  /\ UNCHANGED <<queue, accepted, dropped, revealed, drains>>

\* A faulty variant: the queue is not drained.
QueueKept == queue

QueueAfter == <<>>
KeyAfter == NoKey

\* The keystream is a function of the key: the same key undoes the XOR.
SameKeystream(entry, key) == entry.key = key

Decrypt(entry, key) ==
  [id |-> entry.id, text |-> IF SameKeystream(entry, key) THEN entry.text ELSE Noise]

\* decrypt_all with a key set; without one it does nothing.
DecryptAll ==
  /\ decKey # NoKey
  /\ drains < MaxKeysSet + 1
  /\ revealed' = revealed \o [i \in DOMAIN queue |-> Decrypt(queue[i], decKey)]
  /\ queue' = QueueAfter
  /\ decKey' = KeyAfter
  /\ drains' = drains + 1
  /\ UNCHANGED <<accepted, dropped, keysSet>>

Clear ==
  /\ queue # <<>> \/ decKey # NoKey
  /\ dropped' = dropped \cup {queue[i].id : i \in DOMAIN queue}
  /\ queue' = <<>>
  /\ decKey' = NoKey
  /\ UNCHANGED <<accepted, revealed, keysSet, drains>>

EncryptedNext ==
  \/ \E text \in Texts, key \in EpochKeys : SubmitEncrypted(text, key)
  \/ \E key \in EpochKeys : SetDecryptionKey(key)
  \/ DecryptAll
  \/ Clear

EncryptedSpec == EncryptedInit /\ [][EncryptedNext]_eVars

----------------------------------------------------------------------------

Increasing(list) == \A i, j \in DOMAIN list : i < j => list[i].id < list[j].id

\* Transactions are "decrypted and executed in the committed order": over
\* all epochs, with keys set early or late and queues dropped in between,
\* what is revealed is in the order of acceptance, nothing is revealed twice,
\* and every accepted transaction is waiting, dropped or revealed.
RevealedInOrder ==
  /\ Increasing(revealed \o queue)
  /\ 1..accepted = dropped \cup {(revealed \o queue)[i].id : i \in DOMAIN (revealed \o queue)}

\* "After decryption, the pending queue is cleared and the key is consumed"
\* (encrypted_mempool.rs:165): a key opens one queue, so what is submitted
\* after it is not opened by it.
KeyOpensOneQueue == drains + (IF decKey = NoKey THEN 0 ELSE 1) <= keysSet
=============================================================================
