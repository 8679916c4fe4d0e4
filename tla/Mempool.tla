------------------------------ MODULE Mempool -------------------------------
(***************************************************************************)
(* The mempool of crates/zentra-core/src/mempool.rs: three maps, each with *)
(* its own lock, that several threads read and write one after the other.  *)
(*                                                                         *)
(* A transaction is a record with its txid in `id`, the outputs it spends  *)
(* in `ins` and its fee per byte in `rate`.  spent_outpoints maps an       *)
(* output to the transaction that spends it; nothing reads the             *)
(* transaction, so `spent` is the set of its keys.                         *)
(***************************************************************************)
EXTENDS Integers, FiniteSets

CONSTANTS
  Threads,       \* threads that use the mempool
  Adders,        \* those that add to it
  MaxSize,       \* max_size
  Transactions   \* what may be added

ASSUME MempoolAssumption ==
  /\ Adders \subseteq Threads
  /\ MaxSize \in Nat
  /\ \A tx, other \in Transactions : tx.id = other.id => tx = other

VARIABLES
  entries,  \* transactions: the members
  index,    \* priority_index: the keys <<rate, id>>
  spent,    \* spent_outpoints
  call      \* what each thread does in the mempool: [at, tx, todo]

mempoolVars == <<entries, index, spent, call>>

Free == [at |-> "free", tx |-> {}, todo |-> {}]

MempoolInit ==
  /\ entries = {} /\ index = {} /\ spent = {}
  /\ call = [t \in Threads |-> Free]

HasId(id) == \E tx \in entries : tx.id = id

Key(tx) == <<tx.rate, tx.id>>

----------------------------------------------------------------------------
(* add_transaction                                                         *)

\* A faulty variant: inputs that a member spends are not looked for.
CanAddAgain(tx) == ~HasId(tx.id) /\ Cardinality(entries) < MaxSize

\* Its checks.
CanAdd(tx) ==
  /\ ~HasId(tx.id)
  /\ Cardinality(entries) < MaxSize
  /\ tx.ins \cap spent = {}

AddTransaction(t, tx) ==
  /\ call[t].at = "free"
  /\ CanAdd(tx)
  /\ call' = [call EXCEPT ![t] = [at |-> "track", tx |-> tx, todo |-> {}]]
  /\ UNCHANGED <<entries, index, spent>>

Track(t) ==
  /\ call[t].at = "track"
  /\ spent' = spent \cup call[t].tx.ins
  /\ call' = [call EXCEPT ![t].at = "insert"]
  /\ UNCHANGED <<entries, index>>

\* The map is keyed by txid: a second insertion replaces the first.
Insert(t) ==
  /\ call[t].at = "insert"
  /\ entries' = {tx \in entries : tx.id # call[t].tx.id} \cup {call[t].tx}
  /\ call' = [call EXCEPT ![t].at = "index"]
  /\ UNCHANGED <<index, spent>>

Index(t) ==
  /\ call[t].at = "index"
  /\ index' = index \cup {Key(call[t].tx)}
  /\ call' = [call EXCEPT ![t] = Free]
  /\ UNCHANGED <<entries, spent>>

----------------------------------------------------------------------------
(* remove_transaction, of one txid after the other                         *)

\* remove_confirmed, evict_older_than with what it found too old, and the
\* removals of the mining worker.
RemoveAll(t, ids) ==
  /\ call[t].at = "free"
  /\ ids # {}
  /\ call' = [call EXCEPT ![t] = [at |-> "remove", tx |-> {}, todo |-> ids]]
  /\ UNCHANGED <<entries, index, spent>>

TakeEntry(t, tx) ==
  /\ call[t].at = "remove" /\ tx.id \in call[t].todo
  /\ entries' = entries \ {tx}
  /\ call' = [call EXCEPT ![t] = [at |-> "unindex", tx |-> tx,
                                  todo |-> call[t].todo \ {tx.id}]]
  /\ UNCHANGED <<index, spent>>

\* A txid that is not there.
SkipEntry(t, id) ==
  /\ call[t].at = "remove" /\ id \in call[t].todo
  /\ ~HasId(id)
  /\ call' = [call EXCEPT ![t].todo = @ \ {id}]
  /\ UNCHANGED <<entries, index, spent>>

Unindex(t) ==
  /\ call[t].at = "unindex"
  /\ index' = {key \in index : key[2] # call[t].tx.id}
  /\ call' = [call EXCEPT ![t].at = "unspend"]
  /\ UNCHANGED <<entries, spent>>

\* A faulty variant: the outputs stay marked.
StillSpent(tx) == spent

Released(tx) == spent \ tx.ins

Unspend(t) ==
  /\ call[t].at = "unspend"
  /\ spent' = Released(call[t].tx)
  /\ call' = [call EXCEPT ![t].at = "remove", ![t].tx = {}]
  /\ UNCHANGED <<entries, index>>

RemovedAll(t) ==
  /\ call[t].at = "remove" /\ call[t].todo = {}
  /\ call' = [call EXCEPT ![t] = Free]
  /\ UNCHANGED <<entries, index, spent>>

----------------------------------------------------------------------------

\* A thread inside a call goes on.
Proceed(t) ==
  \/ Track(t) \/ Insert(t) \/ Index(t)
  \/ \E tx \in entries : TakeEntry(t, tx)
  \/ \E id \in call[t].todo : SkipEntry(t, id)
  \/ Unindex(t) \/ Unspend(t) \/ RemovedAll(t)

MempoolNext ==
  \/ \E t \in Adders, tx \in Transactions : AddTransaction(t, tx)
  \/ \E t \in Threads, ids \in SUBSET {tx.id : tx \in Transactions} : RemoveAll(t, ids)
  \/ \E t \in Threads : Proceed(t)

MempoolSpec == MempoolInit /\ [][MempoolNext]_mempoolVars

----------------------------------------------------------------------------

Set == INSTANCE SetMempool WITH members <- entries

\* "Spent outpoints tracked to prevent double spends in the mempool"
\* (mempool.rs:16): while one thread at a time adds, the three maps, read and
\* written one by one by any number of removing threads, behave as one set of
\* transactions without a double spend.
ImplementsSet == Set!SetSpec

\* No output stays blocked: when no call is under way, the outputs marked as
\* spent are exactly those that members spend, whatever was removed twice,
\* while it was added, or while another was.
SpentReleased ==
  (\A t \in Threads : call[t].at = "free") => spent = UNION {tx.ins : tx \in entries}
=============================================================================
