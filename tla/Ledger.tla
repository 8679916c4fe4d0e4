------------------------------- MODULE Ledger -------------------------------
(***************************************************************************)
(* The UTXO set of crates/zentra-core/src/utxo.rs and the transaction      *)
(* rules of crates/zentrad/src/node.rs, as operators.                      *)
(*                                                                         *)
(*   transaction  [id, coinbase, signed, inputs, outputs]                  *)
(*     inputs     sequence of [op, key]: outpoint spent, signing key       *)
(*     outputs    sequence of [burn, owner, amount]                        *)
(*   outpoint     <<transaction id, position of the output>>               *)
(*   entry        [amount, owner, height, coinbase]      (UtxoEntry)       *)
(*   ledger       [utxo, burned]                         (UtxoSet)         *)
(*   undo         [txs, merges]                          (BlockUndoData)   *)
(*   block        a record with at least the fields txs and score          *)
(*                                                                         *)
(* A key stands for the address derived from it, and `signed` for what     *)
(* verify_signatures answers.  The saturating u64 sums of the code cannot  *)
(* saturate on amounts below MAX_SUPPLY and are written with Nat.          *)
(***************************************************************************)
EXTENDS Integers, Sequences, FiniteSets, Functions, SequencesExt, Emission

CONSTANTS
  COINBASE_MATURITY,  \* blocks a coinbase ages before it is spent (10)
  Schedule            \* the network's EmissionSchedule

ASSUME MaturityAssumption == COINBASE_MATURITY \in Nat
ASSUME ScheduleAssumption ==
  Schedule \in [initial : Nat, interval : Nat \ {0}, max : Nat]

EmptyLedger == [utxo |-> <<>>, burned |-> 0]

Spends(tx) == {tx.inputs[i].op : i \in DOMAIN tx.inputs}

\* Positions of the outputs that enter the UTXO set: burns never do.
StandardOutputs(tx) == {i \in DOMAIN tx.outputs : ~tx.outputs[i].burn}

OutPoints(tx) == {<<tx.id, i>> : i \in StandardOutputs(tx)}

Entries(tx, height) ==
  [op \in OutPoints(tx) |-> [amount   |-> tx.outputs[op[2]].amount,
                             owner    |-> tx.outputs[op[2]].owner,
                             height   |-> height,
                             coinbase |-> tx.coinbase]]

TotalOutput(tx) == SumFunction([i \in DOMAIN tx.outputs |-> tx.outputs[i].amount])

TotalBurn(tx) ==
  SumFunction([i \in DOMAIN tx.outputs |->
                 IF tx.outputs[i].burn THEN tx.outputs[i].amount ELSE 0])

Without(utxo, ops) == Restrict(utxo, DOMAIN utxo \ ops)

\* The entries of new, and those of utxo that it has no entry for.
Over(new, utxo) ==
  [op \in DOMAIN new \cup DOMAIN utxo |-> IF op \in DOMAIN new THEN new[op] ELSE utxo[op]]

CoinbaseTx(id, miner, reward) ==
  [id |-> id, coinbase |-> TRUE, signed |-> TRUE, inputs |-> <<>>,
   outputs |-> <<[burn |-> FALSE, owner |-> miner, amount |-> reward]>>]

----------------------------------------------------------------------------
(* Applying and disconnecting                                              *)

\* Position of the first input that is not in the set when its turn comes,
\* Len + 1 if there is none.
FirstMissing(utxo, tx) ==
  CHOOSE i \in 1..(Len(tx.inputs) + 1) :
    /\ i <= Len(tx.inputs) =>
         \/ tx.inputs[i].op \notin DOMAIN utxo
         \/ \E j \in 1..(i-1) : tx.inputs[j].op = tx.inputs[i].op
    /\ \A k \in 1..(i-1) : /\ tx.inputs[k].op \in DOMAIN utxo
                           /\ \A j \in 1..(k-1) : tx.inputs[j].op # tx.inputs[k].op

\* The entries of the inputs that come before a missing one.
Taken(utxo, tx) ==
  IF tx.coinbase THEN <<>>
  ELSE [i \in 1..(FirstMissing(utxo, tx) - 1) |-> utxo[tx.inputs[i].op]]

\* apply_transaction.  On a missing input it returns an error with the
\* inputs before it already removed.
TakeAndCreate(led, tx, height, taken) ==
  LET rest == Without(led.utxo, {tx.inputs[i].op : i \in DOMAIN taken})
  IN  IF ~tx.coinbase /\ Len(taken) < Len(tx.inputs)
      THEN [ok |-> FALSE, led |-> [led EXCEPT !.utxo = rest], undo |-> <<>>]
      ELSE [ok |-> TRUE,
            led |-> [utxo   |-> Over(Entries(tx, height), rest),
                     burned |-> led.burned + TotalBurn(tx)],
            undo |-> taken]

ApplyTransaction(led, tx, height) ==
  TakeAndCreate(led, tx, height, Taken(led.utxo, tx))

\* apply_block: stops at the first transaction that fails, and keeps what
\* the ones before it have done.
AfterTransaction(acc, r) ==
  [ok |-> r.ok, led |-> r.led,
   undo |-> [txs |-> Append(acc.undo.txs, r.undo), merges |-> {}]]

ApplyNext(acc, tx, height) ==
  IF ~acc.ok THEN acc ELSE AfterTransaction(acc, ApplyTransaction(acc.led, tx, height))

NothingApplied(led) == [ok |-> TRUE, led |-> led, undo |-> [txs |-> <<>>, merges |-> {}]]

ApplyBlock(led, block) ==
  FoldLeft(LAMBDA acc, tx : ApplyNext(acc, tx, block.score), NothingApplied(led), block.txs)

\* apply_merge_coinbase: pays the coinbase of a blue merge block, skipping
\* the outpoints that are in the set already.
ApplyMergeCoinbase(led, block) ==
  IF block.txs = <<>> \/ ~Head(block.txs).coinbase
  THEN [led |-> led, created |-> {}]
  ELSE LET cb == Head(block.txs)
       IN [led     |-> [led EXCEPT !.utxo = Over(@, Entries(cb, block.score))],
           created |-> OutPoints(cb) \ DOMAIN led.utxo]

\* A faulty variant: the spent outputs are not put back.
UndoTransactionForgets(led, tx, spent) ==
  [led EXCEPT !.utxo = Without(@, OutPoints(tx))]

\* disconnect_block: undoes the transactions in reverse order, then removes
\* the merge rewards.
UndoTransaction(led, tx, spent) ==
  LET restored == {tx.inputs[i].op : i \in DOMAIN spent}
      entryOf(op) == spent[CHOOSE i \in DOMAIN spent : tx.inputs[i].op = op]
      burn == TotalBurn(tx)
  IN  [utxo   |-> Over([op \in restored |-> entryOf(op)], Without(led.utxo, OutPoints(tx))),
       burned |-> IF burn < led.burned THEN led.burned - burn ELSE 0]

\* Faulty variants: transactions undone in block order; merge rewards kept.
DisconnectBlockForward(led, block, undo) ==
  [ok |-> TRUE,
   led |-> FoldLeftDomain(LAMBDA acc, i :
             UndoTransaction(acc, block.txs[i], undo.txs[i]), led, block.txs)]

DisconnectBlockKeepsMerges(led, block, undo) ==
  [ok |-> TRUE,
   led |-> FoldRightDomain(LAMBDA i, acc :
             UndoTransaction(acc, block.txs[i], undo.txs[i]), block.txs, led)]

DisconnectBlock(led, block, undo) ==
  IF Len(block.txs) # Len(undo.txs) THEN [ok |-> FALSE, led |-> led]
  ELSE LET undone == FoldRightDomain(LAMBDA i, acc :
                                       UndoTransaction(acc, block.txs[i], undo.txs[i]),
                                     block.txs, led)
       IN  [ok |-> TRUE, led |-> [undone EXCEPT !.utxo = Without(@, undo.merges)]]

----------------------------------------------------------------------------
(* Validation                                                              *)

\* validate_block_self_contained: what needs no chain state.
SelfContained(block) ==
  LET txs == block.txs
  IN  /\ txs # <<>>
      /\ \A i \in DOMAIN txs : txs[i].coinbase <=> i = 1
      /\ \A i \in DOMAIN txs : txs[i].signed
      /\ \A i, j \in DOMAIN txs : \A k \in DOMAIN txs[i].inputs, l \in DOMAIN txs[j].inputs :
           txs[i].inputs[k].op = txs[j].inputs[l].op => i = j /\ k = l

\* A faulty variant: one block too early.
MatureEarly(entry, height) ==
  entry.coinbase => height + 1 >= entry.height + COINBASE_MATURITY

Mature(entry, height) ==
  entry.coinbase => height >= entry.height + COINBASE_MATURITY

\* The entry that an input of a block finds: the ledger's, or else that of an
\* earlier transaction of the block.
FoundEntry(op, utxo, created) == IF op \in DOMAIN utxo THEN utxo[op] ELSE created[op]

FoundSum(tx, utxo, created) ==
  SumFunction([i \in DOMAIN tx.inputs |->
                 FoundEntry(tx.inputs[i].op, utxo, created).amount])

\* Input i is there, not spent earlier in the block, mature and its owner's.
InputValid(acc, tx, i, utxo, height) ==
  LET op == tx.inputs[i].op IN
    /\ op \notin acc.spent
    /\ \A j \in 1..(i-1) : tx.inputs[j].op # op
    /\ op \in DOMAIN utxo \cup DOMAIN acc.created
    /\ op \in DOMAIN utxo => Mature(utxo[op], height)
    /\ FoundEntry(op, utxo, acc.created).owner = tx.inputs[i].key

TransactionValid(acc, tx, utxo, height) ==
  /\ tx.signed
  /\ \A i \in DOMAIN tx.inputs : InputValid(acc, tx, i, utxo, height)
  /\ TotalOutput(tx) <= FoundSum(tx, utxo, acc.created)

\* One transaction of validate_block_transactions.  acc.created holds the
\* outputs of the earlier transactions of the block, the coinbase included.
ValidateTransaction(acc, tx, utxo, height) ==
  LET created == Over(Entries(tx, height), acc.created)
  IN  IF tx.coinbase THEN [acc EXCEPT !.created = created]
      ELSE IF ~acc.ok \/ ~TransactionValid(acc, tx, utxo, height)
      THEN [acc EXCEPT !.ok = FALSE]
      ELSE [ok |-> TRUE, spent |-> acc.spent \cup Spends(tx), created |-> created,
            fees |-> acc.fees + (FoundSum(tx, utxo, acc.created) - TotalOutput(tx))]

NothingValidated == [ok |-> TRUE, spent |-> {}, created |-> <<>>, fees |-> 0]

ValidateEach(led, block) ==
  FoldLeft(LAMBDA acc, tx : ValidateTransaction(acc, tx, led.utxo, block.score),
           NothingValidated, block.txs)

\* A faulty variant: the coinbase is not compared with subsidy and fees.
ValidateTransactionsUncapped(led, block) == ValidateEach(led, block).ok

\* validate_block_transactions
ValidateTransactions(led, block) ==
  /\ \A i \in DOMAIN block.txs : block.txs[i].coinbase <=> i = 1
  /\ LET end == ValidateEach(led, block)
     IN  /\ end.ok
         /\ block.txs # <<>> =>
              TotalOutput(Head(block.txs)) <= BlockReward(Schedule, block.score) + end.fees

\* The test that accept_external_tx and the mining worker share: every input
\* is an unspent output, mature at this height and owned by the signing key,
\* and the outputs do not exceed the inputs.
InputSum(led, tx) ==
  SumFunction([i \in DOMAIN tx.inputs |-> led.utxo[tx.inputs[i].op].amount])

Spendable(led, tx, height) ==
  /\ tx.signed
  /\ \A i \in DOMAIN tx.inputs :
       /\ tx.inputs[i].op \in DOMAIN led.utxo
       /\ Mature(led.utxo[tx.inputs[i].op], height)
       /\ led.utxo[tx.inputs[i].op].owner = tx.inputs[i].key
  /\ TotalOutput(tx) <= InputSum(led, tx)

Fee(led, tx) == InputSum(led, tx) - TotalOutput(tx)
=============================================================================
