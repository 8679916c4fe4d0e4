------------------------------ MODULE Explorer ------------------------------
(***************************************************************************)
(* What the RPCs of crates/zentrad/src/rpc.rs that wallets and block       *)
(* explorers call answer from the block store: the history of an address,  *)
(* a transaction, a block.  Each walks the block DAG with a stack, from    *)
(* the selected tip or from all tips, and reads the UTXO set for the rest. *)
(* They change nothing, so they are operators on the state of Node.        *)
(***************************************************************************)
EXTENDS Node

CONSTANTS
  MAX_SCANNED,   \* blocks one history looks at (200 000)
  MAX_MATCHED,   \* blocks one history lists (1000)
  MAX_LISTED     \* transactions of an address detail (50)

ASSUME ExplorerAssumption ==
  MAX_SCANNED \in Nat /\ MAX_MATCHED \in Nat \ {0} /\ MAX_LISTED \in Nat

TxsOf(h) == Range(blocks[h].txs)

Height == blocks[SelectedTip].score

Paid(tx, a) == {i \in StandardOutputs(tx) : tx.outputs[i].owner = a}
Signs(tx, a) == \E i \in DOMAIN tx.inputs : tx.inputs[i].key = a

\* An address has a part in a transaction: it is paid, or it signs an input.
Involved(tx, a) == Paid(tx, a) # {} \/ Signs(tx, a)

Involves(h, a) == \E tx \in TxsOf(h) : Involved(tx, a)

----------------------------------------------------------------------------
(* The walk: the last hash pushed is visited first, then its parents.      *)

\* A faulty variant: the walk follows the first parent only.
FirstParent(h) == SubSeq(blocks[h].parents, 1, Min({1, Len(blocks[h].parents)}))

Pushed(h) == blocks[h].parents

\* A round of the loop, while there is a hash on the stack.
WalkRound(w) ==
  LET h    == Last(w.stack)
      rest == Front(w.stack)
  IN  IF w.stack = <<>> THEN w
      ELSE IF h \in Range(w.visited) \/ h \notin store
      THEN [stack |-> rest, visited |-> w.visited]
      ELSE [stack |-> rest \o Pushed(h), visited |-> Append(w.visited, h)]

\* Every hash is popped once for each time it was pushed: at the start, or with
\* the other parents of a block, which is visited once.
Rounds(start) ==
  Len(start) + SumFunctionOnSet([h \in store |-> Len(Pushed(h))], store)

WalkRounds(start) ==
  LET walk[n \in 0..Rounds(start)] ==
        IF n = 0 THEN [stack |-> start, visited |-> <<>>] ELSE WalkRound(walk[n - 1])
  IN  walk

Walk(start) == WalkRounds(start)[Rounds(start)].visited

FromTip == Walk(<<SelectedTip>>)
FromTips == Walk(tips)

\* The block at the first of some positions of a walk, Zero if there is none.
FirstVisited(walk, hits) == IF hits = {} THEN Zero ELSE walk[Min(hits)]

----------------------------------------------------------------------------
(* The answers.                                                            *)

\* Where on a walk there is a block that involves an address.
Matches(walk, a) == {i \in DOMAIN walk : Involves(walk[i], a)}

\* The walk of get_address_blocks ends after MAX_SCANNED blocks, and before
\* the next block once MAX_MATCHED have been found.
Scanned(walk, a) ==
  LET found(n) == Cardinality({i \in Matches(walk, a) : i <= n})
  IN  Max({n \in 0..Min({Len(walk), MAX_SCANNED}) : n > 0 => found(n - 1) < MAX_MATCHED})

Matched(walk, a) == {i \in Matches(walk, a) : i <= Scanned(walk, a)}

\* The n-th of a set of positions, in an order of them.
Nth(S, before, n) ==
  CHOOSE i \in S : Cardinality({j \in S : <<j, i>> \in before}) = n - 1

\* A faulty variant: in the order of the walk.
InOrder(walk, S) == {p \in S \X S : p[1] < p[2]}

\* Vec::sort_by is stable: lowest blue score first.
ByScore(walk, S) ==
  LET score(i) == blocks[walk[i]].score
  IN  {p \in S \X S : \/ score(p[1]) < score(p[2])
                      \/ score(p[1]) = score(p[2]) /\ p[1] < p[2]}

Confirmations(h) ==
  IF Height >= blocks[h].score THEN Height - blocks[h].score + 1 ELSE 1

GetAddressBlocks(a) ==
  LET walk   == FromTips
      found  == Matched(walk, a)
      before == ByScore(walk, found)
      row(n) == walk[Nth(found, before, n)]
  IN  [n \in 1..Cardinality(found) |->
         [hash |-> row(n), selected |-> row(n) \in Chain,
          confirmations |-> Confirmations(row(n))]]

\* The block that get_transaction finds a transaction in.
GetTransaction(id) ==
  FirstVisited(FromTip, {n \in DOMAIN FromTip : \E tx \in TxsOf(FromTip[n]) : tx.id = id})

\* The amount of an input is looked up in the UTXO set of now: it is 0 once
\* the input is spent, and so is the fee.
GetTransactionDetail(id) ==
  LET h      == GetTransaction(id)
      tx     == CHOOSE x \in TxsOf(h) : x.id = id
      amount == [i \in DOMAIN tx.inputs |->
                   IF tx.inputs[i].op \in DOMAIN led.utxo
                   THEN led.utxo[tx.inputs[i].op].amount ELSE 0]
      inputs == SumFunction(amount)
  IN  IF h = Zero THEN {}
      ELSE {[height |-> blocks[h].score, confirmations |-> Confirmations(h), inputs |-> amount,
             fee |-> IF inputs >= TotalOutput(tx) THEN inputs - TotalOutput(tx) ELSE 0]}

\* By height: the first block of that blue score on the walk, which need not
\* be on the selected chain.
GetBlockDetail(score) ==
  FirstVisited(FromTip, {n \in DOMAIN FromTip : blocks[FromTip[n]].score = score})

CoinsOf(a) == {op \in DOMAIN led.utxo : led.utxo[op].owner = a}

Balance(a) == SumFunction([op \in CoinsOf(a) |-> led.utxo[op].amount])

\* Transactions of a walk are named by the positions of the block and of the
\* transaction, outputs by a third position.
TxAt(walk, p) == blocks[walk[p[1]]].txs[p[2]]

TxsOn(walk) == UNION {{n} \X DOMAIN blocks[walk[n]].txs : n \in DOMAIN walk}

PaidOn(walk, a) ==
  UNION {{<<p[1], p[2], i>> : i \in Paid(TxAt(walk, p), a)} : p \in TxsOn(walk)}

Received(walk, a, paid) == SumFunction([q \in paid |-> TxAt(walk, q).outputs[q[3]].amount])

MinedOn(walk, a) ==
  {n \in DOMAIN walk : LET first == TxAt(walk, <<n, 1>>)
                       IN  first.coinbase /\ Paid(first, a) # {}}

AsVisited(S) ==
  {pq \in S \X S : \/ pq[1][1] < pq[2][1]
                   \/ pq[1][1] = pq[2][1] /\ pq[1][2] < pq[2][2]}

\* mined_blocks_count, total_received and the transactions of an address: the
\* first MAX_LISTED on the walk.
GetAddressDetail(a) ==
  LET walk   == FromTip
      paid   == PaidOn(walk, a)
      parts  == {p \in TxsOn(walk) : Involved(TxAt(walk, p), a)}
      row(n) == Nth(parts, AsVisited(parts), n)
      own(p) == {q \in paid : q[1] = p[1] /\ q[2] = p[2]}
  IN  [confirmed_balance |-> Balance(a),
       total_received    |-> Received(walk, a, paid),
       mined_blocks      |-> Cardinality(MinedOn(walk, a)),
       transactions      |-> [n \in 1..Min({MAX_LISTED, Cardinality(parts)}) |->
                                [id |-> TxAt(walk, row(n)).id,
                                 amount |-> Received(walk, a, own(row(n))),
                                 direction |-> IF own(row(n)) # {} THEN "receive" ELSE "send"]]]

----------------------------------------------------------------------------
(* Properties, while no connect_block is in progress.                      *)

Addresses == UNION {{tx.outputs[i].owner : i \in StandardOutputs(tx)} : tx \in
                      UNION {TxsOf(h) : h \in store}}

\* "A wallet always sees its full history": every stored block that involves
\* an address, side branches included, is in its history once, up to the cap,
\* and no block comes before an ancestor.
HistoryComplete ==
  Quiet => \A a \in Addresses :
    LET rows == GetAddressBlocks(a)
        all  == {h \in store : Involves(h, a)}
    IN  Cardinality(store) <= MAX_SCANNED =>
          /\ {rows[n].hash : n \in DOMAIN rows} \subseteq all
          /\ Len(rows) = Min({MAX_MATCHED, Cardinality(all)})
          /\ \A n, m \in DOMAIN rows : n < m =>
               rows[m].hash \notin blocks[rows[n].hash].past \cup {rows[n].hash}

\* What has taken effect is shown.  A transaction of the replayed chain is
\* found, in a block no higher than the selected tip, wherever it was
\* confirmed: on the selected chain or, a coinbase, in a merged block beside
\* it; and a block is found at that height.  An address owns no more than it
\* is shown to have received, and no more coinbases than it has mined blocks.
ExplorerCovers ==
  Quiet /\ ~failed =>
    /\ \A tx \in ChainTxs : \E d \in GetTransactionDetail(tx.id) :
         d.confirmations + d.height = Height + 1 /\ GetBlockDetail(d.height) # Zero
    /\ \A a \in Addresses :
         LET d == GetAddressDetail(a) IN
           /\ d.confirmed_balance <= d.total_received
           /\ d.mined_blocks >= Cardinality({op[1] : op \in {o \in CoinsOf(a) : led.utxo[o].coinbase}})
=============================================================================
