# Zentra in TLA+

TLA+ models of the Zentra node, the TLC instances that check them, and the
theorems about them that TLAPS proves.  File and line references are to `src/`;
`node.rs` is `crates/zentrad/src/node.rs`.

## 1. The system

Zentra is a proof-of-work chain whose blocks form a DAG.  A node keeps every
valid block, orders the DAG with a GhostDAG-like rule, applies the transactions
of the *selected chain* to a UTXO set, and pays the coinbase of the blue blocks
that the chain merges.

| component | code | state | operations |
|---|---|---|---|
| GhostDAG ordering | `zentra-consensus/ghostdag.rs` | none (reads the GhostDAG column family) | `process_block` |
| block DAG | `zentra-core/dag.rs`, `database.rs` | blocks, headers, tips (memory and metadata) | `insert_block`, `get_selected_tip`, `init_genesis` |
| UTXO ledger | `zentra-core/utxo.rs` | unspent outputs, burned total, undo data | `apply_block`, `apply_merge_coinbase`, `disconnect_block` |
| validation | `node.rs` 883-1066 | none | header, self-contained, transactions |
| emission | `zentra-consensus/emission.rs` | none | `block_reward`, `total_emitted_at_height` |
| reorganization, restart | `node.rs` 131-339, 1105-1239 | moves the ledger along the DAG | `reorganize`, replay in `ZentraNode::new` |
| block intake | `node.rs` 1241-1423 | orphans, wanted parents | `accept_external_block`, `connect_block`, `try_connect_orphans` |
| mining worker | `node.rs` 352-531, `miner.rs` | template, `is_mining` | template, nonce search, connect |
| mempool | `zentra-core/mempool.rs` | three concurrent maps | add, remove, expire, select by fee |
| P2P sync | `zentrad/p2p_sync.rs` | sessions, announcements | hello, push, pull, orphan rounds, relay |
| peer table | `p2p_sync.rs`, `rpc.rs`, `main.rs` | `manual_peers`, `peers.txt` | learn, add, remove, save, load |
| payments | `rpc.rs`, `node.rs` 540-790 | coins, mempool, faucet claims | `submitTransaction`, `sendTransfer`, `faucetClaim` |
| mining pool | `pool.rs`, `node.rs` 540-700 | members, shares, totals paid | join, heartbeat, shares, payout |
| explorer RPCs | `rpc.rs` 830-1170 | none | address, transaction and block queries |
| difficulty | `zentra-consensus/difficulty.rs` | window of timestamps and targets | `record_block`, `next_difficulty` |
| finance | `zentra-finance/*` | AMM pool, vault, quarantine, TSS keys, encrypted mempool | swaps, mint and burn, lock and unlock |
| governance | `zentra-runtime/governance.rs` | parameters, proposals | propose, vote, process |
| contracts | `zentra-runtime/engine.rs`, `gas.rs` | modules, executions | deploy, execute, host functions |
| contract state, merkle trees | `zentra-runtime/state.rs`, `zentra-core/merkle.rs` | storage by contract | set, delete, clear, roots and proofs |
| desktop wallet | `zentra-qt/main.rs` | seed (memory, two files), address, child node, update | create, restore, lock, encrypt, derive, start and stop a node |
| wallet library, CLI | `zentra-wallet`, `zentra-cli` | keys | derive, sign, one RPC call |

How they interact.  Each inbound connection and each outbound sync is a thread
that calls `accept_external_block`; the mining worker is one more thread that
calls `connect_block`; the RPC server flips `is_mining` and feeds the mempool.
They share the database, the tips (a lock), the UTXO set (a lock), the
difficulty history (a lock), the orphan pool and the mempool.  No lock covers a
whole `connect_block`, a whole `add_transaction`, or the time between reading
coins and putting a payment into the mempool.  Every six seconds the dialer opens a
session with each peer and saves the peer table.  The desktop wallet runs a frame
loop, threads that derive its address, and a child process, the node.

What is hard: threads that connect blocks at once; blocks that arrive before
their parents; a crash between any two database writes; a reorganization that
fails half way; a worker whose template is stale; rewards paid by a later block
than the one that earned them; a session cut off between two batches; a file
written by three writers; a payout mined before it is booked.  `PROJECT.json` lists each hazard at its line.

What makes the components correct:

* the block store is closed under parents, every stored block can be scored, and
  every node computes the same order, whatever arrived when and crashed where;
* the ledger is a function of the selected tip: what replaying the selected
  chain gives; no coin is made from nothing, lost, or spent early or twice;
* a failed reorganization changes nothing, and a valid one succeeds;
* the node accepts the blocks its own worker makes;
* an orphan whose parents have arrived is connected, and nodes that dial each
  other come to the same height;
* the mempool is a set without double spends, and what is in it passes the checks
  of the worker and of validation;
* members of the pool never receive more than is booked;
* the target the worker uses is the one validation expects, and moves by a bounded
  factor;
* proposals take effect in order and by a majority; gas pays for state; roots bind
  what they commit to;
* a seed the wallet has loaded is not lost by a failed write or a crash.

## 2. The modules

| module | what it is |
|---|---|
| `Ghostdag` | `process_block`, the order of tips, the selected chain: operators |
| `Emission` | `block_reward` and the emitted total: operators |
| `Ledger` | the UTXO set, undo data, transaction rules: operators |
| `Reorg` | `reorganize` with its rollback, the restart's replay: operators; extends `Ghostdag`, `Ledger` |
| `Node` | the state machine of one node, its threads and its database; extends `Reorg` |
| `MCNode`, `MCNode*.cfg` | instances of `Node` for TLC |
| `NodeProofs` | theorems about `Node` and `Explorer` |
| `Minting` | a chain that mints height by height, the reference `Emission` is checked against |
| `Words` | the integers of the code: largest values, saturation |
| `Amm` | the liquidity pool (`amm.rs`) and its state machine; extends `Words` |
| `Vault` | the Omni-Vault with its signatures and protocol-owned liquidity, and the RPC handlers that use it; extends `Amm`, whose `pool` is the pool of the node |
| `Quarantine` | locked collateral; extends `Words` |
| `EncryptedMempool` | the commit-reveal queue |
| `SetMempool` | abstract: a bounded set of transactions without double spends |
| `Mempool` | the three maps, one access a step, several threads; implements `SetMempool` |
| `Payments` | transfers, faucet and pool payouts against ledger and mempool; extends `Ledger`, `Words` |
| `Difficulty` | compact bits, the retarget, the worker's manager and the validator's engine |
| `Governance` | parameters and proposals; extends `Words` |
| `Contracts` | execution with fuel and meter, several threads; extends `Words` |
| `Merkle`, `StateMap` | merkle trees and proofs; the storage of contracts and its root |
| `DesktopWallet` | the graphical wallet: seed, files, address, child node, update |
| `Sync` | sessions between nodes; extends `Ghostdag` |
| `Peers` | the peer table and `peers.txt` |
| `Explorer` | the answers of the query RPCs; extends `Node`, on whose state they are operators |
| `MCComponents`, `MCComponents.cfg` | the instance of the components that work by themselves |
| `MCSync`, `MCSync*.cfg` | instances of `Sync` and `Peers` |
| `FinanceProofs` | theorems about `Amm`, `Vault`, `Quarantine`, `EncryptedMempool` |
| `MempoolProofs` | theorems about `Mempool`, the refinement among them |
| `RuntimeProofs` | theorems about `Governance`, `Contracts`, `StateMap` and `Merkle`; extends `FoldProofs` |
| `FoldProofs` | lemmas about naturals, sequences, recursive tables, folds and sums; no theorem about the code |
| `LedgerProofs` | theorems about `Emission`, `Ledger` and `Reorg` |
| `ConsensusProofs` | theorems about `Minting` and `Difficulty` |
| `WalletProofs` | theorems about `Payments` and `DesktopWallet`; extends `LedgerProofs` |

Definitions named `...Forgets`, `...Half`, `...Early` and so on, marked "a
faulty variant", are plausible mistakes in the definition after them.  They are
used nowhere; replacing the right definition by one shows that the property
`PROJECT.json` names with it notices the mistake.

### How `Node` corresponds to the code

* `blocks` is the network: every block anybody has found.  A block's hash is
  its name; hashes are positive naturals because their order breaks ties.  The
  field `past` (ancestors) and `data` (what a node that has all of them computes)
  are history that no action of the node reads.
* `gd`, `store`, `headers`, `dbTips`, `undos` are the column families; only they
  survive `Crash`, which ends in the state `ZentraNode::new` builds from them.
* `tips`, `led`, `diffTip`, `orphans`, `wanted`, `mempool`, `mining` are the
  node's memory; `diffTip` is the tip up to which the difficulty history goes.
* A thread's `pc` names what it does next; `connect_block` is

      connect -> put_block -> put_header -> put_tips -> select
              -> [reorganize -> rebuild -> [resume]] -> finish

  with early returns in `Refuse` and in a failed `DoReorganize`.  Each database
  write and each section under one lock is a step.  After it
  `try_connect_orphans` is `scan` (a snapshot under the lock) and `drain` (one
  orphan at a time).  The worker is `StartTemplate` (tips read), `FillTemplate`
  (ledger and target read), `Find` or `GiveUp`.
* `PeerFinds` is the rest of the network.  A peer builds on any list of blocks
  that can be the tips of some node (no one the ancestor of another); it may
  misstate the blue score (`ScoreErrors`), claim more than its due (`PeerFees`)
  and put any of `PeerBodies` in the block.

### How the finance modules correspond to the code

* A method of a finance type is an operator or an action with the same name.  A
  call that returns an error, or panics, without having changed anything is no
  step; one that fails half way (`add_liquidity`) leaves what it has stored.
* Each component lives behind one lock of the node, so a call is one step.  The
  exception is `vaultDeposit` (rpc.rs 690-745), which takes the lock of the vault
  twice: `RpcSubmit`, then `RpcMint` or `RpcFail`, with the local variables of
  every caller in `rpc`.
* Checked operations fail and saturating ones stop at `MAX_U64` and `MAX_U128`.
  The one unchecked product (the fee in `pol.rs`) wraps or panics, by the build:
  the fee is that of the wrapped product, and a panic changes nothing.
* The node creates the quarantine and the encrypted mempool and calls neither
  yet; they are modelled under any caller their interface admits.  No order is
  assumed between the heights passed to the quarantine: a reorganization may lower
  the height of the chain.
* A partial signature is who made it, under which generation of keys, on what.
  An encrypted transaction is its text and its key: the commitment is a hash of
  the text, and decryption with another key yields `Noise`.
* Volumes, fee totals and other counters that are only reported are left out.

### How the other modules correspond to the code

* `Mempool`: `add_transaction` is `AddTransaction` (its checks, which read all three
  maps), then `Track`, `Insert`, `Index`, one per map written; `remove_transaction`
  is `TakeEntry`, `Unindex`, `Unspend`.  `RemoveAll` is any caller with a list of
  txids: what a block confirmed, what has expired, what the worker evicts.
* `Payments`: a payment is built from the coins read (`SubmitTransaction`,
  `SendTransfer`, `FaucetClaim`, `StartPayout`), then offered to the mempool
  (`Submit`), then booked (`BookClaim`, `ApplyPayout`); other threads, blocks and
  evictions come in between.  Statistics of a peer may name a member whose address
  does not parse (`BadMembers`).
* `Difficulty`: a target is a number of `DIGITS` digits in base `BASE`, with the
  rounding of compact bits and the truncations of the scaled fraction.
* `Governance`: every call comes with a height; `process_proposals` may be called
  for any later height, or the same one again.  `weight` and `closed` are history.
* `Contracts`: the guest is any sequence of instructions and host calls that its
  fuel allows.
* `StateMap`: hashes are terms; an entry is hashed as contract, key and value put
  together, which is why keys of several lengths are in the instance.  The loops of
  `Merkle` are recursive functions over their rounds: a round of a list of one hash
  changes nothing, so as many rounds as there are hashes are the whole loop.
* `DesktopWallet`: a frame is one step, each file operation of a dialog another;
  a seed stands for its address.
* `Sync`: a session is `Hello`, `Push` (batches above the peer's height), `Pull`
  (locator, batches), `Parents` (rounds for missing parents), in the order of
  `sync_from_peer`; `Dropped` cuts it off anywhere, `NotDelivered` loses an
  announcement.  The score of a block is the one `Ghostdag` gives it.
* `Peers`: `std::fs::write` is `Truncate` and `Fill`; every writer has the copy of
  the table it took; `Restart` reads the file as it finds it.
* `Explorer`: walks with an explicit stack, over the state `Node` is in; `Rounds` is a
  number of rounds after which the stack is empty, whatever the DAG.

### Abstractions of the core

* Proof of work, timestamps with the median-time-past rule, merkle roots and
  signatures are taken as good where `ValidHeader` says so; a transaction
  carries the answer of `verify_signatures` in `signed`.
* In `Node` the retarget is a function `BitsOf` of the block the history ends in:
  which chain is used is modelled there, the arithmetic in `Difficulty`.
* Genesis stands for the common prefix of all branches; its transactions fund
  the transfers.
* `connect_block` reads the old tip, validates and writes the GhostDAG data in
  one step.  The data of stored parents never changes (theorem
  `StoreNeverShrinks`), so only the read of the old tip could be earlier; the
  interval between it and `select` is what the race needs, and it is there.
* Parking an orphan writes `orphans` and `wanted` under two locks, in one step
  here: nothing reads the two together.  The worker reads the ledger and the
  target under two locks, in one step here: the checks of the body and of the
  target are independent.
* `reorganize` is one step: it holds the UTXO lock throughout.  A crash between
  two of its undo writes leaves a subset of the undo data of the crash after it.
* The branches of the code that the invariants exclude are left out: the
  fallback to the first header parent for a block without GhostDAG data
  (`GdStored`) and `reorganize` without an old tip (`TipsUsable`).
* I/O errors of the database, the `block_history` cache and the children index are
  not modelled; the pool accounting of `connect_block` is in `Payments`.  The
  limit of 20 candidates per template is above the number of transfers.
* Amounts are naturals.  The emission products stay below 2^52 and validation
  saturates; `Payments` keeps the width where sums wrap.

## 3. The runs

Passing runs.  Constants common to those of `Node`: `GHOSTDAG_K = 1`, maturity 2, rewards
4, 2, 1, 0 in epochs of two heights, so that red blocks, maturity and halvings
happen within a few blocks.

| run | instance | shows |
|---|---|---|
| `components` | the components that work by themselves, side by side (606 000 states) | emission: closed form = sum of rewards; AMM: the constant product, no dilution; vault: one request per deposit, zUSD backed, `vaultDeposit` answers its own deposit; quarantine: collateral conserved and held for the full term; encrypted mempool: revealed in the committed order; mempool: implements a set without double spends, no output stays blocked; payments: what is relayed passes the worker, members receive no more than is booked; governance: in order, by a majority; contracts: gas pays for state; state root and merkle proofs bind; difficulty: worker and validator agree, bounded retarget; desktop wallet: a loaded seed is kept |
| `serial` | one thread, three found blocks; transfers that conflict, chain within a block, burn; excessive coinbases, misstated scores (864 000) | ledger = replay of the selected chain; coins conserved; tips exact; a failed reorganization restores, and fails only for a block its chain refuses |
| `merge` | one thread, five found blocks without transfers (236 000) | the same where merge blocks are connected and disconnected |
| `miner` | worker and peers in turns, mempool, coinbase spends (243 000) | maturity; the worker's blocks pass; histories are complete and the explorer shows all that has taken effect |
| `threads` | two peer threads, one crash, three found blocks with two parents each (1 069 000) | every stored block scored; closed under parents; canonical order; usable tips; nothing leaves the store |
| `orphans` | two threads, one of them syncing, chains of orphans, liveness | ready orphans leave the pool |
| `sync` | two nodes that dial each other; a peer table with three writers and a restart; liveness (34 000) | equal heights in the end; `peers.txt` comes to hold the table |

Why the bounds are enough for the question asked: three found blocks give every
pair of branches with a reorganization of depth one and two and a return to the
first branch; five give a merge block that is itself disconnected.  Two peer
threads give every pair of interleaved `connect_block`s; one crash at each write,
and after it a full further life of the node.  `NamesInOrder` names the blocks in
the order they are found: hashes only decide between tips of equal score, so
every order of hashes has an equivalent run in which the blocks are found by
rising score and then by rising hash.

For `components`: rewards, intervals and caps from small sets, heights past the
last halving, caps met before, in and after the last epoch.  `MAX_U128 = 60` and
amounts 0, 1, 3, 5, 12 let reserves, products and shares overflow within the four
calls that suffice to fill the pool, add to it out of proportion, inject and swap.
The vault has three possible deposits (a hash, the fallback hash and a malformed
one that becomes it), two callers, so that one stands between its two lock
sections while the other does anything, and two generations of keys, so that
signatures can be stale; a deposit of 18 makes the fee's product wrap.  Two
members offend at heights in no order, up to the largest one.  Three keys and four
submissions give a queue opened by a wrong key, a late one, and a text submitted
again.  Three transactions of which one conflicts with both others, room for two,
and three threads that remove, one of which also adds.  Two RPC threads and the pool's worker
pay from wallets with mature and immature coins, one block comes in between,
`MAX_U64 = 9` lets amount and fee wrap; two members, one of them malformed, and a
`seen_shares` that is cleared at one.  Two proposals with windows of two heights up to
height 4, votes of 5 that pass the largest word at the second.  Three keys, of
which one is the prefix of another with its value, in two contracts; up to six
transactions in a merkle tree, so that odd numbers occur on two levels.  Limits of 0, 4 and
6 gas, so that fuel and meter each run out first.  Chains of five blocks on two
lanes, delays that are negative, exact, and beyond both clamps.  Two seeds, two
launches, three failed polls.  The components share no state but the pool, so a behaviour moves one of
them (`focus`); nothing is lost by it.

For `sync`: three blocks found by either node give forks, merges and ties; batches of two
and locators of one block let a batch end inside a fork and a locator miss the
common block; one session is cut off anywhere, any announcement is lost.  The peer
table has four addresses, one of them not worth saving, a cap of three, two changes
and one restart, with a writer for each of the three places that write.

`CHECK_DEADLOCK FALSE`: when all blocks of an instance have been found and
connected the node waits for the network; a component that has had its number of
calls is left alone.

Fairness (`FairSpec`, run `orphans` only).  A thread inside a call goes on: the
operating system schedules it, and `Step(t)` is enabled whenever it is inside;
`Fairness` writes that as weak fairness without `ENABLED`.  `SyncRound(t)` has
strong fairness: the dialer starts `sync_from_peer` for every peer every six
seconds (p2p_sync.rs 347-357), which reaches its rounds however many blocks came
before, provided some peer can be connected to.  Nothing is assumed of the
network, the worker or the mempool.

Fairness of `MCSync` (`sync`, `gap`): weak fairness of every session's steps, since
the dialer begins one every six seconds and each wait in it has a deadline, and of
the writers of `peers.txt`: the dialer writes in each round, a call that has begun
ends.  Nothing is assumed of announcements or of the workers; the number of cut
sessions is bounded (`MaxDrops`), as a network that cuts every session brings no
block.

Runs that show a disagreement.  Each checks one sentence of a comment or of the
README against the code, and TLC finds a behaviour that refutes it.

| run | sentence | what happens |
|---|---|---|
| `race` | README 121 "two miners finding a block at once is normal and safe" | two threads reorganize from the same old tip; the ledger holds both branches |
| `undo` | node.rs 192 "matches apply_block_with_merges" | the restart writes no undo data; the next reorganization fails |
| `reject` | README 112 "passes a full validation gate before it is accepted" | a block that fails in `reorganize` stays the selected tip |
| `mint` | README 118 "never mints more than the block subsidy plus fees" | the coinbase of a merge block is paid unchecked |
| `gap` | p2p_sync.rs 435 "is what makes divergent chains ... converge" | see below |

In `gap` node a dials b and b dials nobody.  b finds block 2; a finds 3, and while it
pulls 2 from b, 4 on top of 3.  In the next session a has b's tip and pushes
the blocks above b's height: only 4.  b parks it for want of 3.  Being dialled, b asks
nobody for parents, and every later session does the same.  (With both dialling the
run `sync` shows that they converge.)

Seen while modelling, and stated by no run:

* two threads that connect the same block both pass the already-stored check
  (node.rs 1279); when a child is inserted between their two `insert_block`s the
  block becomes a tip again although it has a child;
* after a crash between the two writes of `put_block` (database.rs 111-117) the
  block counts as stored, is not fetched again, and has no header;
* the id of a coinbase covers address, height and reward only, so two parallel
  blocks of one payout address share it, and `apply_merge_coinbase` skips the
  second as already paid (utxo.rs 93);
* `connect_block` takes the transfers of a side block out of the mempool as
  confirmed, although only its coinbase will ever be applied (node.rs 1368);
* an output created earlier in the same block, its coinbase included, is not
  checked for maturity (node.rs 1016): `MaturityKept` therefore speaks of the
  coinbase of another block;
* nothing in the node calls `generate_keys`, so `vaultDeposit` always panics at
  `participants[0]` (rpc.rs 722), after it has queued the request; the same
  deposit cannot be presented again;
* nothing in the node adds ZTR to its pool, so `swapTokens` always fails there;
  its slippage limit is compared after the swap has been made (rpc.rs 663);
* the ingest fee is injected twice, into `vault.pol.pool` and into the pool of
  the node;
* `add_liquidity` keeps half of a deposit when the second addition overflows
  (amm.rs 294), and `integer_sqrt` panics on the largest u128;
* `validate_ingest` counts signatures, not the validators that made them;
* every malformed hash becomes the same fallback hash (rpc.rs 694), so the second
  such deposit is a duplicate;
* the encrypted mempool accepts submissions after the key has been set, and a
  text again once it has been revealed.

Block intake and worker, further:

* at a tie of two tips the worker's target follows another parent than the
  validator's (node.rs 451 and 836), although node.rs 391 calls it "exactly the same
  algorithm the validator runs";
* a transfer that names one output twice passes `submitTransaction` and the worker's
  selection (node.rs 443) and spoils every template until it expires, against the
  comment at node.rs 410;
* the worker takes all tips as parents (node.rs 386): with more than
  `MAX_BLOCK_PARENTS` tips every block it finds is refused;
* a `stop_mining` within the 10 ms in which `connect_block` holds mining off is
  undone (node.rs 1362).

Mempool and payments:

* two threads that add at once may both pass the checks: a double spend, or one
  member too many; `ImplementsSet` is stated for one adder;
* a removal between `Insert` and `Index` leaves a key in `priority_index` that no
  member has;
* `amount + fee` wraps in `sendTransfer`;
* members whose address does not parse are booked and not paid; work below the
  minimum payout is forgotten by `apply_payout` although pool.rs 39 says that
  "smaller amounts roll over"; `prune_offline` forgets what a member was paid;
* two claims of one address at once both pass the faucet's cooldown; a share may be
  credited twice by two threads, or after `seen_shares` was cleared;
* statistics are keyed by payout address and looked up by host and port (rpc.rs 450);
  a chosen pool target is overwritten by a seed's answer; after a restart a saved
  pool target has no payout address (node.rs 320, 455); shares are sent to whichever
  peer is dialled, and dropped beyond 200.

Sync and peers:

* a batch that ends inside a tie leaves the rest of the tie to the parents' rounds;
  with a locator of 32 and a batch of 500 two nodes that diverged earlier than the
  locator reaches begin again at the same block (node.rs 1506);
* a removed peer comes back when a stale copy of the dialer is the last write before
  the table is empty; `add_peer` ignores the cap; one address message may add
  duplicates; two writers may leave a tail in the file.

Explorer:

* a transfer in a side block is reported as confirmed and settled nowhere;
* the fee of a settled transaction is 0, because its inputs are no longer in the UTXO
  set; `confirmed_balance` counts immature coinbases although rpc.rs 1075 says "sum
  of mature UTXOs"; a public key that is not 32 bytes long panics there;
* a block by height may be a side block; the cap keeps the first 1000 blocks
  of the walk, not the newest.

Runtime and difficulty:

* `host_log` keeps its text when there is no gas for it; balances begin empty in each
  execution; the factor of the retarget reaches 3.03 by its rounding;
* keys of different lengths can give two contents one state root.

Desktop wallet (`zentra-qt/main.rs`):

* stopping its child asks whatever node is listening to stop; after "Update aborted"
  the button does not come back;
* "Create" while a derivation is pending overwrites the seed; "Restore" writes the
  phrase before it is tried; a later seed in the plain file is hidden by an
  encrypted one; "Update Password" after "Create" overwrites the old encrypted seed;
  the old address may be shown after a new seed was created.

Several properties hold with one thread and fail with two (`LedgerFollowsTip`),
without a crash and fail with one (`ReorgSucceeds`), or while no reorganization
has failed (`~failed` in the ledger properties): the passing run states the
condition, the refuting run shows that it is needed.

## 4. The proofs

`NodeProofs` proves about `Spec`, for every set of hashes and threads, every
number of crashes, every K, and any behaviour of peers:

| theorem | states |
|---|---|
| `StoreInvariant` | `Spec => []IInv` |
| `StoreTypeCorrect` | types of the store and of the threads |
| `StoredHaveGhostdag` | `[]GdStored` |
| `StoreIsClosed` | `[]DagClosed` |
| `OrderIsCanonical` | `[]GdCanonical` |
| `RestartFindsTip` | `[]TipsUsable` |
| `StoreNeverShrinks` | `StoreGrows` |
| `TipsAreExact` | `[](crashes = 0 => TipsExact)`, under `OneThread` |
| `LedgerIsReplay` | `[]LedgerFollowsTip`, crashes included, under `OneThread`, `[]BlocksGood` |
| `FailureLeavesLedger` | `FailureRestores`, crashes included, under the same |
| `LedgerUntilCrash` | both until a crash, under `OneThread`, `[]IdsUnique` |
| `FailureHasCulprit` | `[](crashes = 0 => ReorgSucceeds)`, under `OneThread`, `[]IdsUnique` |
| `CoinbasesMature` | `[](crashes = 0 => MaturityKept)`, under the same |
| `CoinsSpentExactly` | `[](crashes = 0 => SpentExactly)`, under the same |
| `CoinsBounded` | `[](crashes = 0 => NoExtraCoins)`, under the same |
| `HistoryIsComplete` | `[](crashes = 0 => HistoryComplete)`, under `OneThread` |
| `ExplorerShowsAll` | `[](crashes = 0 => ExplorerCovers)`, under `OneThread`, `[]IdsUnique` and `GenesisHeaded` |
| `WorkerBlocksPass` | `WorkerBlockPasses`, crashes included, under `OneThread`, `TransfersPlain` and `[](~failed /\ FewTips /\ TiesAgree)` |

Assumptions: `HashAssumption` (hashes are positive naturals, genesis one of
them); `GenesisAssumption` (the transactions of genesis spend nothing and have ids of
their own); `ExplorerAssumption` (the limits of the explorer are naturals, the one on
matches not zero).  The hypotheses of single theorems:

* `OneThread`: one thread connects blocks.  With two, the run `race` refutes the
  statement about the ledger.
* `BlocksTyped`: the transactions of the blocks are of the types of the code, which
  Rust guarantees.
* `IdsUnique`: `BlocksTyped`, and on the chain of a stored block, paid coinbases of
  merged blocks included, an id names one transaction, and a transaction that spends
  nothing occurs once.  Ids are hashes of what a transaction says; a coinbase says
  address, score and reward only, so two blocks of one miner at one score can share
  one (section 3).  It is therefore a hypothesis and no assumption on the program.
  TLC found it to hold in every state of the instances of `serial`, `merge`, `miner`,
  `reject`, `undo` and `race`.
* `BlocksGood`: `BlocksTyped`, and a stored block whose transactions are valid on the
  ledger of its selected parent is `Connectable` there (below: its outputs are new).
  Until a crash it follows from `IdsUnique`; the theorems that need it across crashes
  state it.
* `GenesisHeaded`: of the transactions that fund the common prefix only the first may be
  a coinbase.  Genesis stands for several blocks (section 2), and `get_address_detail`
  counts the first transaction of each.
* `FewTips`, `TiesAgree`, `TransfersPlain`: there are no more tips than a block may name,
  tips of one score have one target, and no transfer names one output twice.  The code
  sees to none of the three (section 3), and each is needed: these are the ways in which a
  node can refuse what its own worker mines, with a reorganize that has failed, after which
  the worker's target stays where it was.

The argument.  None of the properties is inductive by itself.  `GdCanonical`
needs that the parents of a block being connected have their entries, hence
`DagClosed` for the block a thread holds, and that the entries are canonical;
`DagClosed` needs that a thread that is about to write a block has seen its
parents stored.  `IInv` has four parts: `StoreTypeOK`; `NetInv`, every block of
the network was made from blocks that were there and carries the data its
parents' data gives; `StoreInv`, the three properties of the store and the tips;
`ThreadInv(t)`, what thread `t` knows at its label (from `connect` on, the
parents of its block are stored; from `put_block` on, its GhostDAG entry is
written; from `put_header` on it is stored; from `put_tips` on it has a header;
orphans in the snapshot `ready` have their parents; the worker's template builds
on stored tips).  All of these are facts about growing sets, so the steps of
other threads cannot disturb them (`ThreadKeeps`), and a crash only resets
labels.  There is one lemma per action; actions that write nothing of the store
share `FrozenKeeps`.  `TipsAfterFacts` and `RetainKeeps` say what
`insert_block` does to the list of tips; `LeastNat` is the one use of the order
of the naturals.  `IInv` was first tried with TLC on the instance of `threads`.

`TipsAreExact` adds `TipsInv` to `IInv`: the tips, each once, are the *announced*
blocks without an announced child, where a block is announced once `insert_block` has
returned, that is, all stored blocks but the one between `put_block` and `put_tips`.
A block that is being inserted has no stored child by `DagClosed`, and `RetainExact`
says what `Vec::retain` leaves of the list.  Both hypotheses are needed: two threads
may retain and push around each other, and a crash after `put_block` leaves a stored
block that no list of tips names (section 3).

The ledger.  Four more invariants are added to `IInv`, each with one lemma per action:

* `ShapeInv`: genesis has no parents, every other block a list of blocks that exist, and
  those of a block with an entry are stored; so the selected parents form a tree (`GdTree`,
  scores fall towards genesis), and an induction along them (`TreeInduction`) is possible.
* `LedgerIInv`: until a `reorganize` fails, the ledger is the replay of the tip
  that the thread inserting a block has read, or else of the selected tip (`Applied`); every undo record is the one
  that connecting its block on the replay of its selected parent gives (`UndoOf`); and a
  failure before a crash has a stored block to blame that its own chain refuses
  (`BlameInv`).  The step is `ReorganizeAgreesWithReplay` of `LedgerProofs`: the whole of
  `reorganize` is one step of `Node`, and a restart replays the chain by definition.
* `KinInv`: a block's past is its parents and theirs, without itself, and stored with it.
* `MergeInv`: the parents of a block, and of the worker's template, are no ancestors of each
  other, since they were the tips of one moment; with `KinInv`, no block is merged, and its
  coinbase paid, twice along a chain.

`Uncrashed` is the conjunction of the four; `MergeInv`, and so `Uncrashed`, is only claimed
until a crash.

From it and `IdsUnique` `NamesAreGood` derives `BlocksGood`.  Its heart is `Apt`: after the
effects of a chain, what is unspent was made by them and what they took was made by
them and is gone.  A transfer that is valid spends something unspent; had it been
applied before, its inputs would be gone for good; so its outputs are new, and
those of a coinbase are by `IdsUnique`.  No such argument is possible after a crash: the
restart replays without validating, the tips it reads may be ancestors of each other, and
undo data may be missing (section 3, `undo`).

`SpentExactly`, `NoExtraCoins` and `MaturityKept` then speak of the replay of a
selected chain only.  `Exact` and `Bounded` are carried along it block by block: `Effects` is
the set of what the blocks of the `Path` and the coinbases they pay bring about,
`BlockMintsSubsidy` bounds each step, and a spender on the chain has found its coinbase
as validation left it, with the height it was paid at.

The history of an address (`Explorer`).  The walk of `get_address_blocks` is a recursive
function of the number of rounds.  `RoundWalks` is its invariant: what has been pushed and
is stored is visited or still on the stack, each block is visited once, and what can still
be pushed (`Remaining`) bounds the rounds left, so that the walk ends (`WalkVisits`).  It
begins at the tips, and reaches every stored block (`FromTipsVisits`): a highest one that
was not visited is either announced by no child, and then a tip by `TipsExact`, or has a
child, which is higher and so was visited.  A block is higher than its parents and so than
its past (`PastScored`), and the rows come in the order of the scores (`ScoreOrders`,
`RankExists`: in a strict order of a finite set each rank is taken); what stops the walk at
the cap is counted by `MatchedCount`.

What the explorer shows.  The walk from the selected tip reaches its chain and the blocks
that chain has merged (`FromTipVisits`, by induction along the selected parents, which are
parents), and no stored block is higher than the selected tip (`TipIsHighest`: a highest one
is a tip, and `BestTip` takes a highest tip).  Every coin was made by an effect of the chain
(`LedgerSourced`), and so is an output the walk has counted (`CoinsOnWalk`).  Its outpoint
names that output, so that no two coins share one (`BalanceShown`); that of a coinbase is of
the first transaction of a block, because validation saw to it (`MinedShown`).

The worker's block.  `WorkerIInv` says what its template is made from: the tips, the data
of these and the target of `diffTip` (`Stamped`), and that with one thread nothing of it
moves before `connect_block` looks at the block; and that the difficulty manager has
recorded the selected tip, but for the connect_block in progress (`TargetInv`).  Its body is the
fold `Pick`, opened as those of the ledger: no two transactions in it spend one output
(`PickFits`).  Validation walks back from another parent than the worker
(`DifficultyParent`), but one of the same score (`TargetsAgree`).

Only model-checked of `Node`: `OrphansConnect` (liveness), and what `SelectedIndex` and
`BluePositions` compute.

`FinanceProofs` proves, for every word width, fee, amount, height, number of
callers, members and calls:

| theorem | states | inductive invariant |
|---|---|---|
| `PoolTypeCorrect`, `ProductHolds` | reserves stay words; `ProductNeverFalls` | `PoolTypeOK` |
| `DepositsAreDistinct`, `DepositIsAnswered` | `[]OneRequestPerDeposit`; `DepositAnswered` | `VaultIInv` |
| `SqrtIsFloor` | `integer_sqrt(n)` is the floor of the root, for every n | |
| `HoldersNotDiluted` | `NoDilution` | `PoolIInv` |
| `ZusdIsBacked` | `[]ZusdBacked`, given `[]DepositsFit` | `VaultIInv`, `Backed` |
| `CollateralIsConserved`, `TermIsServed` | `[]CollateralConserved`; `HeldFullTerm` | `QuarantineIInv` |
| `OrderIsCommitted`, `KeyIsConsumed` | `[]RevealedInOrder`; `[]KeyOpensOneQueue` | `EncryptedIInv` |

Assumptions: `AmmAssumption` (a fee of at most 100%), `VaultAssumption`
(1 <= threshold <= signers of `vaultDeposit` <= validators, as `generate_keys` and
the node's 2 of 3 have it), `QuarantineAssumption` (a member locks no more than a
u128 in its life; the supply cap implies it), `EncryptedAssumption` (no key is the
absence of one), `WordsAssumption`.

The arguments.  `SwapKeepsProduct`: with reserves x, y, a payment a of which
b <= a counts, and the output o = y*b div (x+b), rounding down gives
o*(x+b) <= y*b, hence (x+b)*(y-o) >= x*y, and the fee a-b only adds.
`NoDilution` is of degree four, but each side can be taken alone: with L shares, s of them
new, each reserve x that grew by a has (L+s)*x <= L*(x+a), since s is rounded down, and
the two inequalities of numbers that are not negative multiply (`DilutionStep`); a removal
is the same read backwards, a swap leaves L alone, and `PoolIInv` says that a pool with
shares has reserves.  The first add mints the root of the product, which
is why `SqrtIsFloor` matters: the iteration of `integer_sqrt` is never below the root,
because a mean is never below the geometric mean (`NewtonFacts`), falls while it is above,
and is therefore the floor when it stops.
`VaultIInv` adds to the distinctness of the queue that a caller between its two
lock sections holds the index of the request with its own hash: requests are never
removed or moved, so other callers cannot disturb it; then the request it validates
is the one the property speaks of.  `Backed` says that minted and withheld zUSD are
the sum of the requests that are minted; `CreditAdds` that a mint moves the amount of
one request, not counted before, into the two counters, and no step takes a request
out of the minted ones.  The hypothesis `DepositsFit` (all deposits ever presented
together fit a u128) is needed: the counters saturate.  `QuarantineIInv` adds that an entry's unlock
height is the one its last offence gives and that who has no entry has nothing
locked.  `EncryptedIInv` follows one line, the revealed entries and then the
waiting ones: submitting adds a place at its end, decrypting moves the border,
clearing cuts the end.

`MempoolProofs` proves, for every set of transactions, size and number of removing
threads, under the hypothesis `OneAdder` (the passing run has the same; with two
adders the statements are false):

| theorem | states |
|---|---|
| `MempoolInvariant` | `MempoolSpec => []MempoolIInv` |
| `OutputsAreReleased` | `[]SpentReleased` |
| `MempoolImplementsSet` | `MempoolSpec => ImplementsSet`, the refinement of `SetMempool` |

The argument: between `Track` and `Insert`, and between `TakeEntry` and `Unspend`, a
thread *holds* a transaction whose outputs are marked though it is no member.
`MempoolIInv` says that each marked output has exactly one owner, a member or a
holder; that what an adder has found free stays free until it marks it, because the
others only remove; and that its txid and its place stay free for the same reason.
`Insert` and `TakeEntry` then only move an owner, `Unspend` takes away what nobody
else owns.  `Insert` maps to `AddMember`, `TakeEntry` to `DropMember`, every other step to
a stutter.

`RuntimeProofs` proves, for every window, word width, gas price, limit and guest:

| theorem | states | inductive invariant |
|---|---|---|
| `GovernanceTypeCorrect` | only valid parameters are pending or in force | `GovernanceIInv` |
| `ProposalsApplyInOrder`, `MajorityCarries` | `[]AppliedInOrder`; `[]ApprovalIsMajority` | `GovernanceIInv` |
| `ContractsTypeCorrect`, `GasIsPaid` | fuel and meter in range; `[]GasPaysForState` | `ContractsIInv` |
| `RootBinds`, `StateRootCommits` | two storages with one root are one; `[]StateRootBinds` | `StateMapIInv` |
| `TreesAgree`, `ProofsBind`, `InclusionProofsSound` | both tree loops; proofs of inclusion; `[]MerkleProofsSound` | `StateMapIInv` |

`GovernanceIInv` adds that ids follow the order of the windows, that every pending
window is still open at the last height processed, that tallies are the exact votes
cut at the largest word, and that all that was applied has a smaller id than all that
is pending: a block therefore closes a prefix of the ids, and only at a new height.
Cutting at every vote equals cutting at the end (`SaturateOnce`), and a cut sum that
is larger belongs to a larger exact one.  `ContractsIInv` says of each execution that
neither counter has passed the limit and that the meter has been charged for every
access let through; burning fuel does not touch the meter, a charge that fails lets
nothing through.  Assumptions: `GovernanceAssumption`, `ContractsAssumption` (prices of
storage are positive), `StateAssumption` (finitely many contracts and keys; keys and
values are strings of numbers), `WordsAssumption`.

The trees.  The loops of `Merkle` are recursive functions over their rounds, which the
proofs open by their tables (`LevelTable`, `PairTable`, `JoinTable`, `ProofTable`).  A round
of either loop gives the same level (`SameLevel`) and shortens it, so that after as many
rounds as there are hashes one is left (`LevelFacts`).  `ProofsBind` follows one position up:
in each round (`Leads`, `RoundLeads`) the steps recorded so far lead from the hash at that
index, and from no other hash, to the hash at the position the round has come to, because
two different pairs have different parents (`CombineBinds`); an odd level's last hash is its
own sibling, and the argument does not need siblings to differ.  `RootBinds` goes the other
way: a *part* of a root is what every set that holds the root and is closed under taking
nodes apart also holds.  A round keeps the parts that are no nodes (`PairsKeepParts`), so
those of a root are its leaves (`TreeParts`), and those of the state root the entries
(`ContractParts`, `RootParts`): two storages with one root have the same entries.  An entry
says which contract, key and value it is of if the lengths of the keys are known
(`EntryBinds`), which is the condition of `StateRootBinds`.  That the leaves of different
contracts reach the root in an order matters only for there being one: `SortedExists` and
`BeforeOrders` show that the sorts of `state_root` have a result.  `StateMapIInv` says that
no namespace is empty, which `delete` must see to: an empty one would hash to `ZERO`.

`LedgerProofs` proves about the operators of the ledger, for every ledger, block,
schedule and set of addresses and ids:

| theorem | states | under |
|---|---|---|
| `DisconnectRestores` | `disconnect_block` after a successful `apply_block_with_merges` gives the ledger before it, entry by entry, burned total included | `Connectable` |
| `ValidatedBlockApplies` | `apply_block` succeeds on what `validate_block_transactions` accepts | none |
| `BlockMintsSubsidy` | a validated block adds at most `block_reward` to holdings and burned total | `FreshBlock` |
| `ReorganizeAgreesWithReplay` | `reorganize` turns the replay of the old chain into the replay of the new one, with exact undo data; or leaves the ledger alone, and then undo data of the old chain is missing or a stored block is refused by its own chain | `World`, exact undo data |
| `ReorganizeIsAtomic` | `reorganize` ends in the ledger of the new tip, with undo data of every block it connected, or fails and hands back the ledger it was given | `Unwinds`, `Winds`, no block twice in a chain |

`FreshBlock`: no output of the block is unspent already and no two of its transactions
share an id.  The code relies on ids being hashes; a coinbase id covers address, height
and reward only, so the condition can fail for coinbases (section 3) and is stated, not
assumed of the program.  `Connectable` adds that the block does not spend the reward of
a block it merges: that reward is paid only after the block's own transactions, so only
an output that shares its id could be there to spend.

The arguments.  The three loops are folds, and a fold over a sequence is the last entry
of a table of its intermediate results (`IsBlockRun`, `IsUndoRun`, `IsValidRun`): induction over the
positions of the block then relates two tables.  For `DisconnectRestores` the table of
the undo loop, read backwards, is the table of the apply loop: one transaction is undone
by `UndoRestores`, because its outputs are new and the entries it took are in its undo
data; merge rewards are exactly the outpoints recorded as created.  For
`ValidatedBlockApplies` the two loops run side by side: what validation has not seen
spent and finds in the ledger or among the created outputs is unspent when `apply_block`
gets there.  For `BlockMintsSubsidy` the same pair of tables carries an equation: holdings
plus burned plus the fees counted so far are what they were, plus the coinbase.

`Unwinds` says of the old branch that each block which can be disconnected (it and
all above it are stored and have undo data) was connected where it stands, with that
undo data, and was `Connectable` there; nothing is asked of the blocks below the first
one without undo data.  `Winds` says of the new branch that a block which is stored and
valid on the ledger below it is `Connectable` there; nothing is asked of the blocks
above the first invalid one.  So the theorem covers a failure at any block of either
loop: undo data missing on the old branch, a block missing or invalid on the new one.
The argument: each of the four loops of `reorganize` is a fold with a table
(`IsLoopRun`).  The first stops after some k blocks at the k-th ledger of the old branch
(`DisconnectLoop`), the second after m blocks at the m-th ledger of the new one and with
the undo data just written (`ConnectLoop`); the undo loop then goes back from m to 0 by
`DisconnectRestores` and `ValidatedBlockApplies` (`UndoLoop`), and the reconnect loop from k
to 0 by `Unwinds` (`ReconnectLoop`).

`ReorganizeAgreesWithReplay` discharges `Unwinds` and `Winds` for the ledgers of a
replay.  `World` says that the entries form a tree of typed blocks and that a stored valid
block is `Connectable` on the replay of its selected parent.  The two branches meet in a block
whose replay both chains pass (`OldBranch`, `NewBranch`), each ledger on the way down is the replay
of the block there, and undo data that is exact for each block is what `Unwinds` asks
for.  Hence the result is the replay of the new tip whatever the old one was, which is
what a restart computes.

`ConsensusProofs` proves, for every schedule, window, lane and history:

| theorem | states | inductive invariant |
|---|---|---|
| `ScheduleIsKept`, `SupplyIsCapped` | `[]SumMatchesSchedule`; the supply is at most `max` | `MintingIInv` |
| `WorkerAgrees` | `[]WorkerBitsExpected` | `DifficultyIInv` |
| `ChainIsGood` | every target after genesis is between one and the easiest | `GoodChain` |
| `RetargetStaysBounded` | `[]RetargetBounded` | `DifficultyIInv`, `GoodChain` |

For the first two, `RewardIsGrowth` shows that `block_reward` at a height is what
`total_emitted_at_height` grows by there, the cut at `max_supply` included: the height
adds one block to one epoch of the sum.  `DifficultyIInv` says that the worker's manager is what a
rebuild from the chain makes of it; then an engine fed with the last `WALK` blocks of a lane
keeps the same window as one fed with all of them, as long as `WALK > WINDOW`
(`DifficultyAssumption`; the code has 20, and 10 or 12).

`RetargetStaysBounded` holds for every base, number of digits and precision, the code's 256,
32 and 100 among them.  `RetargetAssumption` says that the target of `GENESIS_BITS` is not
zero and that twice the precision times it stays below the top of the word: 0x1F0FFFFF leaves
twelve bits, and 2 * 100 needs eight.  The argument: the timespan is within a third and
three times the target (`TimespanFacts`); scaling numerator and denominator down to the
precision moves their quotient by at most what `RetargetStepBounded` grants (`FractionFacts`); the
average of targets that are no easier than the easiest is no easier either, whether or not
their sum wraps; and rounding a target to compact bits lowers it, but not to zero.  The
genesis block is exempt, because it has bits of its own; it can only be the oldest of a
lane's window, whose target does not count.

`WalletProofs` proves, for every number of threads, members, blocks, amounts and any
word width:

| theorem | states | inductive invariant |
|---|---|---|
| `SeedIsKept` | `LoadedSeedKept` | none needed |
| `PaymentsAlwaysPass` | `[]PaymentsPass` | `PaymentsOk` |
| `PaidIsBooked` | `[]ReceivedIsBooked` | `PaymentsOk` |

The hypothesis `NamesFit` of the last two says that the constants are of their types
and that the first ledger holds no output of a transaction yet to be built.  `PaymentsOk`
has six parts.  `NamesOk`: ids are given once, and what a payment spends was made by no
transaction that is still waiting; without it a later block could bring an output back
under a payment that names it.  `PassOk`: a payment in the mempool, or built and not yet
there, passes the test of the worker if its coins are unspent; a block only removes
coins or adds unknown ones (`BlockKeeps`), and more height never makes a coin immature
(`PassesLater`).  `BookOk`: what members have received, plus what waits in the mempool
for them, is at most what is booked plus the payout the worker has submitted and
not yet booked; so a payout may be mined before, after or never, and is counted once.
The other three are types.  There is one lemma per action; what a payer builds is
covered by `NewPayment`, whose premises are that its price is covered and its coins are
mature.  TLC checked `NamesOk`, `PassOk` and `BookOk` on the instance of
`components` before they were proved.

`FoldProofs` is what the others stand on.  An induction over data is done on the set of
the numbers for which the statement holds (`SetInduction`), and a recursive function or a
fold is opened by first showing that its table exists (`RecursionExists`,
`FoldTableExists`).  It also has the facts about strict orders of a finite set that the
sorted leaves of a state root and the sorted histories of `Explorer` need: one of its elements is
the last (`TopExists`), and one has each rank (`RankExists`).

Only model-checked: the liveness properties `OrphansConnect`, `PeersConverge` and
`FileCatchesUp`.

## 5. Plan

Done: the block store, the order, the ledger, reorganization, restart, intake,
orphans, the worker; emission and finance; mempool with its refinement, payments and
pool, difficulty, runtime, sync and peers, explorer, desktop wallet.  Left, in this
order:

1. An abstract ledger (a set of transactions that takes effect) which `Node` with one
   thread implements.
2. A member's side of the pool: learned target and payout address, queued shares.
3. Three nodes in `Sync`, one of them dialled only.
4. The stand-alone validator against the node's checks.

## 6. Not modelled

The command line (one RPC call per command), the wallet library (key derivation,
encryption, signing), framing and JSON, hash functions and lanes, screens and layout of
the desktop wallet: I/O, layout or cryptography.  The stand-alone validator, `p2p.rs`
and `sync.rs`, which the node does not use.  Of the node: status reports,
authentication, relay of mempool transactions between nodes, the limit of concurrent
sessions, a member's view of its pool.  `PROJECT.json` lists every part with its
status.
