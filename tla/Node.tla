-------------------------------- MODULE Node --------------------------------
(***************************************************************************)
(* One Zentra node (crates/zentrad/src/node.rs): how blocks found by peers *)
(* and by its own mining worker enter the block DAG, move the UTXO set,    *)
(* wait as orphans, survive a crash.                                       *)
(*                                                                         *)
(* accept_external_block, connect_block and try_connect_orphans run in     *)
(* p2p threads, the mining loop in its own thread, and no lock covers a    *)
(* whole connect_block: each database write and each section under one     *)
(* lock is a step here.  The database survives a crash, nothing else does. *)
(*                                                                         *)
(* Genesis stands for the prefix of the chain that all branches share; its *)
(* transactions fund the outputs the transfers spend.                      *)
(***************************************************************************)
EXTENDS Reorg

CONSTANTS
  Hash,               \* names of the blocks that may be found; bounds the DAG
  Genesis,            \* hash of the genesis block
  GenesisTxs,         \* its transactions
  PeerThreads,        \* threads that run accept_external_block
  SyncThreads,        \* those of them that run sync_from_peer
  MinerThreads,       \* the mining worker (empty, or one thread)
  MAX_BLOCK_PARENTS,  \* 10 in the code
  MAX_ORPHANS,        \* cap of the orphan pool and of `wanted` (10000)
  MAX_MEMPOOL,        \* cap of the mempool
  MAX_BLOCK_TXS,      \* transactions the worker puts in a block (10)
  MIN_RELAY_FEE,      \* least fee of a relayed transaction
  Transfers,          \* sequence of transactions, by falling fee rate
  BitsOf,             \* target after the chain that ends in a block; Zero: genesis_difficulty
  Miner,              \* the node's own payout address
  PayeeOf,            \* payout address of the peer that finds a block
  PeerBodies,         \* lists of transfers a peer may put in a block
  PeerFees,           \* fees a peer's coinbase may claim on top of the subsidy
  ScoreErrors,        \* by how much a peer may misstate the blue score
  MaxCrashes          \* bound on crashes

ASSUME HashAssumption == Hash \subseteq Nat \ {0} /\ Genesis \in Hash

\* The transactions of genesis bring outputs into being and spend none.
ASSUME GenesisAssumption ==
  /\ GenesisTxs # <<>>
  /\ \A i \in DOMAIN GenesisTxs : GenesisTxs[i].inputs = <<>>
  /\ \A i, j \in DOMAIN GenesisTxs : GenesisTxs[i].id = GenesisTxs[j].id => i = j

Threads == PeerThreads \cup MinerThreads

VARIABLES
  (* the network *)
  blocks,    \* every block found so far, by hash
  (* the database *)
  gd,        \* GhostDAG column family
  store,     \* hashes in the block column family
  headers,   \* hashes in the header column family
  dbTips,    \* metadata "dag_tips"
  undos,     \* undo column family
  (* the memory of the node *)
  tips,      \* DagGraph::tips
  led,       \* utxo_set
  diffTip,   \* tip of the chain the difficulty manager has recorded
  orphans, wanted,
  mempool,   \* positions in Transfers
  mining,    \* is_mining
  (* the threads *)
  pc,
  cur,       \* block being connected
  old, new,  \* selected tip before and after its insertion
  caller,    \* who called connect_block
  ready,     \* rest of the snapshot of try_connect_orphans
  missing,   \* parents found missing
  template,  \* block the worker searches a nonce for
  (* history and bounds *)
  failed,    \* some reorganize has failed
  crashes

db == <<gd, store, headers, dbTips, undos>>
mem == <<tips, led, diffTip, orphans, wanted, mempool, mining>>
locals == <<cur, old, new, caller, ready, missing, template>>
vars == <<blocks, db, mem, pc, locals, failed, crashes>>

----------------------------------------------------------------------------
(* Blocks                                                                  *)

\* A block of the network, with its header fields.  past is the set of its
\* ancestors and data what a node that stores them all computes for it.
NetGd == [h \in DOMAIN blocks |-> blocks[h].data]

Past(parents) ==
  Range(parents) \cup UNION {blocks[p].past : p \in Range(parents)}

\* The parent calculate_expected_difficulty walks back from: the heaviest
\* one that has a header, the last listed of several; Zero if there is none.
DifficultyParent(parents, known) ==
  LET seen == {i \in DOMAIN parents : parents[i] \in known}
      best == CHOOSE i \in seen : \A j \in seen :
                \/ blocks[parents[j]].score < blocks[parents[i]].score
                \/ blocks[parents[j]].score = blocks[parents[i]].score /\ j <= i
  IN  IF seen = {} THEN Zero ELSE parents[best]

ExpectedBits(parents, known) == BitsOf[DifficultyParent(parents, known)]

\* build_block_template: the coinbase id covers the payout address, the
\* height and the reward, and nothing else.
NewBlock(parents, miner, fees, body, score, work, bits) ==
  LET reward == BlockReward(Schedule, score) + fees
  IN  [parents |-> parents, score |-> score, work |-> work, bits |-> bits,
       txs     |-> [i \in {1} \cup {j + 1 : j \in DOMAIN body} |->
                      IF i = 1 THEN CoinbaseTx(<<"coinbase", miner, score, reward>>, miner, reward)
                      ELSE Transfers[body[i - 1]]],
       own     |-> miner = Miner,
       past    |-> Past(parents),
       data    |-> ProcessBlock(parents, NetGd)]

GenesisBlock ==
  [parents |-> <<>>, score |-> 0, work |-> 0, bits |-> BitsOf[Zero],
   txs |-> GenesisTxs, own |-> FALSE, past |-> {}, data |-> GenesisData]

\* A block of our own worker reaches the peers only from our database.
Public(h) == blocks[h].own => h \in store

\* A faulty variant: only the first parent is looked for.
HasFirstParent(h, known) ==
  blocks[h].parents # <<>> => Head(blocks[h].parents) \in known

HasParents(h, known) == Range(blocks[h].parents) \subseteq known

\* validate_block_header and the comparison with process_block; the proof of
\* work, the timestamp and the merkle root of a block are taken to be good.
ValidHeader(h) ==
  LET b == blocks[h] IN
    /\ Len(b.parents) <= MAX_BLOCK_PARENTS
    /\ b.bits = ExpectedBits(b.parents, headers)
    /\ LET d == ProcessBlock(b.parents, gd) IN b.score = d.score /\ b.work = d.work

SelectedTip == BestTip(blocks, Range(tips) \cap headers)

----------------------------------------------------------------------------
(* The network: a peer finds a block                                       *)

\* Lists of blocks that can be the tips of some node: no one of them is an
\* ancestor of another, and all are well scored.
TipLists ==
  LET good == {h \in DOMAIN blocks : Public(h) /\ blocks[h].score = blocks[h].data.score}
  IN  {ps \in UNION {[1..n -> good] : n \in 1..MAX_BLOCK_PARENTS} :
         \A i, j \in DOMAIN ps : i # j => /\ ps[i] # ps[j]
                                          /\ ps[i] \notin blocks[ps[j]].past}

PeerFinds ==
  \E h \in Hash \ DOMAIN blocks, ps \in TipLists, body \in PeerBodies,
     fees \in PeerFees, err \in ScoreErrors :
    LET d == ProcessBlock(ps, NetGd) IN
    /\ blocks' = Put(blocks, h, NewBlock(ps, PayeeOf[h], fees, body, d.score + err, d.work,
                                         ExpectedBits(ps, DOMAIN blocks)))
    /\ UNCHANGED <<db, mem, pc, locals, failed, crashes>>

----------------------------------------------------------------------------
(* The threads                                                             *)

Init ==
  /\ blocks   = [h \in {Genesis} |-> GenesisBlock]
  /\ gd       = [h \in {Genesis} |-> GenesisData]
  /\ store    = {Genesis}
  /\ headers  = {Genesis}
  /\ dbTips   = <<Genesis>>
  /\ undos    = <<>>
  /\ tips     = <<Genesis>>
  /\ led      = Replay(Genesis, blocks, gd, store)
  /\ diffTip  = Genesis
  /\ orphans  = {}
  /\ wanted   = {}
  /\ mempool  = {}
  /\ mining   = (MinerThreads # {})
  /\ pc       = [t \in Threads |-> "idle"]
  /\ cur      = [t \in Threads |-> Zero]
  /\ old      = [t \in Threads |-> Zero]
  /\ new      = [t \in Threads |-> Zero]
  /\ caller   = [t \in Threads |-> "accept"]
  /\ ready    = [t \in Threads |-> {}]
  /\ missing  = [t \in Threads |-> {}]
  /\ template = [t \in Threads |-> <<>>]
  /\ failed   = FALSE
  /\ crashes  = 0

Goto(t, label) == pc' = [pc EXCEPT ![t] = label]

\* connect_block returns `ok` to its caller: accept_external_block looks at
\* the orphans only after a success, the loop over the orphans goes on.
Return(t, ok) ==
  /\ Goto(t, IF caller[t] = "orphans" THEN "drain"
             ELSE IF caller[t] = "accept" /\ ok THEN "scan" ELSE "idle")
  /\ cur' = [cur EXCEPT ![t] = Zero]
  /\ old' = [old EXCEPT ![t] = Zero]
  /\ new' = [new EXCEPT ![t] = Zero]
  /\ caller' = [caller EXCEPT ![t] = "accept"]
  /\ UNCHANGED <<ready, missing, template>>

\* accept_external_block up to the decision to park: `missing` is read here,
\* the orphan pool is written in the next step.
Accept(t, h) ==
  /\ pc[t] = "idle" /\ t \in PeerThreads
  /\ h \in DOMAIN blocks \ store /\ Public(h)
  /\ cur' = [cur EXCEPT ![t] = h]
  /\ missing' = [missing EXCEPT ![t] = Range(blocks[h].parents) \ store]
  /\ Goto(t, IF HasParents(h, store) THEN "connect" ELSE "park")
  /\ UNCHANGED <<blocks, db, mem, old, new, caller, ready, template, failed, crashes>>

\* A faulty variant: the missing parents are not asked for.
WantedNothing(t) == wanted

WantedAfter(t) ==
  IF Cardinality(wanted) < MAX_ORPHANS THEN wanted \cup missing[t] ELSE wanted

Park(t) ==
  /\ pc[t] = "park"
  /\ orphans' = IF Cardinality(orphans) < MAX_ORPHANS THEN orphans \cup {cur[t]} ELSE orphans
  /\ wanted' = WantedAfter(t)
  /\ missing' = [missing EXCEPT ![t] = {}]
  /\ cur' = [cur EXCEPT ![t] = Zero]
  /\ Goto(t, "idle")
  /\ UNCHANGED <<blocks, db, tips, led, diffTip, mempool, mining,
                 old, new, caller, ready, template, failed, crashes>>

\* connect_block: already stored, or invalid.
Refuse(t) ==
  /\ pc[t] = "connect"
  /\ \/ cur[t] \in store
     \/ ~ValidHeader(cur[t])
     \/ ~SelfContained(blocks[cur[t]])
  /\ Return(t, FALSE)
  /\ UNCHANGED <<blocks, db, mem, failed, crashes>>

\* Faulty variants: the data is not written; the selected parent of the entry
\* is the node's own selected tip.
PutGhostdagLater(t) ==
  /\ pc[t] = "connect"
  /\ cur[t] \notin store /\ ValidHeader(cur[t])
  /\ old' = [old EXCEPT ![t] = SelectedTip]
  /\ Goto(t, "put_block")
  /\ UNCHANGED <<blocks, db, mem, cur, new, caller, ready, missing, template,
                 failed, crashes>>

PutGhostdagOnTip(t) ==
  /\ pc[t] = "connect"
  /\ cur[t] \notin store /\ ValidHeader(cur[t])
  /\ old' = [old EXCEPT ![t] = SelectedTip]
  /\ gd' = Put(gd, cur[t], [ProcessBlock(blocks[cur[t]].parents, gd)
                              EXCEPT !.selected = SelectedTip])
  /\ Goto(t, "put_block")
  /\ UNCHANGED <<blocks, store, headers, dbTips, undos, mem,
                 cur, new, caller, ready, missing, template, failed, crashes>>

\* connect_block: the selected tip is read, the block validated and its
\* GhostDAG data written.
PutGhostdag(t) ==
  /\ pc[t] = "connect"
  /\ cur[t] \notin store
  /\ ValidHeader(cur[t])
  /\ SelfContained(blocks[cur[t]])
  /\ old' = [old EXCEPT ![t] = SelectedTip]
  /\ gd' = Put(gd, cur[t], ProcessBlock(blocks[cur[t]].parents, gd))
  /\ Goto(t, "put_block")
  /\ UNCHANGED <<blocks, store, headers, dbTips, undos, mem,
                 cur, new, caller, ready, missing, template, failed, crashes>>

\* Vec::retain: the elements of s that are not in gone, in their order.
Retain(s, gone) ==
  LET kept  == {i \in DOMAIN s : s[i] \notin gone}
      at(k) == CHOOSE i \in kept : Cardinality({j \in kept : j < i}) = k - 1
  IN  [k \in 1..Cardinality(kept) |-> s[at(k)]]

\* Faulty variants: only the first parent stops being a tip; the new block
\* does not become one.
TipsAfterFirst(h) == Append(Retain(tips, {Head(blocks[h].parents)}), h)
TipsAfterNoPush(h) == Retain(tips, Range(blocks[h].parents))

\* insert_block: a new block is a tip, its parents are no longer tips.
TipsAfter(h) == Append(Retain(tips, Range(blocks[h].parents)), h)

\* insert_block: put_block writes the block, then its header; then the tips
\* change, in memory and in the metadata under one lock.
PutBlock(t) ==
  /\ pc[t] = "put_block"
  /\ store' = store \cup {cur[t]}
  /\ Goto(t, "put_header")
  /\ UNCHANGED <<blocks, gd, headers, dbTips, undos, mem, locals, failed, crashes>>

PutHeader(t) ==
  /\ pc[t] = "put_header"
  /\ headers' = headers \cup {cur[t]}
  /\ Goto(t, "put_tips")
  /\ UNCHANGED <<blocks, gd, store, dbTips, undos, mem, locals, failed, crashes>>

PutTips(t) ==
  /\ pc[t] = "put_tips"
  /\ tips' = TipsAfter(cur[t])
  /\ dbTips' = tips'
  /\ Goto(t, "select")
  /\ UNCHANGED <<blocks, gd, store, headers, undos, led, diffTip, orphans, wanted,
                 mempool, mining, locals, failed, crashes>>

\* The selected tip after the insertion.
Select(t) ==
  /\ pc[t] = "select"
  /\ new' = [new EXCEPT ![t] = SelectedTip]
  /\ Goto(t, IF SelectedTip = old[t] THEN "finish" ELSE "reorganize")
  /\ UNCHANGED <<blocks, db, mem, cur, old, caller, ready, missing, template,
                 failed, crashes>>

\* reorganize, which holds the UTXO lock throughout; when it fails the block
\* counts as rejected, but it has been inserted.
AfterReorganize(t, r) ==
  /\ led' = r.led
  /\ undos' = r.undos
  /\ failed' = (failed \/ ~r.ok)
  /\ IF r.ok THEN Goto(t, "rebuild") /\ UNCHANGED locals ELSE Return(t, FALSE)

DoReorganize(t) ==
  /\ pc[t] = "reorganize"
  /\ AfterReorganize(t, Reorganize(led, undos, old[t], new[t], blocks, gd, store))
  /\ UNCHANGED <<blocks, gd, store, headers, dbTips, tips, diffTip, orphans, wanted,
                 mempool, mining, crashes>>

\* rebuild_difficulty_history, then a running search is interrupted ...
Rebuild(t) ==
  /\ pc[t] = "rebuild"
  /\ diffTip' = new[t]
  /\ mining' = FALSE
  /\ Goto(t, IF mining THEN "resume" ELSE "finish")
  /\ UNCHANGED <<blocks, db, tips, led, orphans, wanted, mempool, locals, failed, crashes>>

\* ... and allowed again 10 ms later.
Resume(t) ==
  /\ pc[t] = "resume"
  /\ mining' = TRUE
  /\ Goto(t, "finish")
  /\ UNCHANGED <<blocks, db, tips, led, diffTip, orphans, wanted, mempool, locals,
                 failed, crashes>>

\* mempool.remove_confirmed with the transactions of the block.
Finish(t) ==
  /\ pc[t] = "finish"
  /\ mempool' = {m \in mempool : Transfers[m] \notin Range(blocks[cur[t]].txs)}
  /\ Return(t, TRUE)
  /\ UNCHANGED <<blocks, db, tips, led, diffTip, orphans, wanted, mining, failed, crashes>>

\* try_connect_orphans: a snapshot of the orphans whose parents are stored ...
Scan(t) ==
  /\ pc[t] = "scan"
  /\ LET now == {h \in orphans : HasParents(h, store)} IN
       /\ ready' = [ready EXCEPT ![t] = now]
       /\ Goto(t, IF now = {} THEN "idle" ELSE "drain")
  /\ UNCHANGED <<blocks, db, mem, cur, old, new, caller, missing, template, failed, crashes>>

\* ... which are connected one by one; then it scans again.
Drain(t) ==
  /\ pc[t] = "drain"
  /\ \/ /\ ready[t] = {}
        /\ Goto(t, "scan")
        /\ UNCHANGED <<orphans, wanted, locals>>
     \/ \E h \in ready[t] :
          /\ ready' = [ready EXCEPT ![t] = @ \ {h}]
          /\ orphans' = orphans \ {h}
          /\ wanted' = wanted \ {h}
          /\ cur' = [cur EXCEPT ![t] = h]
          /\ caller' = [caller EXCEPT ![t] = "orphans"]
          /\ Goto(t, "connect")
          /\ UNCHANGED <<old, new, missing, template>>
  /\ UNCHANGED <<blocks, db, tips, led, diffTip, mempool, mining, failed, crashes>>

\* The end of a round of sync_from_peer, which runs only while something is
\* wanted: each hash the peer was asked for leaves `wanted` whatever it
\* answered (a block it sends goes through Accept; a hash whose request was
\* lost stays), and the orphans are tried again.
SyncRound(t) ==
  /\ pc[t] = "idle" /\ t \in SyncThreads
  /\ wanted # {}
  /\ \E asked \in SUBSET wanted : wanted' = wanted \ asked
  /\ Goto(t, "scan")
  /\ UNCHANGED <<blocks, db, tips, led, diffTip, orphans, mempool, mining, locals,
                 failed, crashes>>

----------------------------------------------------------------------------
(* The mining worker                                                       *)

\* It starts a template on all tips, unless a peer sync is in flight.
StartTemplate(t) ==
  /\ pc[t] = "idle" /\ t \in MinerThreads
  /\ mining
  /\ \A s \in SyncThreads : pc[s] = "idle"
  /\ template' = [template EXCEPT ![t] = tips]
  /\ Goto(t, "pick")
  /\ UNCHANGED <<blocks, db, mem, cur, old, new, caller, ready, missing, failed, crashes>>

\* A candidate enters the block until it is full; one that does not fit is evicted.
Consider(acc, m, height) ==
  LET tx      == Transfers[m]
      clashes == \E i \in DOMAIN acc.body : Spends(Transfers[acc.body[i]]) \cap Spends(tx) # {}
  IN  IF m \notin mempool \/ Len(acc.body) >= MAX_BLOCK_TXS THEN acc
      ELSE IF ~tx.coinbase /\ ~clashes /\ Spendable(led, tx, height)
      THEN [acc EXCEPT !.body = Append(@, m)]
      ELSE [acc EXCEPT !.evicted = @ \cup {m}]

\* Goes through the candidates by falling fee rate.
Pick(height) ==
  FoldLeft(LAMBDA acc, m : Consider(acc, m, height), [body |-> <<>>, evicted |-> {}],
           [m \in DOMAIN Transfers |-> m])

Fees(body) == SumFunction([i \in DOMAIN body |-> Fee(led, Transfers[body[i]])])

\* A faulty variant: the score and the work of a chain of single parents.
StampNext(parents) ==
  [score |-> blocks[SelectedTip].score + 1, work |-> blocks[SelectedTip].work + 1]

\* The worker stamps its header with the data of the parents it has read.
Stamp(parents) == ProcessBlock(parents, gd)

\* The block the worker makes: scored on the tips it has read, its body
\* checked against the current UTXO set, its target that of diffTip.
FillTemplate(t) ==
  LET parents == template[t]
      d       == Stamp(parents)
      pick    == Pick(d.score)
  IN
  /\ pc[t] = "pick"
  /\ mempool' = mempool \ pick.evicted
  /\ template' = [template EXCEPT ![t] =
       NewBlock(parents, Miner, Fees(pick.body), pick.body, d.score, d.work, BitsOf[diffTip])]
  /\ Goto(t, "search")
  /\ UNCHANGED <<blocks, db, tips, led, diffTip, orphans, wanted, mining,
                 cur, old, new, caller, ready, missing, failed, crashes>>

\* mine_block finds a nonce, and the worker connects its block.
Find(t) ==
  /\ pc[t] = "search"
  /\ mining
  /\ \E h \in Hash \ DOMAIN blocks :
       /\ blocks' = Put(blocks, h, template[t])
       /\ cur' = [cur EXCEPT ![t] = h]
  /\ caller' = [caller EXCEPT ![t] = "worker"]
  /\ template' = [template EXCEPT ![t] = <<>>]
  /\ Goto(t, "connect")
  /\ UNCHANGED <<db, mem, old, new, ready, missing, failed, crashes>>

\* mine_block gives up when it sees that mining is off.
GiveUp(t) ==
  /\ pc[t] = "search"
  /\ ~mining
  /\ template' = [template EXCEPT ![t] = <<>>]
  /\ Goto(t, "idle")
  /\ UNCHANGED <<blocks, db, mem, cur, old, new, caller, ready, missing, failed, crashes>>

----------------------------------------------------------------------------
(* Mempool, RPC, crash                                                     *)

\* accept_external_tx with mempool.add_transaction.
AcceptTx(m) ==
  LET tx == Transfers[m] IN
  /\ m \notin mempool
  /\ Spendable(led, tx, blocks[SelectedTip].score)
  /\ Fee(led, tx) >= MIN_RELAY_FEE
  /\ Cardinality(mempool) < MAX_MEMPOOL
  /\ \A other \in mempool : Spends(Transfers[other]) \cap Spends(tx) = {}
  /\ mempool' = mempool \cup {m}
  /\ UNCHANGED <<blocks, db, tips, led, diffTip, orphans, wanted, mining, pc, locals,
                 failed, crashes>>

\* evict_older_than, in the dialer: a transaction has waited too long.
EvictTx(m) ==
  /\ m \in mempool
  /\ mempool' = mempool \ {m}
  /\ UNCHANGED <<blocks, db, tips, led, diffTip, orphans, wanted, mining, pc, locals,
                 failed, crashes>>

\* The RPCs start_mining and stop_mining.
SetMining(on) ==
  /\ MinerThreads # {}
  /\ mining # on
  /\ mining' = on
  /\ UNCHANGED <<blocks, db, tips, led, diffTip, orphans, wanted, mempool, pc, locals,
                 failed, crashes>>

\* The process dies and ZentraNode::new starts from the database.
Crash ==
  /\ crashes < MaxCrashes
  /\ crashes' = crashes + 1
  /\ tips' = dbTips
  /\ LET tip == BestTip(blocks, Range(dbTips) \cap headers) IN
       /\ led' = Replay(tip, blocks, gd, store)
       /\ diffTip' = tip
  /\ orphans' = {} /\ wanted' = {} /\ mempool' = {}
  /\ mining' = (MinerThreads # {})
  /\ pc' = [t \in Threads |-> "idle"]
  /\ cur' = [t \in Threads |-> Zero]
  /\ old' = [t \in Threads |-> Zero]
  /\ new' = [t \in Threads |-> Zero]
  /\ caller' = [t \in Threads |-> "accept"]
  /\ ready' = [t \in Threads |-> {}]
  /\ missing' = [t \in Threads |-> {}]
  /\ template' = [t \in Threads |-> <<>>]
  /\ UNCHANGED <<blocks, db, failed>>

----------------------------------------------------------------------------

\* connect_block and what follows it in the same thread.
Step(t) ==
  \/ Park(t)
  \/ Refuse(t)
  \/ PutGhostdag(t)
  \/ PutBlock(t)
  \/ PutHeader(t)
  \/ PutTips(t)
  \/ Select(t)
  \/ DoReorganize(t)
  \/ Rebuild(t)
  \/ Resume(t)
  \/ Finish(t)
  \/ Scan(t)
  \/ Drain(t)

Mine(t) ==
  \/ StartTemplate(t)
  \/ FillTemplate(t)
  \/ Find(t)
  \/ GiveUp(t)

Next ==
  \/ PeerFinds
  \/ \E t \in Threads : Step(t)
  \/ \E t \in Threads, h \in Hash : Accept(t, h)
  \/ \E t \in Threads : SyncRound(t)
  \/ \E t \in Threads : Mine(t)
  \/ \E m \in DOMAIN Transfers : AcceptTx(m)
  \/ \E m \in DOMAIN Transfers : EvictTx(m)
  \/ \E on \in BOOLEAN : SetMining(on)
  \/ Crash

Spec == Init /\ [][Next]_vars

\* Every thread that is inside a call goes on: weak fairness of Step(t),
\* which is enabled whenever the thread is inside a call.  The dialer starts
\* sync_from_peer every 6 seconds, and that ends with its rounds however
\* many blocks it was sent before: strong fairness of SyncRound(t).
Outside == {"idle", "pick", "search"}

Fairness ==
  /\ \A t \in Threads : []<>(pc[t] \in Outside) \/ []<><<Step(t)>>_vars
  /\ \A t \in SyncThreads : SF_vars(SyncRound(t))

FairSpec == Spec /\ Fairness

----------------------------------------------------------------------------
(* Types                                                                   *)

Labels == {"idle", "park", "connect", "put_block", "put_header", "put_tips", "select",
           "reorganize", "rebuild", "resume", "finish", "scan", "drain", "pick", "search"}

\* Types of the block store and of the threads, as connect_block sees them.
StoreTypeOK ==
  /\ DOMAIN blocks \subseteq Hash
  /\ DOMAIN gd \subseteq DOMAIN blocks
  /\ store \subseteq DOMAIN blocks
  /\ headers \subseteq store
  /\ tips \in Seq(store) /\ dbTips \in Seq(store)
  /\ orphans \subseteq DOMAIN blocks
  /\ pc \in [Threads -> Labels]
  /\ cur \in [Threads -> DOMAIN blocks \cup {Zero}]
  /\ ready \in [Threads -> SUBSET DOMAIN blocks]
  /\ DOMAIN template = Threads

----------------------------------------------------------------------------
(* The block store: with any threads, and across crashes                   *)

\* A stored block has its GhostDAG entry ("a block with no ghostdag silently
\* bricks every descendant"): the entry is written first, and stays.
GdStored == store \subseteq DOMAIN gd

\* The parents of a stored block are stored: accept_external_block and
\* try_connect_orphans let no block in before its parents, the worker builds
\* on tips only, and no crash takes a parent away.
DagClosed == \A h \in store : Range(blocks[h].parents) \subseteq store

\* The order is the same on every node: the GhostDAG data this node has
\* written for a block, whatever the order in which blocks arrived, is what
\* a node computes that has all its ancestors, and a stored header agrees.
GdCanonical ==
  \A h \in DOMAIN gd : /\ gd[h] = blocks[h].data
                       /\ blocks[h].score = gd[h].score
                       /\ blocks[h].work = gd[h].work

\* A tip, in memory or in the metadata, is a stored block with a header: a
\* restart always finds a selected tip to start from.
TipsUsable ==
  /\ Range(tips) \cup Range(dbTips) \subseteq headers
  /\ tips # <<>> /\ dbTips # <<>>

\* The database only grows: no step, crash included, takes a block away or
\* changes GhostDAG data that has been written.
StoreGrows ==
  [][/\ store \subseteq store'
     /\ headers \subseteq headers'
     /\ \A h \in DOMAIN gd : h \in DOMAIN gd' /\ gd'[h] = gd[h]]_vars

----------------------------------------------------------------------------
(* The ledger, while no connect_block is in progress                       *)

Quiet == \A t \in Threads : pc[t] \in {"idle", "scan", "drain", "pick", "search"}

Chain == Range(SelectedChain(gd, SelectedTip))

Merged == UNION {gd[h].blues : h \in Chain}

Reward(h) == TotalOutput(Head(blocks[h].txs))

Coins == SumFunction([op \in DOMAIN led.utxo |-> led.utxo[op].amount]) + led.burned

GenesisCoins == MapThenSumSet(TotalOutput, Range(GenesisTxs))

\* The UTXO set follows the selected tip: whatever blocks were connected and
\* disconnected on the way, it is what replaying the selected chain gives.
LedgerFollowsTip ==
  Quiet /\ ~failed => led = Replay(SelectedTip, blocks, gd, store)

\* A reorganize that fails leaves the UTXO set as it found it.
FailureRestores == [][~failed /\ failed' => led' = led]_vars

\* No coins from nothing: what exists is at most what genesis and the
\* subsidies of the selected chain brought and the merge blocks were paid.
NoExtraCoins ==
  Quiet /\ ~failed =>
    Coins <= GenesisCoins
             + MapThenSumSet(LAMBDA h : BlockReward(Schedule, blocks[h].score), Chain \ {Genesis})
             + MapThenSumSet(Reward, Merged \ {Genesis})

\* The transactions that take effect: those of the selected chain, and the
\* coinbases of the blue merge blocks.
ChainTxs == (UNION {Range(blocks[h].txs) : h \in Chain})
            \cup {Head(blocks[m].txs) : m \in Merged \ {Genesis}}

\* No coin is lost or spent twice: an outpoint that a transaction of the
\* selected chain has spent is not in the UTXO set, and each of its outputs
\* is there unless a later transaction of the chain spends it.
SpentExactly ==
  Quiet /\ ~failed =>
    DOMAIN led.utxo = (UNION {OutPoints(tx) : tx \in ChainTxs})
                      \ (UNION {Spends(tx) : tx \in ChainTxs})

\* The tips are the stored blocks without a stored child, each listed once.
TipsExact ==
  Quiet => /\ Range(tips) = {h \in store : \A c \in store : h \notin Range(blocks[c].parents)}
           /\ Cardinality(Range(tips)) = Len(tips)

\* The transactions of h do not stand on the chain h extends.
Refused(h) ==
  ~ValidateTransactions(Replay(gd[h].selected, blocks, gd, store), blocks[h])

\* A reorganize fails only where a stored block is to blame, whose transactions
\* its own chain refuses: the undo data of every block that has to be
\* disconnected is there, and no order of valid blocks is refused.
ReorgSucceeds == failed => \E h \in store \ {Genesis} : Refused(h)

\* A block of the worker passes the header checks of connect_block: it is
\* scored "using exactly the same algorithm the validator runs".
WorkerBlockPasses ==
  [][\A t \in Threads :
       caller[t] = "worker" /\ Refuse(t) => cur[t] \in store]_vars

\* A transaction of block h spends the coinbase of block c.
Spender(h, c) ==
  \E i \in DOMAIN blocks[h].txs :
    Spends(blocks[h].txs[i]) \cap OutPoints(Head(blocks[c].txs)) # {}

\* No transaction of the selected chain spends the coinbase of another block
\* before it has COINBASE_MATURITY confirmations, whether the transaction came
\* with a peer's block or through the mempool, and whether the coinbase was
\* paid on the chain or merged.
MaturityKept ==
  Quiet /\ ~failed =>
    \A h \in Chain : \A c \in (Chain \cup Merged) \ {h, Genesis} :
      Spender(h, c) => blocks[h].score >= blocks[c].score + COINBASE_MATURITY

----------------------------------------------------------------------------
(* What comments and documents of the repository say, and the code refutes *)

\* "Every block [...] passes a full validation gate before it is accepted":
\* what is selected has been validated and applied, also after a rejection.
SelectedIsApplied == Quiet => led = Replay(SelectedTip, blocks, gd, store)

\* "The coinbase never mints more than the block subsidy plus fees": what
\* exists is at most genesis and the subsidies of the blue blocks.
CoinbaseCapped ==
  Quiet /\ ~failed =>
    Coins <= GenesisCoins
             + MapThenSumSet(LAMBDA h : BlockReward(Schedule, blocks[h].score),
                             (Chain \cup Merged) \ {Genesis})

----------------------------------------------------------------------------
(* What eventually happens                                                 *)

\* An orphan whose parents have all arrived does not stay in the pool, even
\* if they arrived while it was being parked.
OrphansConnect ==
  \A h \in Hash \ {Genesis} :
    h \in orphans /\ HasParents(h, store) ~> h \notin orphans
=============================================================================
