------------------------------- MODULE Reorg --------------------------------
(***************************************************************************)
(* How crates/zentrad/src/node.rs moves the UTXO set along the block DAG:  *)
(* `reorganize`, and the replay of ZentraNode::new after a restart.        *)
(*                                                                         *)
(* Parameters: blk gives the block of every hash, gd is the GhostDAG       *)
(* column family, store the set of hashes that have a block in the         *)
(* database, undos the undo column family.                                 *)
(***************************************************************************)
EXTENDS Ghostdag, Ledger

\* apply_block_with_merges: the block, then the coinbase of every blue merge
\* block whose block is stored.  Two merge blocks with one coinbase id carry
\* the same output, so the order of the set is of no consequence.
PayMerges(led, merges, blk) ==
  FoldSet(LAMBDA m, acc : [ApplyMergeCoinbase(acc.led, blk[m]) EXCEPT
                             !.created = @ \cup acc.created],
          [led |-> led, created |-> {}], merges)

WithPaid(applied, paid) ==
  [applied EXCEPT !.led = paid.led, !.undo.merges = paid.created]

AfterBlock(applied, merges, blk) ==
  IF ~applied.ok THEN applied
  ELSE WithPaid(applied, PayMerges(applied.led, merges, blk))

ApplyBlockWithMerges(led, h, blk, gd, store) ==
  AfterBlock(ApplyBlock(led, blk[h]), DataOf(gd, h).blues \cap store, blk)

\* The blocks of chain that come before its first block in `other`.
Branch(chain, other) ==
  LET shared == {i \in DOMAIN chain : chain[i] \in Range(other)}
  IN  IF shared = {} THEN chain ELSE SubSeq(chain, 1, Min(shared) - 1)

\* The loops of `reorganize`.  acc.gone and acc.come list the blocks that
\* have been disconnected and connected; r is the answer for block h.
Disconnected(acc, h, r) ==
  IF ~r.ok THEN [acc EXCEPT !.ok = FALSE]
  ELSE [acc EXCEPT !.led = r.led, !.gone = Append(@, h)]

DisconnectOne(acc, h, blk, store) ==
  IF ~acc.ok \/ h \notin DOMAIN acc.undos \/ h \notin store
  THEN [acc EXCEPT !.ok = FALSE]
  ELSE Disconnected(acc, h, DisconnectBlock(acc.led, blk[h], acc.undos[h]))

Connected(acc, h, r) ==
  IF ~r.ok THEN [acc EXCEPT !.ok = FALSE, !.led = r.led]
  ELSE [acc EXCEPT !.led = r.led, !.undos = Put(@, h, r.undo), !.come = Append(@, h)]

\* A faulty variant: no undo data is kept for a connected block.
ConnectOneNoUndo(acc, h, blk, gd, store) ==
  IF ~acc.ok \/ h \notin store \/ ~ValidateTransactions(acc.led, blk[h])
  THEN [acc EXCEPT !.ok = FALSE]
  ELSE [Connected(acc, h, ApplyBlockWithMerges(acc.led, h, blk, gd, store))
          EXCEPT !.undos = acc.undos]

ConnectOne(acc, h, blk, gd, store) ==
  IF ~acc.ok \/ h \notin store \/ ~ValidateTransactions(acc.led, blk[h])
  THEN [acc EXCEPT !.ok = FALSE]
  ELSE Connected(acc, h, ApplyBlockWithMerges(acc.led, h, blk, gd, store))

\* A faulty variant: the disconnected blocks are not connected again.
RollBackHalf(acc, blk, gd, store) ==
  FoldLeft(LAMBDA a, h : [a EXCEPT !.led = DisconnectBlock(@, blk[h], a.undos[h]).led],
           acc, Reverse(acc.come))

\* The rollback after a failure: every error in it is ignored.
Reconnected(acc, h, r) ==
  IF r.ok THEN [acc EXCEPT !.led = r.led, !.undos = Put(@, h, r.undo)]
  ELSE [acc EXCEPT !.led = r.led]

RollBack(acc, blk, gd, store) ==
  FoldLeft(LAMBDA a, h : Reconnected(a, h, ApplyBlockWithMerges(a.led, h, blk, gd, store)),
           FoldLeft(LAMBDA a, h :
                      [a EXCEPT !.led = DisconnectBlock(@, blk[h], a.undos[h]).led],
                    acc, Reverse(acc.come)),
           Reverse(acc.gone))

\* reorganize(old, new) with the UTXO lock held.
SwitchBranch(start, oldChain, newChain, blk, gd, store) ==
  FoldLeft(LAMBDA a, h : ConnectOne(a, h, blk, gd, store),
           FoldLeft(LAMBDA a, h : DisconnectOne(a, h, blk, store), start,
                    Branch(oldChain, newChain)),
           Reverse(Branch(newChain, oldChain)))

KeepOrRollBack(acc, blk, gd, store) ==
  IF acc.ok THEN acc ELSE RollBack(acc, blk, gd, store)

Reorganize(led, undos, old, new, blk, gd, store) ==
  LET start == [ok |-> TRUE, led |-> led, undos |-> undos, gone |-> <<>>, come |-> <<>>]
  IN  IF old = new THEN start
      ELSE KeepOrRollBack(SwitchBranch(start, SelectedChain(gd, old),
                                       SelectedChain(gd, new), blk, gd, store),
                          blk, gd, store)

\* The replay of ZentraNode::new: no validation, and every error is ignored.
ReplayOne(led, h, blk, gd, store) ==
  PayMerges(ApplyBlock(led, blk[h]).led, DataOf(gd, h).blues \cap store, blk).led

Replay(tip, blk, gd, store) ==
  FoldLeft(LAMBDA led, h : ReplayOne(led, h, blk, gd, store), EmptyLedger,
           Reverse(SelectedChain(gd, tip)))
=============================================================================
