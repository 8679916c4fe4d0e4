------------------------------ MODULE Ghostdag ------------------------------
(***************************************************************************)
(* The GhostDAG ordering of crates/zentra-consensus/src/ghostdag.rs and    *)
(* the tip selection of crates/zentra-core/src/dag.rs, as operators.       *)
(*                                                                         *)
(* A block is named by its hash.  Hashes are positive naturals: their      *)
(* order is the byte order that breaks ties between tips.  A parameter gd  *)
(* is the GhostDAG column family: a function from the hashes that have an  *)
(* entry to their GhostdagData.                                            *)
(***************************************************************************)
EXTENDS Integers, Sequences, FiniteSets

CONSTANT
  GHOSTDAG_K    \* anticone tolerance (18 in the code)

ASSUME KAssumption == GHOSTDAG_K \in Nat

Zero == 0       \* Hash::ZERO, the selected parent of genesis

GenesisData ==
  [score |-> 0, work |-> 0, selected |-> Zero, blues |-> {}, reds |-> {}]

\* A write to a column family of the database.
Put(cf, key, value) ==
  [k \in DOMAIN cf \cup {key} |-> IF k = key THEN value ELSE cf[k]]

\* get_ghostdag(h).unwrap_or_else(GhostdagData::genesis)
DataOf(gd, h) == IF h \in DOMAIN gd THEN gd[h] ELSE GenesisData

----------------------------------------------------------------------------

\* What get_ghostdag returns for each parent, in order.
ParentData(parents, gd) == [i \in DOMAIN parents |-> DataOf(gd, parents[i])]

\* Position of the selected parent: Iterator::max_by_key keeps the LAST
\* maximum, so among parents of equal blue score the last listed one wins.
SelectedIndex(pd) ==
  CHOOSE i \in DOMAIN pd :
    \A j \in DOMAIN pd : \/ pd[j].score < pd[i].score
                         \/ pd[j].score = pd[i].score /\ j <= i

\* The blue blocks that estimate_anticone_size does not find in the past of
\* the block h with data d.  The past it knows is only the direct merge of h.
EstimateAnticone(h, d, blueSet) ==
  {b \in blueSet : b \notin {d.selected, h} \cup d.blues \cup d.reds}

\* blue_set of classify_mergeset when the parents at the positions `chosen`
\* have been coloured blue; d is the data of the selected parent.
BlueSet(parents, pd, d, chosen) ==
  {d.selected} \cup d.blues \cup UNION {{parents[i]} \cup pd[i].blues : i \in chosen}

\* The positions of the other parents that are coloured blue.  The loop of
\* classify_mergeset goes through the parents in order, and each decision
\* depends on the parents coloured blue before.
BluePositions(parents, pd) ==
  LET n == Len(parents)
      s == SelectedIndex(pd)
      colour[i \in 0..n] ==
        IF i = 0 THEN {}
        ELSE IF /\ parents[i] # parents[s]
                /\ Cardinality(EstimateAnticone(parents[i], pd[i],
                       BlueSet(parents, pd, pd[s], colour[i-1]))) <= GHOSTDAG_K
             THEN colour[i-1] \cup {i}
             ELSE colour[i-1]
  IN  {i \in 1..n : i \in colour[n]}

MergeData(parents, pd) ==
  LET s    == SelectedIndex(pd)
      blue == BluePositions(parents, pd)
  IN [score    |-> pd[s].score + 1 + Cardinality(blue),
      work     |-> pd[s].work + 1,
      selected |-> parents[s],
      blues    |-> {parents[i] : i \in blue},
      reds     |-> {parents[i] : i \in {j \in 1..Len(parents) :
                                  parents[j] # parents[s] /\ j \notin blue}}]

\* GhostdagManager::process_block
ProcessBlock(parents, gd) ==
  IF parents = <<>> THEN GenesisData
  ELSE MergeData(parents, ParentData(parents, gd))

----------------------------------------------------------------------------

\* DagGraph::get_selected_tip: highest blue score, then highest blue work,
\* then LOWEST hash, among the tips that have a header.
BetterTip(hdr, a, b) ==
  \/ hdr[a].score > hdr[b].score
  \/ hdr[a].score = hdr[b].score /\ hdr[a].work > hdr[b].work
  \/ hdr[a].score = hdr[b].score /\ hdr[a].work = hdr[b].work /\ a < b

BestTip(hdr, candidates) ==
  CHOOSE t \in candidates : \A u \in candidates \ {t} : BetterTip(hdr, t, u)

\* get_selected_chain: start, its selected parent, ... down to genesis.  The
\* fallback to the first header parent, for a block that has no GhostDAG
\* entry, is never taken: every stored block has its entry (Node, GdStored).
SelectedChain(gd, start) ==
  LET up[n \in Nat] == IF n = 0 THEN start ELSE DataOf(gd, up[n-1]).selected
      len == CHOOSE n \in 0..Cardinality(DOMAIN gd) :
               up[n] = Zero /\ \A m \in 0..(n-1) : up[m] # Zero
  IN  [i \in 1..len |-> up[i-1]]
=============================================================================
