-------------------------------- MODULE Sync --------------------------------
(***************************************************************************)
(* Two or more nodes that synchronize their blocks:                        *)
(* crates/zentrad/src/p2p_sync.rs with blocks_above and                    *)
(* accept_external_block of crates/zentrad/src/node.rs.                    *)
(*                                                                         *)
(* The dialer of a node opens a session with each of its peers every few   *)
(* seconds: it says hello, pushes its blocks when it is ahead, pulls what  *)
(* the peer has, and asks for the parents that its orphans lack.  A node   *)
(* that nobody dials only answers.  All blocks are good ones: what makes a *)
(* node refuse a block is in module Node.                                  *)
(***************************************************************************)
EXTENDS Ghostdag, FiniteSetsExt, SequencesExt

CONSTANTS
  Nodes,
  Dials,            \* pairs <<d, p>>: p is in the peer table of d
  Genesis,
  SYNC_BATCH,       \* blocks of one answer, and rounds of one session (500)
  LOCATOR,          \* blocks of the selected chain in a locator (32)
  MaxBlocks,        \* bound: blocks found
  MaxDrops          \* bound: sessions cut off

ASSUME SyncAssumption ==
  /\ Genesis \in Nat \ {Zero}
  /\ Dials \subseteq Nodes \X Nodes
  /\ SYNC_BATCH \in Nat \ {0} /\ LOCATOR \in Nat \ {0}
  /\ MaxBlocks \in Nat /\ MaxDrops \in Nat

VARIABLES
  data,             \* GhostDAG data of the blocks found so far, the same at every node
  past,             \* all ancestors of each
  has,              \* the blocks each node has connected
  parked, wanted,   \* ZentraNode::orphans and ZentraNode::wanted
  announced,        \* newblock messages of broadcast_block on their way
  session,          \* the session of each pair
  drops

syncVars == <<data, past, has, parked, wanted, announced, session, drops>>

Idle == [at |-> "idle", from |-> 0, round |-> 0]

----------------------------------------------------------------------------
(* What a node makes of its blocks.                                        *)

\* GhostDAG data sorts the parents of a block: the selected one, blue, red.
ParentSet(h) == {data[h].selected} \cup data[h].blues \cup data[h].reds

TipsOf(store) == store \ UNION {ParentSet(g) : g \in store}
TipOf(store) == BestTip(data, TipsOf(store))
Height(store) == data[TipOf(store)].score

\* blocks_above: all blocks above a score, lowest first, cut off at the limit.
\* Which of several blocks of one score are cut off depends on the order in
\* which the walk from the tips meets them.
Batches(store, from) ==
  LET above == {h \in store : data[h].score > from}
  IN  {b \in SUBSET above :
         /\ Cardinality(b) = Min({SYNC_BATCH, Cardinality(above)})
         /\ \A h \in b, g \in above \ b : data[h].score <= data[g].score}

TopScore(batch) == Max({data[h].score : h \in batch})

\* The blocks that can be connected one after the other, from a pool: those
\* that lack no ancestor.
Connected(store, pool) == store \cup {h \in pool : past[h] \subseteq store \cup pool}

\* accept_external_block for each block of a batch, lowest score first: it is
\* connected, and with it the orphans that waited for it, or it is parked and
\* its missing parents are wanted.
Accept(n, batch, asked) ==
  /\ has' = [has EXCEPT ![n] = Connected(@, (batch \cup parked[n]) \ @)]
  /\ parked' = [parked EXCEPT ![n] = (@ \cup batch) \ has'[n]]
  /\ wanted' = [wanted EXCEPT ![n] =
                  ((@ \ asked) \ (parked[n] \cap has'[n]))
                    \cup (UNION {ParentSet(h) : h \in batch \ has'[n]} \ has'[n])]

\* The count that sync_from_peer keeps: blocks connected by their own call,
\* not those that try_connect_orphans connected before.
AnyAccepted(n, batch) == (batch \ (parked[n] \cup has[n])) \cap has'[n] # {}

----------------------------------------------------------------------------
(* The worker of a node finds a block on its tips; broadcast_block sends   *)
(* it to every peer, once.                                                 *)

Mine(n) ==
  LET h   == Genesis + Cardinality(DOMAIN data)
      par == SetToSortSeq(TipsOf(has[n]), <)
  IN  /\ h <= Genesis + MaxBlocks
      /\ data' = Put(data, h, ProcessBlock(par, data))
      /\ past' = Put(past, h, has[n])
      /\ has' = [has EXCEPT ![n] = @ \cup {h}]
      /\ announced' = announced \cup {<<d[2], h>> : d \in {e \in Dials : e[1] = n}}
      /\ UNCHANGED <<parked, wanted, session, drops>>

\* "newblock" of handle_inbound.
NewBlock(n, h) ==
  /\ <<n, h>> \in announced
  /\ announced' = announced \ {<<n, h>>}
  /\ Accept(n, {h} \ has[n], {})
  /\ UNCHANGED <<data, past, session, drops>>

\* The thread of broadcast_block could not connect.
NotDelivered(n, h) ==
  /\ <<n, h>> \in announced
  /\ announced' = announced \ {<<n, h>>}
  /\ UNCHANGED <<data, past, has, parked, wanted, session, drops>>

----------------------------------------------------------------------------
(* sync_from_peer, for the pair c = <<dialer, peer>>.                      *)

To(c, s) == session' = [session EXCEPT ![c] = s]
At(c, label) == session[c].at = label

\* The handshake.  Does the dialer know the tip of a peer that is behind?
Start(d, p) ==
  IF TipOf(has[p]) \in has[d] THEN Height(has[p]) ELSE 0

Hello(c) ==
  LET d == c[1]
      p == c[2]
  IN  /\ At(c, "idle")
      /\ To(c, IF Height(has[d]) > Height(has[p])
               THEN [Idle EXCEPT !.at = "push", !.from = Start(d, p)]
               ELSE [Idle EXCEPT !.at = "pull"])
      /\ UNCHANGED <<data, past, has, parked, wanted, announced, drops>>

Push(c) ==
  LET d == c[1]
      p == c[2]
  IN  /\ At(c, "push")
      /\ \E batch \in Batches(has[d], session[c].from) :
           /\ Accept(p, batch \ has[p], {})
           /\ To(c, IF Cardinality(batch) < SYNC_BATCH
                    THEN [Idle EXCEPT !.at = "pull"]
                    ELSE [session[c] EXCEPT !.from = TopScore(batch)])
      /\ UNCHANGED <<data, past, announced, drops>>

\* The newest blocks of the selected chain of the dialer; the peer answers
\* from the first of them that it has.
Locator(tip) ==
  LET chain == SelectedChain(data, tip)
  IN  SubSeq(chain, 1, Min({LOCATOR, Len(chain)}))
CommonHeight(tip, store) ==
  LET known == SelectSeq(Locator(tip), LAMBDA h : h \in store)
  IN  IF known = <<>> THEN 0 ELSE data[known[1]].score

Pull(c) ==
  LET d == c[1]
      p == c[2]
  IN  /\ At(c, "pull")
      /\ \E tip \in {TipOf(has[d])} :
         \E common \in {CommonHeight(tip, has[p])} :
         \E batch \in Batches(has[p], common) :
           /\ Accept(d, batch \ has[d], {})
           /\ IF AnyAccepted(d, batch) /\ Cardinality(batch) = SYNC_BATCH
              THEN UNCHANGED session
              ELSE To(c, [Idle EXCEPT !.at = "parents"])
      /\ UNCHANGED <<data, past, announced, drops>>

\* Faulty: an orphan is left to the blocks that come by themselves.
NoParents(c) ==
  /\ At(c, "parents")
  /\ To(c, Idle)
  /\ UNCHANGED <<data, past, has, parked, wanted, announced, drops>>

\* One round: every wanted block is asked for.  What the peer does not have is
\* wanted no longer.
Parents(c) ==
  LET d    == c[1]
      want == wanted[d]
      got  == want \cap has[c[2]]
  IN  /\ At(c, "parents")
      /\ Accept(d, got \ has[d], want)
      /\ To(c, IF got = {} \/ session[c].round + 1 >= SYNC_BATCH
               THEN Idle ELSE [session[c] EXCEPT !.round = @ + 1])
      /\ UNCHANGED <<data, past, announced, drops>>

\* The connection is lost, or a deadline passes.
Dropped(c) ==
  /\ ~At(c, "idle")
  /\ drops < MaxDrops
  /\ drops' = drops + 1
  /\ To(c, Idle)
  /\ UNCHANGED <<data, past, has, parked, wanted, announced>>

SyncInit ==
  /\ data = [h \in {Genesis} |-> GenesisData]
  /\ past = [h \in {Genesis} |-> {}]
  /\ has = [n \in Nodes |-> {Genesis}]
  /\ parked = [n \in Nodes |-> {}] /\ wanted = [n \in Nodes |-> {}]
  /\ announced = {} /\ drops = 0
  /\ session = [c \in Dials |-> Idle]

Session(c) == Hello(c) \/ Push(c) \/ Pull(c) \/ Parents(c)

SyncNext ==
  \/ \E n \in Nodes : Mine(n)
  \/ \E m \in announced : NewBlock(m[1], m[2]) \/ NotDelivered(m[1], m[2])
  \/ \E c \in Dials : Session(c) \/ Dropped(c)

----------------------------------------------------------------------------
(* Properties.                                                             *)

\* Once no more blocks are found, all nodes that sessions connect come to the
\* same height, whatever was lost on the way: push, pull and the rounds for
\* missing parents together bring every block a heavier tip needs.
\* The dialer begins a session every six seconds, and every wait has a deadline.
PeersConverge ==
  <>[](\A c \in Dials : Height(has[c[1]]) = Height(has[c[2]]))
=============================================================================
