----------------------------- MODULE NodeProofs -----------------------------
(***************************************************************************)
(* Proofs about Node, for every set of blocks and threads, every bound and *)
(* every crash: the block store is closed, scored as every node scores it, *)
(* never shrinks and always has a tip to start from; and the ledger that a *)
(* node keeps by connecting, disconnecting and reorganizing is the one that*)
(* replaying the selected chain of its tip makes; and the walks of the     *)
(* explorer find all that is stored, or all that has taken effect.         *)
(***************************************************************************)
EXTENDS Explorer, LedgerProofs

----------------------------------------------------------------------------
(* Lemmas about the operators                                              *)

\* The positions that Retain keeps are numbered without a gap.
LEMMA KeptPosition ==
  ASSUME NEW n \in Nat, NEW kept, kept \subseteq 1..n,
         NEW k \in 1..Cardinality(kept)
  PROVE  \E i \in kept : Cardinality({j \in kept : j < i}) = k - 1
<1> DEFINE Below(m) == {j \in kept : j <= m}
           T == {m \in 0..n : Cardinality(Below(m)) >= k}
<1>1. \A j \in kept : j \in Int /\ 1 <= j /\ j <= n
  OBVIOUS
<1>2. IsFiniteSet(kept) /\ Cardinality(kept) \in Nat
  <2>1. IsFiniteSet(1..n)
    BY FS_Interval
  <2>2. kept \in SUBSET (1..n)
    OBVIOUS
  <2>3. IsFiniteSet(kept)
    BY <2>1, <2>2, FS_Subset, Zenon
  <2> QED
    BY <2>3, FS_CardinalityType, Zenon
<1>3. \A m : IsFiniteSet(Below(m)) /\ Cardinality(Below(m)) \in Nat
  BY <1>2, FS_Subset, FS_CardinalityType
<1>4. k \in Nat /\ 1 <= k /\ k <= Cardinality(kept)
  BY <1>2
<1>5. Below(n) = kept
  BY <1>1
<1>6. n \in T
  BY <1>4, <1>5, <1>2
<1>7. T \subseteq Nat
  OBVIOUS
<1>8. PICK m \in T : \A l \in T : m <= l
  <2> HIDE DEF T
  <2> QED
    BY <1>6, <1>7, LeastNat
<1>9. m \in 0..n /\ Cardinality(Below(m)) >= k
  BY <1>8
<1>10. m # 0
  <2>0. \A j \in kept : ~ (j <= 0)
    BY <1>1
  <2>1. Below(0) = {}
    BY <2>0
  <2>2. Cardinality(Below(0)) = 0
    BY <2>1, FS_EmptySet
  <2> HIDE DEF Below
  <2> QED
    BY <2>2, <1>9, <1>4
<1>11. m - 1 \in 0..n /\ ~ (m <= m - 1)
  BY <1>9, <1>10
<1>12. Cardinality(Below(m-1)) < k
  <2>1. m - 1 \notin T
    <3> HIDE DEF T
    <3> QED
      BY <1>8, <1>11
  <2>2. ~ (Cardinality(Below(m-1)) >= k)
    BY <2>1, <1>11, Zenon
  <2>3. Cardinality(Below(m-1)) \in Nat
    BY <1>3, Zenon
  <2> HIDE DEF Below
  <2> QED
    BY <2>2, <2>3, <1>4
<1>13. m \in kept
  <2>1. SUFFICES ASSUME m \notin kept PROVE FALSE
    OBVIOUS
  <2>2. \A j \in kept : j <= m <=> j <= m - 1
    BY <2>1, <1>1, <1>9
  <2>3. Below(m) = Below(m-1)
    BY <2>2
  <2> HIDE DEF Below
  <2> QED
    BY <2>3, <1>12, <1>3, <1>4, <1>9
<1>14. Below(m) = Below(m-1) \cup {m} /\ m \notin Below(m-1)
  <2>1. \A j \in kept : j <= m <=> (j <= m - 1 \/ j = m)
    BY <1>1, <1>9
  <2>2. m <= m /\ ~ (m <= m - 1)
    BY <1>9
  <2> QED
    BY <2>1, <2>2, <1>13
<1>15. Cardinality(Below(m)) = Cardinality(Below(m-1)) + 1
  <2> HIDE DEF Below
  <2> QED
    BY <1>14, <1>3, FS_AddElement
<1>16. Cardinality(Below(m-1)) = k - 1
  <2> HIDE DEF Below
  <2> QED
    BY <1>15, <1>12, <1>3, <1>4, <1>9
<1>17. Below(m-1) = {j \in kept : j < m}
  <2>1. \A j \in kept : j < m <=> j <= m - 1
    BY <1>1, <1>9
  <2> QED
    BY <2>1
<1> QED
  BY <1>13, <1>16, <1>17

\* Vec::retain keeps a list a list, and of the elements that it had.
LEMMA RetainKeeps ==
  ASSUME NEW S, NEW s \in Seq(S), NEW gone
  PROVE  /\ Retain(s, gone) \in Seq(S)
         /\ Range(Retain(s, gone)) \subseteq Range(s)
<1> DEFINE kept  == {i \in DOMAIN s : s[i] \notin gone}
           at(k) == CHOOSE i \in kept : Cardinality({j \in kept : j < i}) = k - 1
<1>1. Len(s) \in Nat /\ DOMAIN s = 1..Len(s) /\ kept \subseteq DOMAIN s
  OBVIOUS
<1>2. IsFiniteSet(kept) /\ Cardinality(kept) \in Nat
  <2>1. IsFiniteSet(1..Len(s))
    BY <1>1, FS_Interval
  <2>2. kept \in SUBSET (1..Len(s))
    BY <1>1
  <2> HIDE DEF kept
  <2>3. IsFiniteSet(kept)
    BY <2>1, <2>2, FS_Subset, Zenon
  <2> QED
    BY <2>3, FS_CardinalityType, Zenon
<1>3. \A k \in 1..Cardinality(kept) : at(k) \in kept
  <2>1. TAKE k \in 1..Cardinality(kept)
  <2>2. \E i \in kept : Cardinality({j \in kept : j < i}) = k - 1
    <3> HIDE DEF kept
    <3> QED BY <1>1, KeptPosition
  <2> QED
    BY <2>2
<1>4. \A k \in 1..Cardinality(kept) : s[at(k)] \in S /\ s[at(k)] \in Range(s)
  <2>1. TAKE k \in 1..Cardinality(kept)
  <2>2. at(k) \in DOMAIN s
    BY <1>1, <1>3, Zenon
  <2> HIDE DEF at, kept
  <2> QED
    BY <2>2, <1>1 DEF Range
<1>5. Retain(s, gone) = [k \in 1..Cardinality(kept) |-> s[at(k)]]
  BY DEF Retain
<1> HIDE DEF at, kept
<1>6. Retain(s, gone) \in Seq(S)
  BY <1>2, <1>4, <1>5
<1> QED
  BY <1>4, <1>5, <1>6 DEF Range

\* process_block reads nothing but the data of the parents.
LEMMA SameData ==
  ASSUME NEW parents, NEW f, NEW g,
         Range(parents) \subseteq DOMAIN f, Range(parents) \subseteq DOMAIN g,
         \A p \in Range(parents) : f[p] = g[p]
  PROVE  ProcessBlock(parents, f) = ProcessBlock(parents, g)
<1>1. \A i \in DOMAIN parents : DataOf(f, parents[i]) = DataOf(g, parents[i])
  BY DEF Range, DataOf
<1>2. ParentData(parents, f) = ParentData(parents, g)
  BY <1>1 DEF ParentData
<1> QED
  BY <1>2, Zenon DEF ProcessBlock

\* A new block has the fields of a block.
LEMMA NewBlockFields ==
  ASSUME NEW parents, NEW miner, NEW fees, NEW body, NEW score, NEW work, NEW bits
  PROVE  /\ NewBlock(parents, miner, fees, body, score, work, bits).parents = parents
         /\ NewBlock(parents, miner, fees, body, score, work, bits).data
              = ProcessBlock(parents, NetGd)
BY DEF NewBlock

----------------------------------------------------------------------------
(* The inductive invariant                                                 *)

\* The blocks of the network are closed under parents, and each carries the
\* data that process_block computes from the data of its parents.
NetInv ==
  /\ Genesis \in store
  /\ \A h \in DOMAIN blocks : /\ HasParents(h, DOMAIN blocks)
                              /\ blocks[h].data = ProcessBlock(blocks[h].parents, NetGd)

\* What a thread knows about its block at each point of connect_block, of
\* the loop over the orphans and of the mining loop.
ThreadInv(t) ==
  /\ pc[t] \in {"park", "connect"} => cur[t] \in DOMAIN blocks
  /\ pc[t] \in {"connect", "put_block"} => HasParents(cur[t], store)
  /\ pc[t] = "put_block" => cur[t] \in DOMAIN gd
  /\ pc[t] = "put_header" => cur[t] \in store
  /\ pc[t] = "put_tips" => cur[t] \in headers
  /\ \A h \in ready[t] : HasParents(h, store)
  /\ pc[t] = "pick" => Range(template[t]) \subseteq store
  /\ pc[t] = "search" =>
       /\ Range(template[t].parents) \subseteq store
       /\ template[t].data = ProcessBlock(template[t].parents, NetGd)

StoreInv == GdStored /\ DagClosed /\ GdCanonical /\ TipsUsable

IInv ==
  /\ StoreTypeOK
  /\ NetInv
  /\ StoreInv
  /\ \A t \in Threads : ThreadInv(t)

----------------------------------------------------------------------------
(* What does not change                                                    *)

\* The network and the database grow, and a block keeps its content.
Grows ==
  /\ DOMAIN blocks \subseteq DOMAIN blocks'
  /\ \A h \in DOMAIN blocks : blocks'[h] = blocks[h]
  /\ DOMAIN gd \subseteq DOMAIN gd'
  /\ store \subseteq store'
  /\ headers \subseteq headers'

\* The network, the database and the tips stay as they are.
Frozen == UNCHANGED <<blocks, gd, store, headers, tips, dbTips>>

\* The variables that ThreadInv reads of thread u stay as they are.
Still(u) ==
  /\ pc'[u] = pc[u]
  /\ cur'[u] = cur[u]
  /\ ready'[u] = ready[u]
  /\ template'[u] = template[u]

\* A step that leaves the store alone does not shrink it.
LEMMA FrozenGrows == Frozen => Grows
BY DEF Frozen, Grows

\* A block found later does not change what process_block computes on the
\* blocks found before.
LEMMA SameNetData ==
  ASSUME Grows, NEW parents, Range(parents) \subseteq DOMAIN blocks
  PROVE  ProcessBlock(parents, NetGd') = ProcessBlock(parents, NetGd)
<1>1. DOMAIN NetGd = DOMAIN blocks /\ DOMAIN NetGd' = DOMAIN blocks'
  BY DEF NetGd
<1>2. \A p \in Range(parents) : NetGd'[p] = NetGd[p]
  BY DEF NetGd, Grows
<1>3. Range(parents) \subseteq DOMAIN blocks'
  BY DEF Grows
<1> HIDE DEF NetGd
<1> QED
  BY <1>1, <1>2, <1>3, SameData

\* What a thread knows stays true while the others go on.
LEMMA ThreadKeeps ==
  ASSUME StoreTypeOK, Grows, NEW u \in Threads, ThreadInv(u), Still(u)
  PROVE  ThreadInv(u)'
<1>1. cur[u] \in DOMAIN gd => cur[u] \in DOMAIN blocks
  BY DEF StoreTypeOK
<1>2. \A h \in DOMAIN blocks : HasParents(h, store) => HasParents(h, store)'
  BY DEF HasParents, Grows
<1>3. ready[u] \subseteq DOMAIN blocks /\ store \subseteq DOMAIN blocks
  BY DEF StoreTypeOK
<1>4. pc[u] \in {"park", "connect"} => cur'[u] \in DOMAIN blocks'
  BY DEF ThreadInv, Still, Grows
<1>5. pc[u] \in {"connect", "put_block"} => HasParents(cur[u], store)'
  BY <1>1, <1>2 DEF ThreadInv, Still
<1>6. \A h \in ready'[u] : HasParents(h, store)'
  BY <1>2, <1>3 DEF ThreadInv, Still
<1>7. ASSUME pc[u] = "search"
      PROVE  /\ Range(template'[u].parents) \subseteq store'
             /\ template'[u].data = ProcessBlock(template'[u].parents, NetGd')
  <2>1. /\ Range(template[u].parents) \subseteq store
        /\ template[u].data = ProcessBlock(template[u].parents, NetGd)
    BY <1>7 DEF ThreadInv
  <2>2. Range(template[u].parents) \subseteq DOMAIN blocks
    BY <2>1, <1>3
  <2>3. ProcessBlock(template[u].parents, NetGd') = ProcessBlock(template[u].parents, NetGd)
    BY <2>2, SameNetData
  <2> QED
    BY <2>1, <2>3 DEF Still, Grows
<1> QED
  BY <1>4, <1>5, <1>6, <1>7 DEF ThreadInv, Still, Grows

\* The network and the store, when nothing is written to them.
LEMMA FrozenKeeps ==
  ASSUME NetInv, StoreInv, Frozen
  PROVE  NetInv' /\ StoreInv'
<1>1. NetGd' = NetGd
  BY DEF NetGd, Frozen
<1>2. NetInv'
  BY <1>1 DEF NetInv, Frozen, HasParents
<1>3. StoreInv'
  BY DEF StoreInv, GdStored, DagClosed, GdCanonical, TipsUsable, Frozen
<1> QED
  BY <1>2, <1>3

\* A step of thread t that writes nothing to the store.
LEMMA FrozenStep ==
  ASSUME IInv, Frozen, NEW t \in Threads, \A u \in Threads \ {t} : Still(u),
         StoreTypeOK', ThreadInv(t)'
  PROVE  IInv'
<1>1. NetInv' /\ StoreInv'
  BY FrozenKeeps DEF IInv
<1>2. ASSUME NEW u \in Threads PROVE ThreadInv(u)'
  <2>1. CASE u = t
    BY <2>1
  <2>2. CASE u # t
    BY <2>2, FrozenGrows, ThreadKeeps DEF IInv
  <2> QED
    BY <2>1, <2>2
<1> QED
  BY <1>1, <1>2 DEF IInv

\* A step that no thread takes and that writes nothing to the store.
LEMMA FrozenRest ==
  ASSUME IInv, Frozen, UNCHANGED <<orphans, pc, locals>>
  PROVE  IInv'
<1>1. NetInv' /\ StoreInv'
  BY FrozenKeeps DEF IInv
<1>2. StoreTypeOK'
  BY DEF IInv, StoreTypeOK, Frozen, locals
<1>3. ASSUME NEW u \in Threads PROVE ThreadInv(u)'
  <2>1. Still(u)
    BY DEF Still, locals
  <2> QED
    BY <2>1, FrozenGrows, ThreadKeeps DEF IInv
<1> QED
  BY <1>1, <1>2, <1>3 DEF IInv

----------------------------------------------------------------------------
(* The actions that write nothing to the store                             *)

\* connect_block returns: the thread goes back to its caller.
LEMMA ReturnKeeps ==
  ASSUME IInv, Frozen, orphans' = orphans, NEW t \in Threads, NEW ok, Return(t, ok)
  PROVE  IInv'
<1>1. /\ pc'[t] \in {"drain", "scan", "idle"}
      /\ ready' = ready /\ template' = template
  BY DEF IInv, StoreTypeOK, Return, Goto
<1>2. StoreTypeOK'
  BY DEF IInv, StoreTypeOK, Return, Goto, Frozen, Labels
<1>3. \A u \in Threads \ {t} : Still(u)
  BY DEF Still, Return, Goto, IInv, StoreTypeOK
<1>4. \A h \in ready'[t] : HasParents(h, store)'
  BY <1>1 DEF IInv, ThreadInv, HasParents, Frozen
<1>5. ThreadInv(t)'
  BY <1>1, <1>4 DEF ThreadInv
<1> QED
  BY <1>2, <1>3, <1>5, FrozenStep

\* accept_external_block, up to the decision to park the block.
LEMMA AcceptKeeps ==
  ASSUME IInv, NEW t \in Threads, NEW h \in Hash, Accept(t, h)
  PROVE  IInv'
<1>1. Frozen
  BY DEF Accept, Frozen, db, mem
<1>2. StoreTypeOK'
  BY DEF IInv, StoreTypeOK, Accept, Goto, Labels, db, mem
<1>3. \A u \in Threads \ {t} : Still(u)
  BY DEF Still, Accept, Goto, IInv, StoreTypeOK
<1>4. /\ cur'[t] = h /\ h \in DOMAIN blocks'
      /\ pc'[t] = IF HasParents(h, store) THEN "connect" ELSE "park"
      /\ ready' = ready
  BY DEF Accept, Goto, IInv, StoreTypeOK
<1>5. HasParents(h, store) => HasParents(cur[t], store)'
  BY <1>1, <1>4 DEF HasParents, Frozen
<1>6. \A g \in ready'[t] : HasParents(g, store)'
  BY <1>1, <1>4 DEF IInv, ThreadInv, HasParents, Frozen
<1>7. ThreadInv(t)'
  BY <1>4, <1>5, <1>6 DEF ThreadInv
<1> QED
  BY <1>1, <1>2, <1>3, <1>7, FrozenStep

\* A block whose parents are missing becomes an orphan.
LEMMA ParkKeeps ==
  ASSUME IInv, NEW t \in Threads, Park(t)
  PROVE  IInv'
<1>1. Frozen
  BY DEF Park, Frozen, db
<1>2. cur[t] \in DOMAIN blocks
  BY DEF Park, IInv, ThreadInv
<1>3. orphans' \subseteq DOMAIN blocks
  BY <1>2 DEF Park, IInv, StoreTypeOK
<1>4. StoreTypeOK'
  BY <1>3 DEF IInv, StoreTypeOK, Park, Goto, Labels, db
<1>5. \A u \in Threads \ {t} : Still(u)
  BY DEF Still, Park, Goto, IInv, StoreTypeOK
<1>6. pc'[t] = "idle" /\ ready' = ready
  BY DEF Park, Goto, IInv, StoreTypeOK
<1>7. \A g \in ready'[t] : HasParents(g, store)'
  BY <1>1, <1>6 DEF IInv, ThreadInv, HasParents, Frozen
<1>8. ThreadInv(t)'
  BY <1>6, <1>7 DEF ThreadInv
<1> QED
  BY <1>1, <1>4, <1>5, <1>8, FrozenStep

\* A thread moves to a point where it holds no block that is being written.
LEMMA MoveKeeps ==
  ASSUME IInv, Frozen, orphans' = orphans, NEW t \in Threads, NEW label,
         label \in {"idle", "select", "reorganize", "rebuild", "resume", "finish",
                    "scan", "drain"},
         Goto(t, label), cur' = cur, ready' = ready,
         DOMAIN template' = Threads, \A u \in Threads \ {t} : template'[u] = template[u]
  PROVE  IInv'
<1>1. StoreTypeOK'
  BY DEF IInv, StoreTypeOK, Goto, Frozen, Labels
<1>2. \A u \in Threads \ {t} : Still(u)
  BY DEF Still, Goto, IInv, StoreTypeOK
<1>3. pc'[t] = label
  BY DEF Goto, IInv, StoreTypeOK
<1>4. \A g \in ready'[t] : HasParents(g, store)'
  BY DEF IInv, ThreadInv, HasParents, Frozen
<1>5. ThreadInv(t)'
  BY <1>3, <1>4 DEF ThreadInv
<1> QED
  BY <1>1, <1>2, <1>5, FrozenStep

\* connect_block refuses a block.
LEMMA RefuseKeeps ==
  ASSUME IInv, NEW t \in Threads, Refuse(t)
  PROVE  IInv'
<1>1. Frozen /\ orphans' = orphans
  BY DEF Refuse, Frozen, db, mem
<1>2. Return(t, FALSE)
  BY DEF Refuse
<1> QED
  BY <1>1, <1>2, ReturnKeeps

\* The selected tip is read again after the insertion.
LEMMA SelectKeeps ==
  ASSUME IInv, NEW t \in Threads, Select(t)
  PROVE  IInv'
<1>1. /\ Frozen /\ orphans' = orphans
      /\ cur' = cur /\ ready' = ready /\ template' = template
  BY DEF Select, Frozen, db, mem
<1>2. Goto(t, IF SelectedTip = old[t] THEN "finish" ELSE "reorganize")
  BY DEF Select
<1>3. DOMAIN template = Threads
  BY DEF IInv, StoreTypeOK
<1> QED
  BY <1>1, <1>2, <1>3, MoveKeeps, Zenon

\* The ledger is reorganized to the new tip.
LEMMA DoReorganizeKeeps ==
  ASSUME IInv, NEW t \in Threads, DoReorganize(t)
  PROVE  IInv'
<1>1. Frozen /\ orphans' = orphans
  BY DEF DoReorganize, Frozen
<1>2. \/ Return(t, FALSE)
      \/ Goto(t, "rebuild") /\ UNCHANGED locals
  BY Zenon DEF DoReorganize, AfterReorganize
<1>3. CASE Return(t, FALSE)
  BY <1>1, <1>3, ReturnKeeps
<1>4. CASE Goto(t, "rebuild") /\ UNCHANGED locals
  <2>1. cur' = cur /\ ready' = ready /\ template' = template
    BY <1>4 DEF locals
  <2>2. DOMAIN template = Threads
    BY DEF IInv, StoreTypeOK
  <2> QED
    BY <1>1, <1>4, <2>1, <2>2, MoveKeeps
<1> QED
  BY <1>2, <1>3, <1>4

\* The difficulty history is rebuilt.
LEMMA RebuildKeeps ==
  ASSUME IInv, NEW t \in Threads, Rebuild(t)
  PROVE  IInv'
<1>1. /\ Frozen /\ orphans' = orphans
      /\ cur' = cur /\ ready' = ready /\ template' = template
  BY DEF Rebuild, Frozen, db, locals
<1>2. Goto(t, "resume") \/ Goto(t, "finish")
  BY Zenon DEF Rebuild
<1>3. DOMAIN template = Threads
  BY DEF IInv, StoreTypeOK
<1> QED
  BY <1>1, <1>2, <1>3, MoveKeeps

\* Mining is allowed again.
LEMMA ResumeKeeps ==
  ASSUME IInv, NEW t \in Threads, Resume(t)
  PROVE  IInv'
<1>1. /\ Frozen /\ orphans' = orphans /\ Goto(t, "finish")
      /\ cur' = cur /\ ready' = ready /\ template' = template
  BY DEF Resume, Frozen, db, locals
<1>2. DOMAIN template = Threads
  BY DEF IInv, StoreTypeOK
<1> QED
  BY <1>1, <1>2, MoveKeeps

\* The confirmed transactions leave the mempool.
LEMMA FinishKeeps ==
  ASSUME IInv, NEW t \in Threads, Finish(t)
  PROVE  IInv'
<1>1. Frozen /\ orphans' = orphans
  BY DEF Finish, Frozen, db
<1>2. Return(t, TRUE)
  BY DEF Finish
<1> QED
  BY <1>1, <1>2, ReturnKeeps

\* A round of the synchronization with a peer.
LEMMA SyncRoundKeeps ==
  ASSUME IInv, NEW t \in Threads, SyncRound(t)
  PROVE  IInv'
<1>1. /\ Frozen /\ orphans' = orphans /\ Goto(t, "scan")
      /\ cur' = cur /\ ready' = ready /\ template' = template
  BY DEF SyncRound, Frozen, db, locals
<1>2. DOMAIN template = Threads
  BY DEF IInv, StoreTypeOK
<1> QED
  BY <1>1, <1>2, MoveKeeps

\* mine_block gives up.
LEMMA GiveUpKeeps ==
  ASSUME IInv, NEW t \in Threads, GiveUp(t)
  PROVE  IInv'
<1>1. /\ Frozen /\ orphans' = orphans /\ Goto(t, "idle")
      /\ cur' = cur /\ ready' = ready
  BY DEF GiveUp, Frozen, db, mem
<1>2. DOMAIN template' = Threads /\ \A u \in Threads \ {t} : template'[u] = template[u]
  BY DEF GiveUp, IInv, StoreTypeOK
<1> QED
  BY <1>1, <1>2, MoveKeeps

\* The orphans that can be connected now are listed.
LEMMA ScanKeeps ==
  ASSUME IInv, NEW t \in Threads, Scan(t)
  PROVE  IInv'
<1> DEFINE now == {h \in orphans : HasParents(h, store)}
<1>1. Frozen
  BY DEF Scan, Frozen, db, mem
<1>2. now \subseteq DOMAIN blocks /\ \A h \in now : HasParents(h, store)
  BY DEF IInv, StoreTypeOK
<1>3. /\ ready' = [ready EXCEPT ![t] = now]
      /\ Goto(t, IF now = {} THEN "idle" ELSE "drain")
      /\ UNCHANGED <<orphans, cur, template>>
  BY DEF Scan, mem
<1> HIDE DEF now
<1>4. StoreTypeOK'
  BY <1>1, <1>2, <1>3 DEF IInv, StoreTypeOK, Goto, Labels, Frozen
<1>5. \A u \in Threads \ {t} : Still(u)
  BY <1>3 DEF Still, Goto, IInv, StoreTypeOK
<1>6. ready'[t] = now /\ pc'[t] \in {"idle", "drain"}
  BY <1>3 DEF Goto, IInv, StoreTypeOK
<1>7. \A g \in ready'[t] : HasParents(g, store)'
  BY <1>1, <1>2, <1>6 DEF HasParents, Frozen
<1>8. ThreadInv(t)'
  BY <1>6, <1>7 DEF ThreadInv
<1> QED
  BY <1>1, <1>4, <1>5, <1>8, FrozenStep

\* They are connected one by one.
LEMMA DrainKeeps ==
  ASSUME IInv, NEW t \in Threads, Drain(t)
  PROVE  IInv'
<1>1. Frozen
  BY DEF Drain, Frozen, db
<1>2. CASE Goto(t, "scan") /\ UNCHANGED <<orphans, locals>>
  <2>1. cur' = cur /\ ready' = ready /\ template' = template /\ orphans' = orphans
    BY <1>2 DEF locals
  <2>2. DOMAIN template = Threads
    BY DEF IInv, StoreTypeOK
  <2> QED
    BY <1>1, <1>2, <2>1, <2>2, MoveKeeps
<1>3. ASSUME NEW h \in ready[t],
             ready' = [ready EXCEPT ![t] = @ \ {h}],
             orphans' = orphans \ {h},
             cur' = [cur EXCEPT ![t] = h],
             Goto(t, "connect"),
             UNCHANGED template
      PROVE  IInv'
  <2>1. h \in DOMAIN blocks /\ HasParents(h, store)
    BY <1>3 DEF IInv, StoreTypeOK, ThreadInv
  <2>2. StoreTypeOK'
    BY <1>1, <1>3, <2>1 DEF IInv, StoreTypeOK, Goto, Labels, Frozen
  <2>3. \A u \in Threads \ {t} : Still(u)
    BY <1>3 DEF Still, Goto, IInv, StoreTypeOK
  <2>4. cur'[t] = h /\ pc'[t] = "connect" /\ ready'[t] \subseteq ready[t]
    BY <1>3 DEF Goto, IInv, StoreTypeOK
  <2>5. \A g \in ready'[t] \cup {h} : HasParents(g, store)'
    BY <1>1, <2>1, <2>4 DEF IInv, ThreadInv, HasParents, Frozen
  <2>6. HasParents(cur[t], store)' /\ cur'[t] \in DOMAIN blocks'
    BY <1>1, <2>1, <2>4, <2>5 DEF Frozen
  <2>7. ThreadInv(t)'
    BY <2>4, <2>5, <2>6 DEF ThreadInv
  <2> QED
    BY <1>1, <2>2, <2>3, <2>7, FrozenStep
<1> QED
  BY <1>2, <1>3 DEF Drain

\* The miner lists the parents of a template.
LEMMA StartTemplateKeeps ==
  ASSUME IInv, NEW t \in Threads, StartTemplate(t)
  PROVE  IInv'
<1>1. Frozen /\ UNCHANGED <<orphans, cur, ready>>
  BY DEF StartTemplate, Frozen, db, mem
<1>2. StoreTypeOK'
  BY <1>1 DEF IInv, StoreTypeOK, StartTemplate, Goto, Labels, Frozen
<1>3. \A u \in Threads \ {t} : Still(u)
  BY <1>1 DEF Still, StartTemplate, Goto, IInv, StoreTypeOK
<1>4. pc'[t] = "pick" /\ template'[t] = tips
  BY DEF StartTemplate, Goto, IInv, StoreTypeOK
<1>5. Range(tips) \subseteq store
  BY DEF IInv, StoreTypeOK, Range
<1>6. Range(template'[t]) \subseteq store'
  BY <1>1, <1>4, <1>5 DEF Frozen
<1>7. \A g \in ready'[t] : HasParents(g, store)'
  BY <1>1 DEF IInv, ThreadInv, HasParents, Frozen
<1>8. ThreadInv(t)'
  BY <1>4, <1>6, <1>7 DEF ThreadInv
<1> QED
  BY <1>1, <1>2, <1>3, <1>8, FrozenStep

\* The miner fills the template.
LEMMA FillTemplateKeeps ==
  ASSUME IInv, NEW t \in Threads, FillTemplate(t)
  PROVE  IInv'
<1>1. Frozen /\ UNCHANGED <<orphans, cur, ready>>
  BY DEF FillTemplate, Frozen, db
<1> DEFINE d    == Stamp(template[t])
           pick == Pick(d.score)
           b    == NewBlock(template[t], Miner, Fees(pick.body), pick.body, d.score, d.work,
                            BitsOf[diffTip])
<1>2. /\ template' = [template EXCEPT ![t] = b]
      /\ b.parents = template[t]
      /\ b.data = ProcessBlock(template[t], NetGd)
  <2>1. template' = [template EXCEPT ![t] = b]
    BY Zenon DEF FillTemplate
  <2> QED
    BY <2>1, NewBlockFields
<1> HIDE DEF b
<1>3. pc[t] = "pick" /\ Goto(t, "search")
  BY DEF FillTemplate
<1>4. StoreTypeOK'
  BY <1>1, <1>2, <1>3 DEF IInv, StoreTypeOK, Goto, Labels, Frozen
<1>5. \A u \in Threads \ {t} : Still(u)
  BY <1>1, <1>2, <1>3 DEF Still, Goto, IInv, StoreTypeOK
<1>6. pc'[t] = "search" /\ template'[t] = b
  BY <1>2, <1>3 DEF Goto, IInv, StoreTypeOK
<1>7. Range(template'[t].parents) \subseteq store'
  BY <1>1, <1>2, <1>3, <1>6 DEF IInv, ThreadInv, Frozen
<1>8. NetGd' = NetGd
  BY <1>1 DEF NetGd, Frozen
<1>9. template'[t].data = ProcessBlock(template'[t].parents, NetGd')
  BY <1>2, <1>6, <1>8
<1>10. \A g \in ready'[t] : HasParents(g, store)'
  BY <1>1 DEF IInv, ThreadInv, HasParents, Frozen
<1>11. ThreadInv(t)'
  BY <1>6, <1>7, <1>9, <1>10 DEF ThreadInv
<1> QED
  BY <1>1, <1>4, <1>5, <1>11, FrozenStep

----------------------------------------------------------------------------
(* The actions that add a block to the network                             *)

\* A block found on stored parents joins those of the network.
LEMMA FoundBlock ==
  ASSUME IInv, NEW h \in Hash \ DOMAIN blocks, NEW b,
         Range(b.parents) \subseteq DOMAIN blocks,
         b.data = ProcessBlock(b.parents, NetGd),
         blocks' = Put(blocks, h, b),
         UNCHANGED <<gd, store, headers, tips, dbTips>>
  PROVE  /\ DOMAIN blocks' = DOMAIN blocks \cup {h}
         /\ Grows /\ NetInv' /\ StoreInv'
<1>1. /\ DOMAIN blocks' = DOMAIN blocks \cup {h}
      /\ blocks'[h] = b
      /\ \A g \in DOMAIN blocks : blocks'[g] = blocks[g]
  BY DEF Put
<1>2. Grows
  BY <1>1 DEF Grows
<1>3. store \subseteq DOMAIN blocks /\ DOMAIN gd \subseteq DOMAIN blocks
  BY DEF IInv, StoreTypeOK
<1>4. ASSUME NEW g \in DOMAIN blocks'
      PROVE  /\ Range(blocks'[g].parents) \subseteq DOMAIN blocks
             /\ blocks'[g].data = ProcessBlock(blocks'[g].parents, NetGd)
  BY <1>1 DEF IInv, NetInv, HasParents
<1>5. ASSUME NEW g \in DOMAIN blocks'
      PROVE  /\ HasParents(g, DOMAIN blocks)'
             /\ blocks'[g].data = ProcessBlock(blocks'[g].parents, NetGd')
  <2>1. HasParents(g, DOMAIN blocks)'
    BY <1>1, <1>4 DEF HasParents
  <2>2. ProcessBlock(blocks'[g].parents, NetGd') = ProcessBlock(blocks'[g].parents, NetGd)
    BY <1>2, <1>4, SameNetData
  <2> QED
    BY <1>4, <2>1, <2>2
<1>6. NetInv'
  BY <1>5 DEF NetInv, IInv
<1>7. StoreInv'
  BY <1>1, <1>3 DEF IInv, StoreInv, GdStored, DagClosed, GdCanonical, TipsUsable
<1> QED
  BY <1>1, <1>2, <1>6, <1>7

\* A peer finds a block.
LEMMA PeerFindsKeeps ==
  ASSUME IInv, PeerFinds
  PROVE  IInv'
<1>1. PICK h \in Hash \ DOMAIN blocks, ps \in TipLists, body \in PeerBodies,
           fees \in PeerFees, err \in ScoreErrors :
        LET d == ProcessBlock(ps, NetGd) IN
          blocks' = Put(blocks, h, NewBlock(ps, PayeeOf[h], fees, body, d.score + err, d.work,
                                            ExpectedBits(ps, DOMAIN blocks)))
  BY Zenon DEF PeerFinds
<1>2. UNCHANGED <<db, mem, pc, locals>>
  BY Zenon DEF PeerFinds
<1> DEFINE d == ProcessBlock(ps, NetGd)
           b == NewBlock(ps, PayeeOf[h], fees, body, d.score + err, d.work,
                         ExpectedBits(ps, DOMAIN blocks))
<1>3. b.parents = ps /\ b.data = ProcessBlock(ps, NetGd)
  BY NewBlockFields
<1>4. Range(ps) \subseteq DOMAIN blocks
  BY DEF TipLists, Range
<1>5. blocks' = Put(blocks, h, b)
  BY <1>1
<1> HIDE DEF b
<1>6. UNCHANGED <<gd, store, headers, tips, dbTips, orphans, cur, ready, template, pc>>
  BY <1>2 DEF db, mem, locals
<1>7. DOMAIN blocks' = DOMAIN blocks \cup {h} /\ Grows /\ NetInv' /\ StoreInv'
  BY <1>3, <1>4, <1>5, <1>6, FoundBlock
<1>8. StoreTypeOK'
  BY <1>6, <1>7 DEF IInv, StoreTypeOK
<1>9. ASSUME NEW u \in Threads PROVE ThreadInv(u)'
  <2>1. Still(u)
    BY <1>6 DEF Still
  <2> QED
    BY <2>1, <1>7, ThreadKeeps DEF IInv
<1> QED
  BY <1>7, <1>8, <1>9 DEF IInv

\* The miner finds a block.
LEMMA FindKeeps ==
  ASSUME IInv, NEW t \in Threads, Find(t)
  PROVE  IInv'
<1>1. PICK h \in Hash \ DOMAIN blocks :
        blocks' = Put(blocks, h, template[t]) /\ cur' = [cur EXCEPT ![t] = h]
  BY DEF Find
<1>2. /\ pc[t] = "search" /\ Goto(t, "connect")
      /\ template' = [template EXCEPT ![t] = <<>>]
      /\ UNCHANGED <<gd, store, headers, tips, dbTips, orphans, ready>>
  BY DEF Find, db, mem
<1>3. /\ Range(template[t].parents) \subseteq store
      /\ template[t].data = ProcessBlock(template[t].parents, NetGd)
  BY <1>2 DEF IInv, ThreadInv
<1>4. Range(template[t].parents) \subseteq DOMAIN blocks
  BY <1>3 DEF IInv, StoreTypeOK
<1>5. DOMAIN blocks' = DOMAIN blocks \cup {h} /\ Grows /\ NetInv' /\ StoreInv'
  BY <1>1, <1>2, <1>3, <1>4, FoundBlock
<1>6. StoreTypeOK'
  BY <1>1, <1>2, <1>5 DEF IInv, StoreTypeOK, Goto, Labels
<1>7. \A u \in Threads \ {t} : Still(u)
  BY <1>1, <1>2 DEF Still, Goto, IInv, StoreTypeOK
<1>8. pc'[t] = "connect" /\ cur'[t] = h /\ blocks'[h] = template[t]
  BY <1>1, <1>2 DEF Put, Goto, IInv, StoreTypeOK
<1>9. HasParents(cur[t], store)' /\ cur'[t] \in DOMAIN blocks'
  BY <1>2, <1>3, <1>5, <1>8 DEF HasParents
<1>10. \A g \in ready'[t] : HasParents(g, store)'
  BY <1>2, <1>5 DEF IInv, StoreTypeOK, ThreadInv, HasParents, Grows
<1>11. ThreadInv(t)'
  BY <1>8, <1>9, <1>10 DEF ThreadInv
<1>12. ASSUME NEW u \in Threads PROVE ThreadInv(u)'
  <2>1. CASE u = t
    BY <2>1, <1>11
  <2>2. CASE u # t
    BY <2>2, <1>5, <1>7, ThreadKeeps DEF IInv
  <2> QED
    BY <2>1, <2>2
<1> QED
  BY <1>5, <1>6, <1>12 DEF IInv

----------------------------------------------------------------------------
(* The actions that write to the store                                     *)

\* A step of thread t that writes to the store.
LEMMA WriteStep ==
  ASSUME IInv, Grows, NEW t \in Threads, \A u \in Threads \ {t} : Still(u),
         StoreTypeOK', NetInv', StoreInv', ThreadInv(t)'
  PROVE  IInv'
<1>1. ASSUME NEW u \in Threads PROVE ThreadInv(u)'
  <2>1. CASE u = t
    BY <2>1
  <2>2. CASE u # t
    BY <2>2, ThreadKeeps DEF IInv
  <2> QED
    BY <2>1, <2>2
<1> QED
  BY <1>1 DEF IInv

\* The data that connect_block writes is the data of every node.
LEMMA WrittenData ==
  ASSUME IInv, NEW h \in DOMAIN blocks, HasParents(h, store)
  PROVE  ProcessBlock(blocks[h].parents, gd) = blocks[h].data
<1>1. /\ Range(blocks[h].parents) \subseteq DOMAIN gd
      /\ Range(blocks[h].parents) \subseteq DOMAIN blocks
  BY DEF IInv, StoreInv, GdStored, StoreTypeOK, HasParents
<1>2. \A p \in Range(blocks[h].parents) : gd[p] = NetGd[p]
  BY <1>1 DEF IInv, StoreInv, GdCanonical, NetGd
<1>3. DOMAIN NetGd = DOMAIN blocks
  BY DEF NetGd
<1>4. ProcessBlock(blocks[h].parents, gd) = ProcessBlock(blocks[h].parents, NetGd)
  <2> HIDE DEF NetGd
  <2> QED BY <1>1, <1>2, <1>3, SameData
<1> QED
  BY <1>4 DEF IInv, NetInv

\* The first write of a block: its order.
LEMMA PutGhostdagKeeps ==
  ASSUME IInv, NEW t \in Threads, PutGhostdag(t)
  PROVE  IInv'
<1> DEFINE h == cur[t]
           d == ProcessBlock(blocks[h].parents, gd)
<1>1. /\ pc[t] = "connect" /\ Goto(t, "put_block")
      /\ gd' = Put(gd, h, d)
      /\ UNCHANGED <<blocks, store, headers, dbTips, tips, orphans, cur, ready, template>>
  BY DEF PutGhostdag, mem
<1>2. h \in DOMAIN blocks /\ HasParents(h, store)
  BY <1>1 DEF IInv, ThreadInv
<1>3. d = blocks[h].data
  BY <1>2, WrittenData
<1>4. blocks[h].score = d.score /\ blocks[h].work = d.work
  BY Zenon DEF PutGhostdag, ValidHeader
<1> HIDE DEF d
<1>5. /\ DOMAIN gd' = DOMAIN gd \cup {h}
      /\ gd'[h] = d
      /\ \A g \in DOMAIN gd \ {h} : gd'[g] = gd[g]
  BY <1>1 DEF Put
<1>6. Grows
  BY <1>1, <1>5 DEF Grows
<1>7. StoreTypeOK'
  BY <1>1, <1>2, <1>5 DEF IInv, StoreTypeOK, Goto, Labels
<1>8. NetGd' = NetGd
  BY <1>1 DEF NetGd
<1>9. NetInv'
  BY <1>1, <1>8 DEF IInv, NetInv, HasParents
<1>10. GdCanonical'
  BY <1>1, <1>3, <1>4, <1>5 DEF IInv, StoreInv, GdCanonical
<1>11. StoreInv'
  BY <1>1, <1>5, <1>10 DEF IInv, StoreInv, GdStored, DagClosed, TipsUsable
<1>12. \A u \in Threads \ {t} : Still(u)
  BY <1>1 DEF Still, Goto, IInv, StoreTypeOK
<1>13. pc'[t] = "put_block" /\ cur'[t] = h /\ h \in DOMAIN gd'
  BY <1>1, <1>5 DEF Goto, IInv, StoreTypeOK
<1>14. \A g \in ready'[t] \cup {h} : HasParents(g, store)'
  BY <1>1, <1>2 DEF IInv, ThreadInv, HasParents
<1>15. ThreadInv(t)'
  BY <1>13, <1>14 DEF ThreadInv
<1> QED
  BY <1>6, <1>7, <1>9, <1>11, <1>12, <1>15, WriteStep

\* The second write: the block.
LEMMA PutBlockKeeps ==
  ASSUME IInv, NEW t \in Threads, PutBlock(t)
  PROVE  IInv'
<1> DEFINE h == cur[t]
<1>1. /\ pc[t] = "put_block" /\ Goto(t, "put_header")
      /\ store' = store \cup {h}
      /\ UNCHANGED <<blocks, gd, headers, dbTips, tips, orphans, cur, ready, template>>
  BY DEF PutBlock, mem, locals
<1>2. h \in DOMAIN gd /\ h \in DOMAIN blocks /\ HasParents(h, store)
  BY <1>1 DEF IInv, ThreadInv, StoreTypeOK
<1>3. Grows
  BY <1>1 DEF Grows
<1>4. tips' \in Seq(store') /\ dbTips' \in Seq(store')
  BY <1>1 DEF IInv, StoreTypeOK
<1>5. StoreTypeOK'
  BY <1>1, <1>2, <1>4 DEF IInv, StoreTypeOK, Goto, Labels
<1>6. NetGd' = NetGd
  BY <1>1 DEF NetGd
<1>7. NetInv'
  BY <1>1, <1>6 DEF IInv, NetInv, HasParents
<1>8. DagClosed'
  BY <1>1, <1>2 DEF IInv, StoreInv, DagClosed, HasParents
<1>9. StoreInv'
  BY <1>1, <1>2, <1>8 DEF IInv, StoreInv, GdStored, GdCanonical, TipsUsable
<1>10. \A u \in Threads \ {t} : Still(u)
  BY <1>1 DEF Still, Goto, IInv, StoreTypeOK
<1>11. pc'[t] = "put_header" /\ cur'[t] \in store'
  BY <1>1 DEF Goto, IInv, StoreTypeOK
<1>12. \A g \in ready'[t] : HasParents(g, store)'
  BY <1>1 DEF IInv, ThreadInv, HasParents
<1>13. ThreadInv(t)'
  BY <1>11, <1>12 DEF ThreadInv
<1> QED
  BY <1>3, <1>5, <1>7, <1>9, <1>10, <1>13, WriteStep

\* The third write: its header.
LEMMA PutHeaderKeeps ==
  ASSUME IInv, NEW t \in Threads, PutHeader(t)
  PROVE  IInv'
<1>1. /\ pc[t] = "put_header" /\ Goto(t, "put_tips")
      /\ headers' = headers \cup {cur[t]}
      /\ UNCHANGED <<blocks, gd, store, dbTips, tips, orphans, cur, ready, template>>
  BY DEF PutHeader, mem, locals
<1>2. cur[t] \in store
  BY <1>1 DEF IInv, ThreadInv
<1>3. Grows
  BY <1>1 DEF Grows
<1>4. StoreTypeOK'
  BY <1>1, <1>2 DEF IInv, StoreTypeOK, Goto, Labels
<1>5. NetGd' = NetGd
  BY <1>1 DEF NetGd
<1>6. NetInv'
  BY <1>1, <1>5 DEF IInv, NetInv, HasParents
<1>7. StoreInv'
  BY <1>1 DEF IInv, StoreInv, GdStored, DagClosed, GdCanonical, TipsUsable
<1>8. \A u \in Threads \ {t} : Still(u)
  BY <1>1 DEF Still, Goto, IInv, StoreTypeOK
<1>9. pc'[t] = "put_tips" /\ cur'[t] \in headers'
  BY <1>1 DEF Goto, IInv, StoreTypeOK
<1>10. \A g \in ready'[t] : HasParents(g, store)'
  BY <1>1 DEF IInv, ThreadInv, HasParents
<1>11. ThreadInv(t)'
  BY <1>9, <1>10 DEF ThreadInv
<1> QED
  BY <1>3, <1>4, <1>6, <1>7, <1>8, <1>11, WriteStep

\* The tips after an insertion: a nonempty list of blocks with a header.
LEMMA TipsAfterFacts ==
  ASSUME IInv, NEW h \in headers
  PROVE  /\ TipsAfter(h) \in Seq(store)
         /\ TipsAfter(h) # <<>>
         /\ Range(TipsAfter(h)) \subseteq headers
<1> DEFINE s == Retain(tips, Range(blocks[h].parents))
<1>1. tips \in Seq(store) /\ h \in store /\ Range(tips) \subseteq headers
  BY DEF IInv, StoreTypeOK, StoreInv, TipsUsable
<1>2. s \in Seq(store) /\ Range(s) \subseteq Range(tips)
  BY <1>1, RetainKeeps
<1>3. TipsAfter(h) = Append(s, h)
  BY DEF TipsAfter
<1> HIDE DEF s
<1>4. Append(s, h) \in Seq(store) /\ Append(s, h) # <<>>
  BY <1>1, <1>2
<1>5. ASSUME NEW i \in DOMAIN Append(s, h) PROVE Append(s, h)[i] \in headers
  <2>1. CASE i \in DOMAIN s
    <3>1. Append(s, h)[i] = s[i] /\ s[i] \in Range(s)
      BY <2>1, <1>1, <1>2 DEF Range
    <3> QED
      BY <3>1, <1>1, <1>2
  <2>2. CASE i \notin DOMAIN s
    BY <2>2, <1>1, <1>2
  <2> QED
    BY <2>1, <2>2
<1> QED
  BY <1>3, <1>4, <1>5 DEF Range

\* The last write: the tips.
LEMMA PutTipsKeeps ==
  ASSUME IInv, NEW t \in Threads, PutTips(t)
  PROVE  IInv'
<1>1. /\ pc[t] = "put_tips" /\ Goto(t, "select")
      /\ tips' = TipsAfter(cur[t]) /\ dbTips' = TipsAfter(cur[t])
      /\ UNCHANGED <<blocks, gd, store, headers, orphans, cur, ready, template>>
  BY DEF PutTips, locals
<1>2. cur[t] \in headers
  BY <1>1 DEF IInv, ThreadInv
<1>3. /\ tips' \in Seq(store) /\ tips' # <<>> /\ Range(tips') \subseteq headers
      /\ dbTips' = tips'
  BY <1>1, <1>2, TipsAfterFacts
<1>4. Grows
  BY <1>1 DEF Grows
<1>5. StoreTypeOK'
  BY <1>1, <1>3 DEF IInv, StoreTypeOK, Goto, Labels
<1>6. NetGd' = NetGd
  BY <1>1 DEF NetGd
<1>7. NetInv'
  BY <1>1, <1>6 DEF IInv, NetInv, HasParents
<1>8. StoreInv'
  BY <1>1, <1>3 DEF IInv, StoreInv, GdStored, DagClosed, GdCanonical, TipsUsable
<1>9. \A u \in Threads \ {t} : Still(u)
  BY <1>1 DEF Still, Goto, IInv, StoreTypeOK
<1>10. pc'[t] = "select"
  BY <1>1 DEF Goto, IInv, StoreTypeOK
<1>11. \A g \in ready'[t] : HasParents(g, store)'
  BY <1>1 DEF IInv, ThreadInv, HasParents
<1>12. ThreadInv(t)'
  BY <1>10, <1>11 DEF ThreadInv
<1> QED
  BY <1>4, <1>5, <1>7, <1>8, <1>9, <1>12, WriteStep

\* A restart takes its tips from the metadata and keeps nothing else.
LEMMA CrashKeeps ==
  ASSUME IInv, Crash
  PROVE  IInv'
<1>1. /\ UNCHANGED <<blocks, gd, store, headers, dbTips>>
      /\ tips' = dbTips /\ orphans' = {}
      /\ pc' = [t \in Threads |-> "idle"]
      /\ cur' = [t \in Threads |-> Zero]
      /\ ready' = [t \in Threads |-> {}]
      /\ template' = [t \in Threads |-> <<>>]
  BY Zenon DEF Crash, db
<1>2. StoreTypeOK'
  BY <1>1 DEF IInv, StoreTypeOK, Labels
<1>3. NetGd' = NetGd
  BY <1>1 DEF NetGd
<1>4. NetInv'
  BY <1>1, <1>3 DEF IInv, NetInv, HasParents
<1>5. StoreInv'
  BY <1>1 DEF IInv, StoreInv, GdStored, DagClosed, GdCanonical, TipsUsable
<1>6. ASSUME NEW u \in Threads PROVE ThreadInv(u)'
  BY <1>1 DEF ThreadInv
<1> QED
  BY <1>2, <1>4, <1>5, <1>6 DEF IInv

----------------------------------------------------------------------------
(* The theorems                                                            *)

\* A node starts with the genesis block alone.
LEMMA InitEstablishes == Init => IInv
<1> SUFFICES ASSUME Init PROVE IInv
  OBVIOUS
<1>1. /\ DOMAIN blocks = {Genesis} /\ blocks[Genesis] = GenesisBlock
      /\ DOMAIN gd = {Genesis} /\ gd[Genesis] = GenesisData
  <2>1. /\ blocks = [h \in {Genesis} |-> GenesisBlock]
        /\ gd = [h \in {Genesis} |-> GenesisData]
    BY Zenon DEF Init
  <2> QED
    BY <2>1
<1>2. /\ store = {Genesis} /\ headers = {Genesis} /\ orphans = {}
      /\ tips = <<Genesis>> /\ dbTips = <<Genesis>>
      /\ pc = [t \in Threads |-> "idle"]
      /\ cur = [t \in Threads |-> Zero]
      /\ ready = [t \in Threads |-> {}]
      /\ template = [t \in Threads |-> <<>>]
  BY Zenon DEF Init
<1>3. /\ GenesisBlock.parents = <<>> /\ GenesisBlock.data = GenesisData
      /\ GenesisBlock.score = GenesisData.score /\ GenesisBlock.work = GenesisData.work
  BY DEF GenesisBlock, GenesisData
<1>4. Range(<<>>) = {} /\ Range(<<Genesis>>) = {Genesis}
  BY DEF Range
<1>5. StoreTypeOK
  BY <1>1, <1>2, HashAssumption DEF StoreTypeOK, Labels
<1>6. ProcessBlock(<<>>, NetGd) = GenesisData
  BY DEF ProcessBlock
<1>7. NetInv
  BY <1>1, <1>2, <1>3, <1>4, <1>6 DEF NetInv, HasParents
<1>8. StoreInv
  BY <1>1, <1>2, <1>3, <1>4 DEF StoreInv, GdStored, DagClosed, GdCanonical, TipsUsable
<1>9. ASSUME NEW t \in Threads PROVE ThreadInv(t)
  BY <1>2 DEF ThreadInv
<1> QED
  BY <1>5, <1>7, <1>8, <1>9 DEF IInv

\* Every step keeps the invariant.
LEMMA NextKeeps == IInv /\ [Next]_vars => IInv'
<1> SUFFICES ASSUME IInv, [Next]_vars PROVE IInv'
  OBVIOUS
<1>1. CASE PeerFinds
  BY <1>1, PeerFindsKeeps
<1>2. ASSUME NEW t \in Threads, Step(t) PROVE IInv'
  BY <1>2, ParkKeeps, RefuseKeeps, PutGhostdagKeeps, PutBlockKeeps, PutHeaderKeeps,
     PutTipsKeeps, SelectKeeps, DoReorganizeKeeps, RebuildKeeps, ResumeKeeps,
     FinishKeeps, ScanKeeps, DrainKeeps DEF Step
<1>3. ASSUME NEW t \in Threads, NEW h \in Hash, Accept(t, h) PROVE IInv'
  BY <1>3, AcceptKeeps
<1>4. ASSUME NEW t \in Threads, SyncRound(t) PROVE IInv'
  BY <1>4, SyncRoundKeeps
<1>5. ASSUME NEW t \in Threads, Mine(t) PROVE IInv'
  BY <1>5, StartTemplateKeeps, FillTemplateKeeps, FindKeeps, GiveUpKeeps DEF Mine
<1>6. ASSUME NEW m \in DOMAIN Transfers, AcceptTx(m) PROVE IInv'
  <2>1. Frozen /\ UNCHANGED <<orphans, pc, locals>>
    BY <1>6 DEF AcceptTx, Frozen, db
  <2> QED
    BY <2>1, FrozenRest
<1>7. ASSUME NEW m \in DOMAIN Transfers, EvictTx(m) PROVE IInv'
  <2>1. Frozen /\ UNCHANGED <<orphans, pc, locals>>
    BY <1>7 DEF EvictTx, Frozen, db
  <2> QED
    BY <2>1, FrozenRest
<1>8. ASSUME NEW on \in BOOLEAN, SetMining(on) PROVE IInv'
  <2>1. Frozen /\ UNCHANGED <<orphans, pc, locals>>
    BY <1>8 DEF SetMining, Frozen, db
  <2> QED
    BY <2>1, FrozenRest
<1>9. CASE Crash
  BY <1>9, CrashKeeps
<1>10. CASE UNCHANGED vars
  <2>1. Frozen /\ UNCHANGED <<orphans, pc, locals>>
    BY <1>10 DEF vars, Frozen, db, mem
  <2> QED
    BY <2>1, FrozenRest
<1> QED
  BY <1>1, <1>2, <1>3, <1>4, <1>5, <1>6, <1>7, <1>8, <1>9, <1>10 DEF Next

\* The inductive invariant of connect_block, the orphan loop, the mining loop
\* and the restart holds in every state.
THEOREM StoreInvariant == Spec => []IInv
<1>1. Init => IInv
  BY InitEstablishes
<1>2. IInv /\ [Next]_vars => IInv'
  BY NextKeeps
<1> QED
  BY <1>1, <1>2, PTL DEF Spec

\* The store and the threads keep their types: what connect_block reads back
\* from the column families and the tips are blocks that exist.
THEOREM StoreTypeCorrect == Spec => []StoreTypeOK
<1>1. IInv => StoreTypeOK
  BY DEF IInv
<1> QED
  BY <1>1, StoreInvariant, PTL

\* A stored block always has its GhostDAG entry, whatever the threads do and
\* wherever the process dies: the order of the writes of connect_block.
THEOREM StoredHaveGhostdag == Spec => []GdStored
<1>1. IInv => GdStored
  BY DEF IInv, StoreInv
<1> QED
  BY <1>1, StoreInvariant, PTL

\* The stored blocks are always closed under parents: accept_external_block,
\* try_connect_orphans and the worker let no block in before its parents.
THEOREM StoreIsClosed == Spec => []DagClosed
<1>1. IInv => DagClosed
  BY DEF IInv, StoreInv
<1> QED
  BY <1>1, StoreInvariant, PTL

\* Every node orders a block in the same way: the data that connect_block has
\* written is that of a node with all ancestors, whatever came first.
THEOREM OrderIsCanonical == Spec => []GdCanonical
<1>1. IInv => GdCanonical
  BY DEF IInv, StoreInv
<1> QED
  BY <1>1, StoreInvariant, PTL

\* A restart always finds tips, and all of them have headers.
THEOREM RestartFindsTip == Spec => []TipsUsable
<1>1. IInv => TipsUsable
  BY DEF IInv, StoreInv
<1> QED
  BY <1>1, StoreInvariant, PTL

\* Every step lets the network and the database grow.
LEMMA PutGrows ==
  ASSUME NEW h, NEW b, h \notin DOMAIN blocks, blocks' = Put(blocks, h, b),
         UNCHANGED <<gd, store, headers>>
  PROVE  Grows
<1>1. /\ DOMAIN blocks' = DOMAIN blocks \cup {h}
      /\ \A g \in DOMAIN blocks : blocks'[g] = blocks[g]
  BY DEF Put
<1> QED
  BY <1>1 DEF Grows

\* No step of a thread forgets a block.
LEMMA StepGrows ==
  ASSUME NEW t \in Threads, Step(t)
  PROVE  Grows
<1> DEFINE Quiescent == UNCHANGED <<blocks, gd, store, headers>>
<1>1. Quiescent => Grows
  BY DEF Grows
<1>2. CASE Park(t) \/ Refuse(t) \/ Select(t) \/ Rebuild(t) \/ Resume(t) \/ Finish(t)
  <2>1. Quiescent
    BY <1>2 DEF Park, Refuse, Select, Rebuild, Resume, Finish, db
  <2> QED
    BY <1>1, <2>1
<1>3. CASE Scan(t) \/ Drain(t)
  <2>1. Quiescent
    BY <1>3, Zenon DEF Scan, Drain, db
  <2> QED
    BY <1>1, <2>1
<1>4. CASE DoReorganize(t)
  <2>1. Quiescent
    BY <1>4 DEF DoReorganize
  <2> QED
    BY <1>1, <2>1
<1>5. CASE PutTips(t)
  <2>1. Quiescent
    BY <1>5 DEF PutTips
  <2> QED
    BY <1>1, <2>1
<1>6. CASE PutGhostdag(t)
  <2>1. /\ gd' = Put(gd, cur[t], ProcessBlock(blocks[cur[t]].parents, gd))
        /\ UNCHANGED <<blocks, store, headers>>
    BY <1>6 DEF PutGhostdag
  <2>2. DOMAIN gd' = DOMAIN gd \cup {cur[t]}
    BY <2>1 DEF Put
  <2> QED
    BY <2>1, <2>2 DEF Grows
<1>7. CASE PutBlock(t)
  BY <1>7 DEF PutBlock, Grows
<1>8. CASE PutHeader(t)
  BY <1>8 DEF PutHeader, Grows
<1> QED
  BY <1>2, <1>3, <1>4, <1>5, <1>6, <1>7, <1>8 DEF Step

\* No step at all does.
LEMMA NextGrows ==
  ASSUME [Next]_vars
  PROVE  Grows
<1> DEFINE Quiescent == UNCHANGED <<blocks, gd, store, headers>>
<1>1. Quiescent => Grows
  BY DEF Grows
<1>2. CASE PeerFinds
  <2>1. \E h, b : h \notin DOMAIN blocks /\ blocks' = Put(blocks, h, b)
    BY <1>2, Zenon DEF PeerFinds
  <2>2. UNCHANGED <<gd, store, headers>>
    BY <1>2, Zenon DEF PeerFinds, db
  <2> QED
    BY <2>1, <2>2, PutGrows
<1>3. ASSUME NEW t \in Threads, Mine(t) PROVE Grows
  <2>1. CASE Find(t)
    <3>1. \E h, b : h \notin DOMAIN blocks /\ blocks' = Put(blocks, h, b)
      BY <2>1, Zenon DEF Find
    <3>2. UNCHANGED <<gd, store, headers>>
      BY <2>1, Zenon DEF Find, db
    <3> QED
      BY <3>1, <3>2, PutGrows
  <2>2. CASE StartTemplate(t) \/ FillTemplate(t) \/ GiveUp(t)
    <3>1. Quiescent
      BY <2>2, Zenon DEF StartTemplate, FillTemplate, GiveUp, db
    <3> QED
      BY <1>1, <3>1
  <2> QED
    BY <1>3, <2>1, <2>2 DEF Mine
<1>4. ASSUME NEW t \in Threads, NEW h \in Hash, Accept(t, h) PROVE Quiescent
  BY <1>4, Zenon DEF Accept, db
<1>5. ASSUME NEW t \in Threads, SyncRound(t) PROVE Quiescent
  BY <1>5, Zenon DEF SyncRound, db
<1>6. ASSUME NEW m \in DOMAIN Transfers, AcceptTx(m) \/ EvictTx(m) PROVE Quiescent
  BY <1>6, Zenon DEF AcceptTx, EvictTx, db
<1>7. ASSUME NEW on \in BOOLEAN, SetMining(on) PROVE Quiescent
  BY <1>7, Zenon DEF SetMining, db
<1>8. Crash \/ UNCHANGED vars => Quiescent
  BY Zenon DEF Crash, vars, db
<1> HIDE DEF Quiescent
<1> QED
  BY <1>1, <1>2, <1>3, <1>4, <1>5, <1>6, <1>7, <1>8, StepGrows DEF Next

\* No step, crash included, takes a block out of the database or changes the
\* GhostDAG data of a block, also when two threads write the same block or a
\* block is connected a second time after a crash.
THEOREM StoreNeverShrinks == Spec => StoreGrows
<1> DEFINE Kept == /\ store \subseteq store'
                   /\ headers \subseteq headers'
                   /\ \A h \in DOMAIN gd : h \in DOMAIN gd' /\ gd'[h] = gd[h]
<1>1. IInv /\ IInv' /\ [Next]_vars => Kept
  <2> SUFFICES ASSUME IInv, IInv', [Next]_vars PROVE Kept
    OBVIOUS
  <2>1. Grows
    BY NextGrows
  <2>2. /\ \A h \in DOMAIN gd : gd[h] = blocks[h].data /\ h \in DOMAIN blocks
        /\ \A h \in DOMAIN gd' : gd'[h] = blocks'[h].data
    BY DEF IInv, StoreInv, GdCanonical, StoreTypeOK
  <2> QED
    BY <2>1, <2>2 DEF Grows
<1>2. IInv /\ IInv' /\ [Next]_vars => [Kept]_vars
  BY <1>1
<1> HIDE DEF Kept
<1>3. Spec => [][Kept]_vars
  BY <1>2, StoreInvariant, PTL DEF Spec
<1> QED
  BY <1>3 DEF StoreGrows, Kept

----------------------------------------------------------------------------
(* The tips, with one thread and until a crash                             *)

\* Vec::retain takes away what it is told to and nothing else, and a list
\* without repetition stays one.
LEMMA RetainExact ==
  ASSUME NEW S, NEW s \in Seq(S), NEW gone
  PROVE  /\ Range(Retain(s, gone)) = Range(s) \ gone
         /\ Once(s) => Once(Retain(s, gone))
<1> DEFINE kept    == {i \in DOMAIN s : s[i] \notin gone}
           Lower(i) == {j \in kept : j < i}
           N       == Cardinality(kept)
           at(k)   == CHOOSE i \in kept : Cardinality(Lower(i)) = k - 1
<1>1. Len(s) \in Nat /\ DOMAIN s = 1..Len(s) /\ kept \subseteq 1..Len(s)
  OBVIOUS
<1>2. IsFiniteSet(kept) /\ N \in Nat
  <2>1. IsFiniteSet(1..Len(s))
    BY <1>1, FS_Interval
  <2> HIDE DEF kept
  <2>2. IsFiniteSet(kept)
    BY <1>1, <2>1, FS_Subset, Zenon
  <2> QED
    BY <2>2, FS_CardinalityType, Zenon
<1>3. \A i : Lower(i) \subseteq kept
  OBVIOUS
<1>4. \A i : /\ IsFiniteSet(Lower(i)) /\ Cardinality(Lower(i)) \in Nat
             /\ Cardinality(Lower(i)) <= N
             /\ Cardinality(Lower(i)) = N => Lower(i) = kept
  <2>1. TAKE i
  <2>2. Lower(i) \in SUBSET kept
    BY <1>3
  <2> HIDE DEF Lower, kept
  <2> QED
    BY <1>2, <2>2, FS_Subset, FS_CardinalityType
<1>5. \A k \in 1..N : at(k) \in kept /\ Cardinality(Lower(at(k))) = k - 1
  <2>1. TAKE k \in 1..N
  <2>2. \E i \in kept : Cardinality(Lower(i)) = k - 1
    <3> HIDE DEF kept
    <3> QED
      BY <1>1, KeptPosition
  <2> HIDE DEF kept, Lower
  <2> QED
    BY <2>2
<1>6. \A i, j \in kept : j < i => Cardinality(Lower(j)) # Cardinality(Lower(i))
  <2>1. SUFFICES ASSUME NEW i \in kept, NEW j \in kept, j < i,
                        Cardinality(Lower(j)) = Cardinality(Lower(i))
                 PROVE  FALSE
    OBVIOUS
  <2>2. i \in Nat /\ j \in Nat /\ \A l \in kept : l \in Nat
    BY <1>1
  <2>3. j \in Lower(i) /\ j \notin Lower(j) /\ Lower(j) \in SUBSET Lower(i)
    BY <2>1, <2>2
  <2> HIDE DEF Lower, kept
  <2>4. Lower(j) = Lower(i)
    BY <1>4, <2>1, <2>3, FS_Subset
  <2> QED
    BY <2>3, <2>4
<1>7. \A i \in kept : \E k \in 1..N : at(k) = i
  <2>1. TAKE i \in kept
  <2>2. i \notin Lower(i)
    BY <1>1
  <2> DEFINE k == Cardinality(Lower(i)) + 1
  <2> HIDE DEF Lower, kept, N
  <2>3. k \in 1..N /\ Cardinality(Lower(i)) = k - 1
    BY <1>2, <1>4, <2>2
  <2> HIDE DEF k, at
  <2>4. at(k) \in kept /\ Cardinality(Lower(at(k))) = Cardinality(Lower(i))
    BY <1>5, <2>3
  <2>5. at(k) = i
    <3>1. ~ (at(k) < i) /\ ~ (i < at(k))
      BY <1>6, <2>4
    <3>2. at(k) \in 1..Len(s) /\ i \in 1..Len(s)
      BY <1>1, <2>4
    <3> QED
      BY <3>1, <3>2, <1>1
  <2> QED
    BY <2>3, <2>5
<1>8. Retain(s, gone) = [k \in 1..N |-> s[at(k)]]
  BY DEF Retain
<1>9. \A i \in DOMAIN s : i \in kept <=> s[i] \notin gone
  OBVIOUS
<1>10. kept \subseteq DOMAIN s
  OBVIOUS
<1>11. \A k, l \in 1..N : at(k) = at(l) => k = l
  <2>1. TAKE k, l \in 1..N
  <2>2. k \in Int /\ l \in Int /\ (k - 1 = l - 1 => k = l)
    BY <1>2
  <2> HIDE DEF Lower, kept, N, at
  <2> QED
    BY <1>5, <2>2
<1> HIDE DEF kept, Lower, N, at
<1>12. Range(Retain(s, gone)) = Range(s) \ gone
  <2>1. \A k \in 1..N : s[at(k)] \in Range(s) \ gone
    BY <1>5, <1>9, <1>10 DEF Range
  <2>2. ASSUME NEW x \in Range(s) \ gone PROVE \E k \in 1..N : s[at(k)] = x
    <3>1. PICK i \in DOMAIN s : s[i] = x
      BY DEF Range
    <3>2. i \in kept
      BY <1>9, <2>2, <3>1
    <3> QED
      BY <1>7, <3>1, <3>2
  <2> QED
    BY <1>8, <2>1, <2>2 DEF Range
<1>13. ASSUME Once(s) PROVE Once(Retain(s, gone))
  <2>1. \A k, l \in 1..N : s[at(k)] = s[at(l)] => at(k) = at(l)
    BY <1>5, <1>10, <1>13 DEF Once
  <2> QED
    BY <1>8, <1>11, <2>1 DEF Once
<1> QED
  BY <1>12, <1>13

\* Only one thread connects blocks.
OneThread == \A s, t \in Threads : s = t

\* Blocks that insert_block has stored and not yet made a tip.
Writing(t) == pc[t] \in {"put_header", "put_tips"}
Pending == {cur[t] : t \in {u \in Threads : Writing(u)}}
Announced == store \ Pending

\* The tips are the announced blocks without an announced child; a block that
\* is being inserted is new, and nobody's parent.
TipsInv ==
  /\ Range(tips) = {h \in Announced : \A c \in Announced : h \notin Range(blocks[c].parents)}
  /\ Once(tips)
  /\ \A t \in Threads :
       /\ pc[t] = "put_block" => cur[t] \notin store
       /\ Writing(t) => /\ cur[t] \in store
                        /\ \A c \in store : cur[t] \notin Range(blocks[c].parents)

\* A step that writes neither a block nor the tips.
LEMMA TipsStill ==
  ASSUME StoreTypeOK, TipsInv, Grows, UNCHANGED <<store, tips>>,
         \A t \in Threads : /\ Writing(t)' <=> Writing(t)
                            /\ Writing(t) => cur'[t] = cur[t]
                            /\ pc'[t] = "put_block" => cur'[t] \notin store
  PROVE  TipsInv'
<1>1. Pending' = Pending /\ Announced' = Announced
  <2>1. Pending' = {cur'[t] : t \in {u \in Threads : Writing(u)'}}
    BY DEF Pending
  <2>2. Pending' = Pending
    BY <2>1 DEF Pending
  <2> QED
    BY <2>2 DEF Announced
<1>2. \A h \in store : blocks'[h] = blocks[h]
  BY DEF StoreTypeOK, Grows
<1>3. Announced \subseteq store
  BY DEF Announced
<1>4. Range(tips') = {h \in Announced' :
                        \A c \in Announced' : h \notin Range(blocks'[c].parents)}
  BY <1>1, <1>2, <1>3 DEF TipsInv
<1>5. ASSUME NEW t \in Threads
      PROVE  /\ pc'[t] = "put_block" => cur'[t] \notin store'
             /\ Writing(t)' => /\ cur'[t] \in store'
                               /\ \A c \in store' : cur'[t] \notin Range(blocks'[c].parents)
  BY <1>2 DEF TipsInv
<1> QED
  BY <1>4, <1>5 DEF TipsInv

\* A step of the one thread that is not inside insert_block.
LEMMA TipsMove ==
  ASSUME OneThread, IInv, TipsInv, Grows, UNCHANGED <<store, tips>>, NEW t \in Threads,
         ~Writing(t), pc'[t] \notin {"put_header", "put_tips"},
         pc'[t] = "put_block" => cur'[t] \notin store
  PROVE  TipsInv'
<1>1. \A u \in Threads : u = t
  BY DEF OneThread
<1>2. ~ Writing(t)'
  BY DEF Writing
<1>3. \A u \in Threads : /\ Writing(u)' <=> Writing(u)
                         /\ Writing(u) => cur'[u] = cur[u]
                         /\ pc'[u] = "put_block" => cur'[u] \notin store
  BY <1>1, <1>2
<1> QED
  BY <1>3, TipsStill DEF IInv

\* put_block: the block is stored, its parents are, and it is no tip yet.
LEMMA PutBlockTips ==
  ASSUME OneThread, IInv, TipsInv, NEW t \in Threads, PutBlock(t)
  PROVE  TipsInv'
<1>1. /\ pc[t] = "put_block" /\ store' = store \cup {cur[t]} /\ pc' = [pc EXCEPT ![t] = "put_header"]
      /\ UNCHANGED <<blocks, tips, cur>>
  BY DEF PutBlock, Goto, mem, locals
<1>2. /\ \A u \in Threads : u = t
      /\ pc'[t] = "put_header"
  BY <1>1 DEF OneThread, IInv, StoreTypeOK
<1>3. cur[t] \notin store /\ Range(blocks[cur[t]].parents) \subseteq store /\ DagClosed
  BY <1>1 DEF TipsInv, IInv, StoreInv, ThreadInv, HasParents
<1>4. ~Writing(t) /\ Writing(t)'
  BY <1>1, <1>2 DEF Writing
<1>5. Pending = {} /\ Pending' = {cur[t]}
  <2>1. {u \in Threads : Writing(u)} = {} /\ {u \in Threads : Writing(u)'} = {t}
    BY <1>2, <1>4
  <2>2. Pending' = {cur'[u] : u \in {v \in Threads : Writing(v)'}}
    BY DEF Pending
  <2> QED
    BY <1>1, <2>1, <2>2 DEF Pending
<1>6. Announced = store /\ Announced' = store
  BY <1>1, <1>3, <1>5 DEF Announced
<1>7. Range(tips') = {h \in Announced' :
                        \A c \in Announced' : h \notin Range(blocks'[c].parents)}
  BY <1>1, <1>6 DEF TipsInv
<1>8. \A c \in store' : cur[t] \notin Range(blocks[c].parents)
  BY <1>1, <1>3 DEF DagClosed
<1>9. ASSUME NEW u \in Threads
      PROVE  /\ pc'[u] # "put_block"
             /\ cur'[u] \in store' /\ \A c \in store' : cur'[u] \notin Range(blocks'[c].parents)
  BY <1>1, <1>2, <1>8
<1> QED
  BY <1>1, <1>7, <1>9 DEF TipsInv

\* insert_block: the block becomes a tip, its parents are none any more.
LEMMA PutTipsTips ==
  ASSUME OneThread, IInv, TipsInv, NEW t \in Threads, PutTips(t)
  PROVE  TipsInv'
<1> DEFINE h  == cur[t]
           ps == Range(blocks[h].parents)
           s  == Retain(tips, ps)
<1>1. /\ pc[t] = "put_tips" /\ tips' = TipsAfter(h) /\ pc' = [pc EXCEPT ![t] = "select"]
      /\ UNCHANGED <<blocks, store, cur>>
  BY DEF PutTips, Goto, locals
<1>2. /\ \A u \in Threads : u = t
      /\ pc'[t] = "select"
  BY <1>1 DEF OneThread, IInv, StoreTypeOK
<1>3. Writing(t) /\ ~ Writing(t)'
  BY <1>1, <1>2 DEF Writing
<1>4. Pending = {h} /\ Pending' = {}
  <2>1. {u \in Threads : Writing(u)} = {t} /\ {u \in Threads : Writing(u)'} = {}
    BY <1>2, <1>3
  <2>2. Pending' = {cur'[u] : u \in {v \in Threads : Writing(v)'}}
    BY DEF Pending
  <2> QED
    BY <1>1, <2>1, <2>2 DEF Pending
<1>5. h \in store /\ \A c \in store : h \notin Range(blocks[c].parents)
  BY <1>3 DEF TipsInv
<1>6. tips \in Seq(store)
  BY DEF IInv, StoreTypeOK
<1>7. Announced = store \ {h} /\ Announced' = store
  BY <1>1, <1>4 DEF Announced
<1>8. tips' = Append(s, h)
  BY <1>1 DEF TipsAfter
<1>9. Range(s) = Range(tips) \ ps /\ Once(s) /\ s \in Seq(store)
  BY <1>6, RetainExact, RetainKeeps DEF TipsInv
<1>10. Range(tips) = {g \in store \ {h} : \A c \in store \ {h} : g \notin Range(blocks[c].parents)}
  BY <1>7 DEF TipsInv
<1> HIDE DEF s, h
<1>11. Range(tips') = Range(s) \cup {h}
  BY <1>8, <1>9 DEF Range
<1>12. Once(tips')
  <2>1. h \notin Range(s)
    BY <1>9, <1>10
  <2>2. \A i \in DOMAIN s : s[i] # h
    BY <2>1 DEF Range
  <2> QED
    BY <1>8, <1>9, <2>2 DEF Once
<1>13. Range(tips') = {g \in store : \A c \in store : g \notin Range(blocks[c].parents)}
  BY <1>5, <1>9, <1>10, <1>11
<1>14. \A u \in Threads : pc'[u] # "put_block" /\ ~ Writing(u)'
  BY <1>2, <1>3
<1> QED
  BY <1>1, <1>7, <1>12, <1>13, <1>14 DEF TipsInv

\* Until a crash: one between put_block and the update of the tips leaves a
\* stored block that is neither a tip nor the parent of one.
TipsIInv == crashes \in Nat /\ (crashes = 0 => TipsInv)

\* A step of the thread, the tips being what they should.
LEMMA ThreadTips ==
  ASSUME OneThread, IInv, TipsInv, Grows, NEW t \in Threads,
         \/ Step(t)
         \/ \E h \in Hash : Accept(t, h)
         \/ SyncRound(t)
         \/ Mine(t)
  PROVE  TipsInv' /\ UNCHANGED crashes
<1> DEFINE Outer == /\ UNCHANGED <<store, tips, crashes>>
                    /\ ~Writing(t) /\ pc'[t] \notin {"put_block", "put_header", "put_tips"}
<1>1. Outer => TipsInv' /\ UNCHANGED crashes
  BY TipsMove
<1>2. t \in DOMAIN pc
  BY DEF IInv, StoreTypeOK
<1>3. CASE Park(t) \/ Refuse(t) \/ Select(t) \/ Rebuild(t) \/ Resume(t) \/ Finish(t)
  <2>1. Outer
    BY <1>2, <1>3 DEF Park, Refuse, Select, Rebuild, Resume, Finish, Return, Goto, Writing, db, mem
  <2> QED
    BY <1>1, <2>1
<1>4. CASE DoReorganize(t)
  <2>1. /\ UNCHANGED <<store, tips, crashes>> /\ pc[t] = "reorganize"
        /\ Goto(t, "rebuild") \/ Return(t, FALSE)
    BY <1>4 DEF DoReorganize, AfterReorganize
  <2>2. Outer
    BY <1>2, <2>1 DEF Return, Goto, Writing
  <2> QED
    BY <1>1, <2>2
<1>5. CASE Scan(t) \/ Drain(t) \/ SyncRound(t) \/ \E h \in Hash : Accept(t, h)
  <2>1. Outer
    BY <1>2, <1>5 DEF Scan, Drain, SyncRound, Accept, Goto, Writing, db, mem
  <2> QED
    BY <1>1, <2>1
<1>6. CASE Mine(t)
  <2>1. /\ UNCHANGED <<store, tips, crashes>> /\ pc[t] \in {"idle", "pick", "search"}
        /\ Goto(t, "pick") \/ Goto(t, "search") \/ Goto(t, "connect") \/ Goto(t, "idle")
    BY <1>6 DEF Mine, StartTemplate, FillTemplate, Find, GiveUp, db, mem
  <2>2. Outer
    BY <1>2, <2>1 DEF Goto, Writing
  <2> QED
    BY <1>1, <2>2
<1>7. CASE PutGhostdag(t)
  <2>1. /\ UNCHANGED <<store, tips, crashes>> /\ ~Writing(t) /\ pc'[t] = "put_block"
        /\ cur'[t] \notin store
    BY <1>2, <1>7 DEF PutGhostdag, Goto, Writing, mem
  <2> QED
    BY <2>1, TipsMove
<1>8. CASE PutBlock(t)
  BY <1>8, PutBlockTips DEF PutBlock
<1>9. CASE PutHeader(t)
  <2>1. /\ UNCHANGED <<store, tips, crashes, cur>> /\ pc[t] = "put_header" /\ pc'[t] = "put_tips"
    BY <1>2, <1>9 DEF PutHeader, Goto, mem, locals
  <2>2. \A u \in Threads : u = t
    BY DEF OneThread
  <2>3. \A u \in Threads : /\ Writing(u)' <=> Writing(u)
                           /\ Writing(u) => cur'[u] = cur[u]
                           /\ pc'[u] = "put_block" => cur'[u] \notin store
    BY <2>1, <2>2 DEF Writing
  <2> QED
    BY <2>1, <2>3, TipsStill DEF IInv
<1>10. CASE PutTips(t)
  BY <1>10, PutTipsTips DEF PutTips
<1> QED
  BY <1>3, <1>4, <1>5, <1>6, <1>7, <1>8, <1>9, <1>10 DEF Step

\* Every step keeps the tips, until a crash.
LEMMA NextTips ==
  ASSUME OneThread, IInv, TipsIInv, [Next]_vars
  PROVE  TipsIInv'
<1>1. Grows
  BY NextGrows DEF IInv
<1>2. ASSUME NEW t \in Threads,
             Step(t) \/ (\E h \in Hash : Accept(t, h)) \/ SyncRound(t) \/ Mine(t)
      PROVE  TipsIInv'
  <2>1. UNCHANGED crashes
    BY <1>2 DEF Step, Park, Refuse, PutGhostdag, PutBlock, PutHeader, PutTips, Select,
                DoReorganize, Rebuild, Resume, Finish, Scan, Drain, Accept, SyncRound,
                Mine, StartTemplate, FillTemplate, Find, GiveUp
  <2>2. crashes = 0 => TipsInv'
    BY <1>1, <1>2, ThreadTips DEF TipsIInv
  <2> QED
    BY <2>1, <2>2 DEF TipsIInv
<1>3. ASSUME UNCHANGED <<store, tips, pc, cur, crashes>> PROVE TipsIInv'
  <2>1. \A t \in Threads : Writing(t)' <=> Writing(t)
    BY <1>3 DEF Writing
  <2>2. TipsInv => TipsInv'
    <3>1. ASSUME TipsInv PROVE \A t \in Threads : pc'[t] = "put_block" => cur'[t] \notin store
      BY <1>3, <3>1 DEF TipsInv
    <3> QED
      BY <1>1, <1>3, <2>1, <3>1, TipsStill DEF IInv
  <2> QED
    BY <1>3, <2>2 DEF TipsIInv
<1>4. CASE PeerFinds \/ (\E m \in DOMAIN Transfers : AcceptTx(m) \/ EvictTx(m))
           \/ (\E on \in BOOLEAN : SetMining(on)) \/ UNCHANGED vars
  <2>1. UNCHANGED <<store, tips, pc, cur, crashes>>
    BY <1>4 DEF PeerFinds, AcceptTx, EvictTx, SetMining, vars, db, mem, locals
  <2> QED
    BY <1>3, <2>1
<1>5. CASE Crash
  <2>1. crashes' = crashes + 1
    BY <1>5 DEF Crash
  <2> QED
    BY <2>1 DEF TipsIInv
<1> QED
  BY <1>2, <1>4, <1>5 DEF Next

\* They are exact in the beginning.
LEMMA InitTips == Init => TipsIInv
<1>1. SUFFICES ASSUME Init PROVE TipsIInv
  OBVIOUS
<1>2. /\ blocks = [h \in {Genesis} |-> GenesisBlock] /\ store = {Genesis} /\ tips = <<Genesis>>
      /\ pc = [t \in Threads |-> "idle"] /\ crashes = 0
  BY <1>1 DEF Init
<1>3. Announced = {Genesis} /\ \A t \in Threads : ~Writing(t) /\ pc[t] # "put_block"
  BY <1>2 DEF Announced, Pending, Writing
<1>4. Range(blocks[Genesis].parents) = {}
  BY <1>2 DEF GenesisBlock, Range
<1>5. Range(tips) = {Genesis} /\ Once(tips)
  BY <1>2 DEF Range, Once
<1> QED
  BY <1>2, <1>3, <1>4, <1>5 DEF TipsIInv, TipsInv

\* With one thread and until a crash the tips, in whatever order blocks come
\* and whatever they merge, are exactly the stored blocks without a child, each
\* once, whenever no insert_block is in progress.
THEOREM TipsAreExact ==
  ASSUME OneThread
  PROVE  Spec => [](crashes = 0 => TipsExact)
<1>1. Init => TipsIInv
  BY InitTips
<1>2. IInv /\ TipsIInv /\ [Next]_vars => TipsIInv'
  BY NextTips
<1>3. IInv /\ TipsIInv => (crashes = 0 => TipsExact)
  <2>1. SUFFICES ASSUME IInv, TipsInv, Quiet
                 PROVE  /\ Range(tips) = {h \in store : \A c \in store :
                                            h \notin Range(blocks[c].parents)}
                        /\ Cardinality(Range(tips)) = Len(tips)
    BY DEF TipsIInv, TipsExact
  <2>2. Announced = store
    BY <2>1 DEF Announced, Pending, Writing, Quiet
  <2>3. tips \in Seq(store) /\ Len(tips) \in Nat /\ DOMAIN tips = 1..Len(tips)
    BY <2>1 DEF IInv, StoreTypeOK
  <2> DEFINE D == 1..Len(tips)
             R == Range(tips)
  <2>4. tips \in Bijection(D, R)
    <3>1. tips \in [D -> R] /\ \A x \in R : \E i \in D : tips[i] = x
      BY <2>3 DEF Range
    <3>2. IsInjective(tips)
      BY <2>1 DEF TipsInv, Once, IsInjective
    <3> QED
      BY <3>1, <3>2 DEF Bijection, Injection, Surjection
  <2>5. IsFiniteSet(D) /\ Cardinality(D) = Len(tips)
    BY <2>3, FS_Interval
  <2>6. ExistsBijection(D, R)
    BY <2>4 DEF ExistsBijection
  <2> HIDE DEF D, R
  <2>7. Cardinality(R) = Len(tips)
    BY <2>5, <2>6, FS_Bijection
  <2> QED
    BY <2>1, <2>2, <2>7 DEF TipsInv, R
<1> QED
  BY <1>1, <1>2, <1>3, StoreInvariant, PTL DEF Spec

----------------------------------------------------------------------------
(* The tree of the selected parents                                        *)

\* A list of parents: not empty, all of them in S.
ListOf(ps, S) == ps \in Seq(S) /\ ps # <<>>

\* What the parents of a template are, at the two points where it has some.
TemplateListed(t) ==
  /\ pc[t] = "pick" => ListOf(template[t], store)
  /\ pc[t] = "search" => ListOf(template[t].parents, store)

\* Every block but genesis lists parents, each is scored, and a GhostDAG entry
\* is written only when the parents are stored.
ShapeInv ==
  /\ IsFiniteSet(DOMAIN blocks)
  /\ blocks[Genesis].parents = <<>>
  /\ \A h \in DOMAIN blocks : blocks[h].data.score \in Nat /\ blocks[h].data.work \in Nat
  /\ \A h \in DOMAIN blocks \ {Genesis} : ListOf(blocks[h].parents, DOMAIN blocks)
  /\ \A h \in DOMAIN gd : HasParents(h, store)
  /\ \A t \in Threads : TemplateListed(t)

\* A list has finitely many members.
LEMMA FiniteRange ==
  ASSUME NEW S, NEW s \in Seq(S)
  PROVE  IsFiniteSet(Range(s))
<1>1. Len(s) \in Nat /\ DOMAIN s = 1..Len(s)
  OBVIOUS
<1> DEFINE D == 1..Len(s)
           R == Range(s)
<1>2. IsFiniteSet(D)
  BY <1>1, FS_Interval
<1>3. R = {s[i] : i \in D}
  BY <1>1 DEF Range
<1>4. s \in Surjection(D, R)
  BY <1>1, <1>3 DEF Surjection
<1> HIDE DEF D, R
<1>5. IsFiniteSet(R)
  BY <1>2, <1>4, FS_Surjection
<1> QED
  BY <1>5 DEF R

\* What process_block gives a block of the network.
LEMMA NetData ==
  ASSUME IInv, ShapeInv, NEW h \in DOMAIN blocks \ {Genesis}
  PROVE  LET d == blocks[h].data
         IN  /\ d.selected \in Range(blocks[h].parents)
             /\ d.blues \subseteq Range(blocks[h].parents)
             /\ blocks[d.selected].data.score < d.score
<1> DEFINE ps == blocks[h].parents
           S  == DOMAIN blocks
           N  == NetGd
<1>1. ps \in Seq(S) /\ ps # <<>>
  BY DEF ShapeInv, ListOf
<1>2. blocks[h].data = ProcessBlock(ps, N)
  BY DEF IInv, NetInv
<1>3. Range(ps) \subseteq S
  BY DEF IInv, NetInv, HasParents
<1>4. Range(ps) \subseteq DOMAIN N /\ \A p \in S : N[p] = blocks[p].data
  BY <1>3 DEF NetGd
<1>5. \A p \in Range(ps) : N[p].score \in Nat /\ N[p].work \in Nat
  BY <1>3, <1>4 DEF ShapeInv
<1> HIDE DEF N
<1>6. LET d == ProcessBlock(ps, N)
      IN  /\ d.selected \in Range(ps) /\ d.blues \subseteq Range(ps)
          /\ d.score \in Nat /\ d.work \in Nat /\ N[d.selected].score < d.score
  <2> HIDE DEF ps, S
  <2> QED
    BY <1>1, <1>4, <1>5, ProcessFacts
<1> QED
  BY <1>2, <1>3, <1>4, <1>6

\* The entry of genesis.
LEMMA GenesisEntry ==
  ASSUME IInv, ShapeInv
  PROVE  /\ Genesis \in DOMAIN gd /\ gd[Genesis] = GenesisData
<1>1. Genesis \in store /\ store \subseteq DOMAIN gd /\ DOMAIN gd \subseteq DOMAIN blocks
  BY DEF IInv, NetInv, StoreInv, GdStored, StoreTypeOK
<1>2. blocks[Genesis].data = GenesisData
  BY <1>1 DEF IInv, NetInv, ShapeInv, ProcessBlock
<1> QED
  BY <1>1, <1>2 DEF IInv, StoreInv, GdCanonical

\* What the node knows of a block that has an entry.
LEMMA EntryFacts ==
  ASSUME IInv, ShapeInv, NEW h \in DOMAIN gd
  PROVE  /\ h \in DOMAIN blocks /\ gd[h] = blocks[h].data
         /\ gd[h].score \in Nat /\ gd[h].work \in Nat
         /\ blocks[h].score = gd[h].score /\ blocks[h].work = gd[h].work
         /\ gd[h].blues \subseteq store /\ IsFiniteSet(gd[h].blues)
         /\ h # Genesis => /\ gd[h].selected \in store
                           /\ gd[gd[h].selected].score < gd[h].score
<1>1. /\ h \in DOMAIN blocks /\ gd[h] = blocks[h].data
      /\ gd[h].score \in Nat /\ gd[h].work \in Nat
      /\ blocks[h].score = gd[h].score /\ blocks[h].work = gd[h].work
  BY DEF IInv, ShapeInv, StoreTypeOK, StoreInv, GdCanonical
<1>2. CASE h = Genesis
  <2>1. gd[h].blues = {}
    BY <1>2, GenesisEntry DEF GenesisData
  <2> QED
    BY <1>1, <1>2, <2>1, FS_EmptySet
<1>3. CASE h # Genesis
  <2>1. /\ gd[h].selected \in Range(blocks[h].parents)
        /\ gd[h].blues \subseteq Range(blocks[h].parents)
        /\ blocks[gd[h].selected].data.score < gd[h].score
    BY <1>1, <1>3, NetData
  <2>2. Range(blocks[h].parents) \subseteq store
    BY DEF ShapeInv, HasParents
  <2>3. gd[h].selected \in DOMAIN gd
    BY <2>1, <2>2 DEF IInv, StoreInv, GdStored
  <2>4. gd[gd[h].selected] = blocks[gd[h].selected].data
    BY <2>3 DEF IInv, StoreInv, GdCanonical
  <2>5. blocks[h].parents \in Seq(DOMAIN blocks)
    BY <1>1, <1>3 DEF ShapeInv, ListOf
  <2>6. IsFiniteSet(Range(blocks[h].parents))
    BY <2>5, FiniteRange
  <2>7. IsFiniteSet(gd[h].blues)
    BY <2>1, <2>6, FS_Subset
  <2> QED
    BY <1>1, <2>1, <2>2, <2>4, <2>7
<1> QED
  BY <1>2, <1>3

\* The entries form a tree below genesis: get_selected_chain ends there.
LEMMA EntriesAreTree ==
  ASSUME IInv, ShapeInv
  PROVE  GdTree(gd, Genesis)
<1>1. DOMAIN gd \subseteq DOMAIN blocks /\ DOMAIN gd \subseteq Hash /\ store \subseteq DOMAIN gd
  BY DEF IInv, StoreTypeOK, StoreInv, GdStored
<1>2. IsFiniteSet(DOMAIN gd)
  BY <1>1, FS_Subset DEF ShapeInv
<1>3. Zero \notin DOMAIN gd
  BY <1>1, HashAssumption DEF Zero
<1>4. Genesis \in DOMAIN gd /\ gd[Genesis].selected = Zero
  BY GenesisEntry DEF GenesisData
<1>5. \A h \in DOMAIN gd : /\ gd[h].score \in Nat
                           /\ h # Genesis => /\ gd[h].selected \in DOMAIN gd
                                             /\ gd[gd[h].selected].score < gd[h].score
  BY <1>1, EntryFacts
<1> QED
  BY <1>2, <1>3, <1>4, <1>5 DEF GdTree

\* get_selected_tip returns a stored block.
LEMMA TipIsStored ==
  ASSUME IInv, ShapeInv, NEW ts \in {tips, dbTips}
  PROVE  /\ BestTip(blocks, Range(ts) \cap headers) \in store
         /\ Range(ts) \cap headers = Range(ts) /\ Range(ts) \subseteq store
<1> DEFINE T == Range(ts)
<1>1. ts \in Seq(store) /\ ts # <<>> /\ T \subseteq headers /\ headers \subseteq store
  BY DEF IInv, StoreTypeOK, StoreInv, TipsUsable
<1>2. T \cap headers = T /\ T \subseteq store
  BY <1>1
<1>3. ts[1] \in T
  BY <1>1 DEF Range
<1>4. IsFiniteSet(T)
  BY <1>1, FiniteRange
<1>5. store \subseteq DOMAIN gd /\ store \subseteq Nat
  BY HashAssumption DEF IInv, StoreTypeOK, StoreInv, GdStored
<1>6. \A t \in T : blocks[t].score \in Nat /\ blocks[t].work \in Nat
  BY <1>2, <1>5, EntryFacts
<1> HIDE DEF T
<1>7. BestTip(blocks, T) \in T
  BY <1>2, <1>3, <1>4, <1>5, <1>6, BestTipExists
<1> QED
  BY <1>2, <1>7 DEF T

\* A step that finds no block, writes no entry and makes no template.
LEMMA ShapeRest ==
  ASSUME IInv, ShapeInv, Grows, UNCHANGED <<blocks, gd, template>>,
         \A u \in Threads : pc'[u] \in {"pick", "search"} => pc'[u] = pc[u]
  PROVE  ShapeInv'
<1>1. store \subseteq store'
  BY DEF Grows
<1>2. \A h \in DOMAIN gd' : HasParents(h, store)'
  BY <1>1 DEF ShapeInv, HasParents
<1>3. \A ps : ListOf(ps, store) => ListOf(ps, store')
  BY <1>1 DEF ListOf
<1>4. ASSUME NEW t \in Threads PROVE TemplateListed(t)'
  BY <1>3 DEF ShapeInv, TemplateListed
<1> QED
  BY <1>2, <1>4 DEF ShapeInv

\* A block is found that lists parents the network has.
LEMMA ShapeFound ==
  ASSUME IInv, ShapeInv, NEW h \in Hash \ DOMAIN blocks, NEW b, blocks' = Put(blocks, h, b),
         ListOf(b.parents, DOMAIN blocks), b.data = ProcessBlock(b.parents, NetGd),
         UNCHANGED <<gd, store>>, \A u \in Threads : TemplateListed(u)'
  PROVE  ShapeInv'
<1>1. /\ DOMAIN blocks' = DOMAIN blocks \cup {h} /\ blocks'[h] = b
      /\ \A x \in DOMAIN blocks : blocks'[x] = blocks[x]
  BY DEF Put
<1>2. IsFiniteSet(DOMAIN blocks')
  <2>1. IsFiniteSet(DOMAIN blocks)
    BY DEF ShapeInv
  <2> QED
    BY <1>1, <2>1, FS_AddElement
<1>3. Genesis \in DOMAIN blocks /\ h # Genesis
  BY DEF IInv, NetInv, StoreTypeOK
<1>4. b.data.score \in Nat /\ b.data.work \in Nat
  <2> DEFINE ps == b.parents
             S  == DOMAIN blocks
             N  == NetGd
  <2>1. ps \in Seq(S) /\ ps # <<>>
    BY DEF ListOf
  <2>2. Range(ps) \subseteq S
    BY <2>1 DEF Range
  <2>3. Range(ps) \subseteq DOMAIN N /\ \A p \in S : N[p] = blocks[p].data
    BY <2>2 DEF NetGd
  <2>4. \A p \in Range(ps) : N[p].score \in Nat /\ N[p].work \in Nat
    BY <2>2, <2>3 DEF ShapeInv
  <2>5. b.data = ProcessBlock(ps, N)
    OBVIOUS
  <2> HIDE DEF ps, S, N
  <2>6. ProcessBlock(ps, N).score \in Nat /\ ProcessBlock(ps, N).work \in Nat
    BY <2>1, <2>3, <2>4, ProcessFacts
  <2> QED
    BY <2>5, <2>6
<1>5. \A ps : ListOf(ps, DOMAIN blocks) => ListOf(ps, DOMAIN blocks')
  BY <1>1 DEF ListOf
<1>6. \A x \in DOMAIN blocks' : blocks'[x].data.score \in Nat /\ blocks'[x].data.work \in Nat
  BY <1>1, <1>4 DEF ShapeInv
<1>7. \A x \in DOMAIN blocks' \ {Genesis} : ListOf(blocks'[x].parents, DOMAIN blocks')
  BY <1>1, <1>5 DEF ShapeInv
<1>8. DOMAIN gd \subseteq DOMAIN blocks
  BY DEF IInv, StoreTypeOK
<1>9. \A x \in DOMAIN gd' : HasParents(x, store)'
  BY <1>1, <1>8 DEF ShapeInv, HasParents
<1> QED
  BY <1>1, <1>2, <1>3, <1>6, <1>7, <1>9 DEF ShapeInv

\* A peer finds a block on a list of blocks of the network.
LEMMA PeerFindsShape ==
  ASSUME IInv, ShapeInv, PeerFinds
  PROVE  ShapeInv'
<1>1. PICK h \in Hash \ DOMAIN blocks, ps \in TipLists, body \in PeerBodies,
           fees \in PeerFees, err \in ScoreErrors :
        LET d == ProcessBlock(ps, NetGd) IN
          blocks' = Put(blocks, h, NewBlock(ps, PayeeOf[h], fees, body, d.score + err, d.work,
                                            ExpectedBits(ps, DOMAIN blocks)))
  BY Zenon DEF PeerFinds
<1>2. UNCHANGED <<gd, store, pc, template>>
  BY Zenon DEF PeerFinds, db, locals
<1> DEFINE d == ProcessBlock(ps, NetGd)
           b == NewBlock(ps, PayeeOf[h], fees, body, d.score + err, d.work,
                         ExpectedBits(ps, DOMAIN blocks))
<1>3. b.parents = ps /\ b.data = ProcessBlock(ps, NetGd)
  BY NewBlockFields
<1>4. blocks' = Put(blocks, h, b)
  BY <1>1
<1> HIDE DEF b
<1>5. ListOf(ps, DOMAIN blocks)
  <2>1. PICK n \in 1..MAX_BLOCK_PARENTS : ps \in [1..n -> DOMAIN blocks]
    BY DEF TipLists
  <2>2. n \in Nat /\ n >= 1
    BY <2>1
  <2>3. ps \in Seq(DOMAIN blocks) /\ DOMAIN ps = 1..n
    BY <2>1, <2>2
  <2>4. ps # <<>>
    BY <2>2, <2>3
  <2> QED
    BY <2>3, <2>4 DEF ListOf
<1>6. \A u \in Threads : TemplateListed(u)'
  BY <1>2 DEF ShapeInv, TemplateListed
<1>7. ListOf(b.parents, DOMAIN blocks) /\ b.data = ProcessBlock(b.parents, NetGd)
  BY <1>3, <1>5
<1> QED
  BY <1>2, <1>4, <1>6, <1>7, ShapeFound

\* The miner finds one on a list of stored blocks.
LEMMA MineShape ==
  ASSUME IInv, ShapeInv, NEW t \in Threads, Mine(t)
  PROVE  ShapeInv'
<1>1. t \in DOMAIN pc /\ DOMAIN template = Threads /\ pc \in [Threads -> Labels]
  BY DEF IInv, StoreTypeOK
<1>2. ASSUME UNCHANGED <<blocks, gd, store>>, \A u \in Threads : TemplateListed(u)'
      PROVE  ShapeInv'
  BY <1>2 DEF ShapeInv, HasParents
<1>3. CASE StartTemplate(t)
  <2>1. /\ template' = [template EXCEPT ![t] = tips] /\ pc' = [pc EXCEPT ![t] = "pick"]
        /\ UNCHANGED <<blocks, gd, store>>
    BY <1>3 DEF StartTemplate, Goto, db
  <2>2. ListOf(tips, store)
    BY DEF IInv, StoreTypeOK, StoreInv, TipsUsable, ListOf
  <2>3. ASSUME NEW u \in Threads PROVE TemplateListed(u)'
    BY <1>1, <2>1, <2>2 DEF ShapeInv, TemplateListed
  <2> QED
    BY <1>2, <2>1, <2>3
<1>4. CASE FillTemplate(t)
  <2> DEFINE d    == Stamp(template[t])
             pick == Pick(d.score)
             b    == NewBlock(template[t], Miner, Fees(pick.body), pick.body, d.score, d.work,
                              BitsOf[diffTip])
  <2>1. template' = [template EXCEPT ![t] = b]
    BY <1>4, Zenon DEF FillTemplate
  <2>2. b.parents = template[t]
    BY NewBlockFields
  <2> HIDE DEF b
  <2>3. pc[t] = "pick" /\ pc' = [pc EXCEPT ![t] = "search"] /\ UNCHANGED <<blocks, gd, store>>
    BY <1>4, Zenon DEF FillTemplate, Goto, db
  <2>4. ListOf(template[t], store)
    BY <2>3 DEF ShapeInv, TemplateListed
  <2>5. ASSUME NEW u \in Threads PROVE TemplateListed(u)'
    BY <1>1, <2>1, <2>2, <2>3, <2>4 DEF ShapeInv, TemplateListed
  <2> QED
    BY <1>2, <2>3, <2>5
<1>5. CASE Find(t)
  <2>1. PICK h \in Hash \ DOMAIN blocks : blocks' = Put(blocks, h, template[t])
    BY <1>5, Zenon DEF Find
  <2>2. /\ pc[t] = "search" /\ pc' = [pc EXCEPT ![t] = "connect"]
        /\ template' = [template EXCEPT ![t] = <<>>] /\ UNCHANGED <<gd, store>>
    BY <1>5, Zenon DEF Find, Goto, db
  <2>3. ListOf(template[t].parents, store) /\ store \subseteq DOMAIN blocks
    BY <2>2 DEF ShapeInv, TemplateListed, IInv, StoreTypeOK
  <2>4. ListOf(template[t].parents, DOMAIN blocks)
    BY <2>3 DEF ListOf
  <2>5. template[t].data = ProcessBlock(template[t].parents, NetGd)
    BY <2>2 DEF IInv, ThreadInv
  <2>6. ASSUME NEW u \in Threads PROVE TemplateListed(u)'
    BY <1>1, <2>2 DEF ShapeInv, TemplateListed
  <2> QED
    BY <2>1, <2>2, <2>4, <2>5, <2>6, ShapeFound
<1>6. CASE GiveUp(t)
  <2>1. /\ template' = [template EXCEPT ![t] = <<>>] /\ pc' = [pc EXCEPT ![t] = "idle"]
        /\ UNCHANGED <<blocks, gd, store>>
    BY <1>6 DEF GiveUp, Goto, db
  <2>2. ASSUME NEW u \in Threads PROVE TemplateListed(u)'
    BY <1>1, <2>1 DEF ShapeInv, TemplateListed
  <2> QED
    BY <1>2, <2>1, <2>2
<1> QED
  BY <1>3, <1>4, <1>5, <1>6 DEF Mine

\* Every step of a thread keeps the shape.
LEMMA StepShape ==
  ASSUME IInv, ShapeInv, Grows, NEW t \in Threads, Step(t)
  PROVE  ShapeInv'
<1>1. t \in DOMAIN pc /\ pc \in [Threads -> Labels]
  BY DEF IInv, StoreTypeOK
<1>2. ASSUME NEW l, Goto(t, l), l \notin {"pick", "search"}
      PROVE  \A u \in Threads : pc'[u] \in {"pick", "search"} => pc'[u] = pc[u]
  BY <1>1, <1>2 DEF Goto
<1>3. CASE PutGhostdag(t)
  <2>1. /\ pc[t] = "connect" /\ Goto(t, "put_block") /\ DOMAIN gd' = DOMAIN gd \cup {cur[t]}
        /\ UNCHANGED <<blocks, store, template>>
    BY <1>3 DEF PutGhostdag, Put
  <2>2. HasParents(cur[t], store)
    BY <2>1 DEF IInv, ThreadInv
  <2>3. \A h \in DOMAIN gd' : HasParents(h, store)'
    BY <2>1, <2>2 DEF ShapeInv, HasParents
  <2>4. \A u \in Threads : pc'[u] \in {"pick", "search"} => pc'[u] = pc[u]
    BY <1>2, <2>1
  <2>5. ASSUME NEW u \in Threads PROVE TemplateListed(u)'
    BY <2>1, <2>4 DEF ShapeInv, TemplateListed
  <2> QED
    BY <2>1, <2>3, <2>5 DEF ShapeInv
<1>4. CASE ~PutGhostdag(t)
  <2>1. UNCHANGED <<blocks, gd, template>>
    BY <1>4, Zenon DEF Step, Park, Refuse, PutBlock, PutHeader, PutTips, Select, DoReorganize,
       AfterReorganize, Rebuild, Resume, Finish, Scan, Drain, Return, db, locals
  <2>2. \E l : Goto(t, l) /\ l \notin {"pick", "search"}
    <3>1. CASE Park(t) \/ PutBlock(t) \/ PutHeader(t) \/ PutTips(t) \/ Resume(t)
      BY <3>1 DEF Park, PutBlock, PutHeader, PutTips, Resume
    <3>2. CASE Select(t) \/ Rebuild(t) \/ Scan(t) \/ Drain(t)
      BY <3>2 DEF Select, Rebuild, Scan, Drain
    <3>3. ASSUME NEW ok, Return(t, ok) PROVE \E l : Goto(t, l) /\ l \notin {"pick", "search"}
      BY <3>3 DEF Return
    <3>4. CASE Refuse(t) \/ Finish(t)
      BY <3>4, <3>3 DEF Refuse, Finish
    <3>5. CASE DoReorganize(t)
      <4>1. Goto(t, "rebuild") \/ Return(t, FALSE)
        BY <3>5 DEF DoReorganize, AfterReorganize
      <4>2. "rebuild" \notin {"pick", "search"}
        OBVIOUS
      <4>3. CASE Goto(t, "rebuild")
        BY <4>2, <4>3, Zenon
      <4> QED
        BY <4>1, <4>3, <3>3
    <3> QED
      BY <1>4, <3>1, <3>2, <3>4, <3>5 DEF Step
  <2>3. \A u \in Threads : pc'[u] \in {"pick", "search"} => pc'[u] = pc[u]
    BY <1>2, <2>2
  <2> QED
    BY <2>1, <2>3, ShapeRest
<1> QED
  BY <1>3, <1>4

\* Every step keeps the shape of the network and of the entries.
LEMMA NextShape ==
  ASSUME IInv, ShapeInv, [Next]_vars
  PROVE  ShapeInv'
<1>1. Grows
  BY NextGrows
<1>2. CASE PeerFinds
  BY <1>2, PeerFindsShape
<1>3. ASSUME NEW t \in Threads, Step(t) PROVE ShapeInv'
  BY <1>1, <1>3, StepShape
<1>4. ASSUME NEW t \in Threads, Mine(t) PROVE ShapeInv'
  BY <1>4, MineShape
<1>5. ASSUME NEW t \in Threads, SyncRound(t) \/ \E h \in Hash : Accept(t, h) PROVE ShapeInv'
  <2>1. UNCHANGED <<blocks, gd, template>>
    BY <1>5, Zenon DEF SyncRound, Accept, db, locals
  <2>2. pc \in [Threads -> Labels]
    BY DEF IInv, StoreTypeOK
  <2>3. \A u \in Threads : pc'[u] \in {"pick", "search"} => pc'[u] = pc[u]
    BY <1>5, <2>2 DEF SyncRound, Accept, Goto
  <2> QED
    BY <1>1, <2>1, <2>3, ShapeRest
<1>6. CASE \/ \E m \in DOMAIN Transfers : AcceptTx(m) \/ EvictTx(m)
           \/ \E on \in BOOLEAN : SetMining(on)
           \/ UNCHANGED vars
  <2>1. UNCHANGED <<blocks, gd, template, pc>>
    BY <1>6, Zenon DEF AcceptTx, EvictTx, SetMining, vars, db, locals
  <2> QED
    BY <1>1, <2>1, ShapeRest
<1>7. CASE Crash
  <2>1. UNCHANGED <<blocks, gd, store>> /\ pc' = [t \in Threads |-> "idle"]
    BY <1>7, Zenon DEF Crash, db
  <2>2. ASSUME NEW u \in Threads PROVE TemplateListed(u)'
    BY <2>1 DEF TemplateListed
  <2> QED
    BY <2>1, <2>2 DEF ShapeInv, HasParents
<1> QED
  BY <1>2, <1>3, <1>4, <1>5, <1>6, <1>7 DEF Next

\* The genesis block alone has it.
LEMMA InitShape == Init => ShapeInv
<1> SUFFICES ASSUME Init PROVE ShapeInv
  OBVIOUS
<1>1. /\ DOMAIN blocks = {Genesis} /\ blocks[Genesis] = GenesisBlock /\ DOMAIN gd = {Genesis}
      /\ pc = [t \in Threads |-> "idle"]
  <2>1. /\ blocks = [h \in {Genesis} |-> GenesisBlock] /\ gd = [h \in {Genesis} |-> GenesisData]
        /\ pc = [t \in Threads |-> "idle"]
    BY Zenon DEF Init
  <2> QED
    BY <2>1
<1>2. GenesisBlock.parents = <<>> /\ GenesisBlock.data.score = 0 /\ GenesisBlock.data.work = 0
  BY DEF GenesisBlock, GenesisData
<1>3. IsFiniteSet({Genesis})
  BY FS_Singleton
<1>4. Range(<<>>) = {}
  BY DEF Range
<1>5. HasParents(Genesis, store)
  BY <1>1, <1>2, <1>4 DEF HasParents
<1>6. ASSUME NEW u \in Threads PROVE TemplateListed(u)
  BY <1>1 DEF TemplateListed
<1> QED
  BY <1>1, <1>2, <1>3, <1>5, <1>6 DEF ShapeInv

----------------------------------------------------------------------------
(* What has been written stays applied                                     *)

\* The ledger of the chain that ends in block h.
LedgerAt(h) == Replay(h, blocks, gd, store)

\* What is read when a block is applied does not change.
LEMMA InputsStay ==
  ASSUME IInv, ShapeInv, IInv', ShapeInv', Grows, NEW x \in DOMAIN gd
  PROVE  /\ x \in DOMAIN gd' /\ gd'[x] = gd[x]
         /\ SameInputs(x, blocks, gd, store, blocks', gd', store')
<1>1. x \in DOMAIN gd' /\ x \in DOMAIN blocks /\ blocks'[x] = blocks[x] /\ store \subseteq store'
  BY DEF Grows, IInv, StoreTypeOK
<1>2. gd'[x] = blocks'[x].data /\ gd[x] = blocks[x].data
  BY <1>1 DEF IInv, StoreInv, GdCanonical
<1>3. gd[x].blues \subseteq store /\ store \subseteq DOMAIN blocks
  BY EntryFacts DEF IInv, StoreTypeOK
<1>4. MergesOf(x, gd, store) = gd[x].blues /\ MergesOf(x, gd', store') = gd[x].blues
  BY <1>1, <1>2, <1>3 DEF MergesOf, DataOf
<1>5. \A m \in gd[x].blues : blocks'[m] = blocks[m]
  BY <1>3 DEF Grows
<1> QED
  BY <1>1, <1>2, <1>4, <1>5 DEF SameInputs, DataOf

\* The chain of a block and its ledger do not change.
LEMMA LedgerStays ==
  ASSUME IInv, ShapeInv, IInv', ShapeInv', Grows, NEW h \in DOMAIN gd
  PROVE  /\ LedgerAt(h)' = LedgerAt(h)
         /\ SelectedChain(gd', h) = SelectedChain(gd, h)
<1>1. GdTree(gd, Genesis) /\ GdTree(gd', Genesis)
  <2>1. GdTree(gd, Genesis)
    BY EntriesAreTree
  <2>2. (IInv /\ ShapeInv => GdTree(gd, Genesis))'
    BY EntriesAreTree, PTL
  <2> QED
    BY <2>1, <2>2
<1>2. \A x \in DOMAIN gd : /\ x \in DOMAIN gd' /\ gd'[x] = gd[x]
                           /\ SameInputs(x, blocks, gd, store, blocks', gd', store')
  BY InputsStay
<1>3. DOMAIN gd \subseteq DOMAIN gd'
  BY <1>2
<1>4. Replay(h, blocks', gd', store') = Replay(h, blocks, gd, store)
  BY <1>1, <1>2, <1>3, ReplayStable
<1>5. SelectedChain(gd', h) = SelectedChain(gd, h)
  BY <1>1, <1>2, <1>3, ChainStable
<1> QED
  BY <1>4, <1>5 DEF LedgerAt

\* The undo data of a block stays its undo data.
LEMMA UndoStays ==
  ASSUME IInv, ShapeInv, IInv', ShapeInv', Grows, NEW u, NEW x,
         UndoOf(u, x, blocks, gd, Genesis, store)
  PROVE  UndoOf(u, x, blocks', gd', Genesis, store')
<1> DEFINE l == LedgerAt(gd[x].selected)
<1>1. x \in store \ {Genesis} /\ x \in DOMAIN gd /\ x \in store' /\ x \in DOMAIN blocks
  BY DEF UndoOf, IInv, StoreInv, GdStored, StoreTypeOK, Grows
<1>2. gd'[x] = gd[x] /\ SameInputs(x, blocks, gd, store, blocks', gd', store')
  BY <1>1, InputsStay
<1>3. gd[x].selected \in DOMAIN gd
  BY <1>1, EntryFacts DEF IInv, StoreInv, GdStored
<1>4. Replay(gd'[x].selected, blocks', gd', store') = l
  BY <1>2, <1>3, LedgerStays DEF LedgerAt
<1>5. blocks'[x] = blocks[x]
  BY <1>1 DEF Grows
<1>6. /\ ValidateTransactions(l, blocks[x])
      /\ u[x] = ApplyBlockWithMerges(l, x, blocks, gd, store).undo
  BY Zenon DEF UndoOf, LedgerAt
<1> HIDE DEF l
<1>7. ApplyBlockWithMerges(l, x, blocks', gd', store') = ApplyBlockWithMerges(l, x, blocks, gd, store)
  BY <1>2, SameApplied
<1> QED
  BY <1>1, <1>4, <1>5, <1>6, <1>7, Zenon DEF UndoOf

\* A block that its chain refuses goes on being refused.
LEMMA RefusedStays ==
  ASSUME IInv, ShapeInv, IInv', ShapeInv', Grows, NEW x \in store \ {Genesis}, Refused(x)
  PROVE  x \in store' \ {Genesis} /\ Refused(x)'
<1>1. x \in DOMAIN gd /\ x \in store' /\ x \in DOMAIN blocks
  BY DEF IInv, StoreInv, GdStored, StoreTypeOK, Grows
<1>2. gd'[x] = gd[x] /\ blocks'[x] = blocks[x]
  BY <1>1, InputsStay DEF Grows
<1>3. gd[x].selected \in DOMAIN gd
  BY <1>1, EntryFacts DEF IInv, StoreInv, GdStored
<1>4. LedgerAt(gd[x].selected)' = LedgerAt(gd[x].selected)
  <2> DEFINE p == gd[x].selected
  <2>1. Replay(p, blocks', gd', store') = Replay(p, blocks, gd, store)
    BY <1>3, LedgerStays DEF LedgerAt
  <2> QED
    BY <1>2, <2>1 DEF LedgerAt
<1> QED
  BY <1>1, <1>2, <1>4 DEF Refused, LedgerAt

\* The selected tip does not change while the tips do not.
LEMMA TipStays ==
  ASSUME IInv, ShapeInv, IInv', ShapeInv', Grows, tips' = tips
  PROVE  SelectedTip' = SelectedTip
<1> DEFINE T == Range(tips)
<1>1. T \cap headers = T /\ T \subseteq store
  BY TipIsStored
<1>2. T \subseteq headers'
  BY DEF IInv, StoreInv, TipsUsable
<1>3. \A t \in T : blocks'[t] = blocks[t]
  BY <1>1 DEF IInv, StoreTypeOK, Grows
<1> HIDE DEF T
<1>4. BestTip(blocks', T) = BestTip(blocks, T)
  BY <1>3, SameBestTip
<1>5. T \cap headers' = T
  BY <1>2
<1> QED
  BY <1>1, <1>4, <1>5 DEF SelectedTip, T

----------------------------------------------------------------------------
(* The ledger follows the selected tip                                     *)

\* The points of connect_block at which the selected tip it started from is
\* still the one the ledger is at.
Inserting == {"put_block", "put_header", "put_tips", "select", "reorganize"}

\* The ledger is at block h and, until a crash, every block on the way there
\* has its undo data.
Applied(h) ==
  /\ h \in store /\ led = LedgerAt(h)
  /\ crashes = 0 => \A x \in Range(SelectedChain(gd, h)) \ {Genesis} : x \in DOMAIN undos

\* The undo column family holds the undo data of the blocks it has.
UndosExact == \A x \in DOMAIN undos : UndoOf(undos, x, blocks, gd, Genesis, store)

\* Until a reorganize has failed, the ledger is at the selected tip, or at the
\* one that the connect_block in progress has read.
LedgerInv ==
  /\ UndosExact
  /\ \A t \in Threads :
       /\ pc[t] \in Inserting => Applied(old[t])
       /\ pc[t] = "reorganize" => new[t] = SelectedTip /\ new[t] # old[t]
  /\ (\A t \in Threads : pc[t] \notin Inserting) => Applied(SelectedTip)

\* If a reorganize has failed, some stored block is refused by its own chain.
BlameInv == crashes = 0 /\ failed => \E h \in store \ {Genesis} : Refused(h)

\* Every thread has its two tips.
TipPairs == DOMAIN old = Threads /\ DOMAIN new = Threads

LedgerIInv ==
  /\ crashes \in Nat /\ failed \in BOOLEAN /\ TipPairs
  /\ ~failed => LedgerInv
  /\ BlameInv

\* The blocks that have an entry carry transactions of the types of the code.
BlocksTyped == \A h \in DOMAIN gd : blocks[h].txs \in Seq(TxType)

\* And a stored block whose transactions its chain accepts can be connected
\* there: its outputs are new, and it spends no reward of a block it merges.
BlocksGood ==
  /\ BlocksTyped
  /\ \A h \in store \ {Genesis} :
       ValidateTransactions(LedgerAt(gd[h].selected), blocks[h])
         => Connectable(LedgerAt(gd[h].selected), h, blocks, gd, store)

\* The blocks form a tree of typed blocks.
LEMMA NodeTree ==
  ASSUME IInv, ShapeInv, BlocksTyped
  PROVE  /\ GdTree(gd, Genesis) /\ Typed(blocks, gd, store) /\ store \subseteq DOMAIN gd
         /\ \A h \in DOMAIN gd \ {Genesis} : gd[h].selected \in store
<1>1. GdTree(gd, Genesis) /\ store \subseteq DOMAIN gd
  BY EntriesAreTree DEF IInv, StoreInv, GdStored
<1>2. ASSUME NEW h \in DOMAIN gd PROVE IsBlock(blocks[h])
  BY EntryFacts DEF BlocksTyped, IsBlock
<1>3. ASSUME NEW h \in DOMAIN gd
      PROVE  /\ IsFiniteSet(MergesOf(h, gd, store))
             /\ \A m \in MergesOf(h, gd, store) : IsBlock(blocks[m])
  <2>1. gd[h].blues \subseteq store /\ IsFiniteSet(gd[h].blues)
    BY EntryFacts
  <2>2. MergesOf(h, gd, store) = gd[h].blues
    BY <2>1 DEF MergesOf, DataOf
  <2> QED
    BY <1>1, <1>2, <2>1, <2>2
<1>4. Typed(blocks, gd, store)
  BY <1>2, <1>3 DEF Typed
<1>5. \A h \in DOMAIN gd \ {Genesis} : gd[h].selected \in store
  BY EntryFacts
<1> QED
  BY <1>1, <1>4, <1>5

\* Then reorganize has what it works on.
LEMMA NodeWorld ==
  ASSUME IInv, ShapeInv, BlocksGood
  PROVE  World(blocks, gd, Genesis, store)
<1>1. /\ GdTree(gd, Genesis) /\ Typed(blocks, gd, store) /\ store \subseteq DOMAIN gd
      /\ \A h \in DOMAIN gd \ {Genesis} : gd[h].selected \in store
  BY NodeTree DEF BlocksGood
<1>2. \A h \in store \ {Genesis} :
        LET l == Replay(gd[h].selected, blocks, gd, store)
        IN  ValidateTransactions(l, blocks[h]) => Connectable(l, h, blocks, gd, store)
  BY Zenon DEF BlocksGood, LedgerAt
<1> QED
  BY <1>1, <1>2 DEF World

\* A ledger that is not touched stays where it is.
LEMMA AppliedStays ==
  ASSUME IInv, ShapeInv, IInv', ShapeInv', Grows, UNCHANGED <<led, undos, crashes>>,
         NEW h, Applied(h)
  PROVE  /\ h \in store' /\ led' = Replay(h, blocks', gd', store')
         /\ crashes' = 0 => \A x \in Range(SelectedChain(gd', h)) \ {Genesis} : x \in DOMAIN undos'
<1>1. h \in store /\ h \in DOMAIN gd /\ h \in store'
  BY DEF Applied, IInv, StoreInv, GdStored, Grows
<1>2. Replay(h, blocks', gd', store') = LedgerAt(h) /\ SelectedChain(gd', h) = SelectedChain(gd, h)
  BY <1>1, LedgerStays DEF LedgerAt
<1> QED
  BY <1>1, <1>2 DEF Applied

\* The undo data stays exact.
LEMMA UndosStay ==
  ASSUME IInv, ShapeInv, IInv', ShapeInv', Grows, undos' = undos, UndosExact
  PROVE  UndosExact'
BY UndoStays DEF UndosExact

\* A failure goes on having its reason.
LEMMA BlameStays ==
  ASSUME IInv, ShapeInv, IInv', ShapeInv', Grows, UNCHANGED <<failed, crashes>>, BlameInv
  PROVE  BlameInv'
<1> SUFFICES ASSUME crashes = 0, failed
             PROVE  \E h \in store' \ {Genesis} : Refused(h)'
  BY DEF BlameInv
<1>1. PICK h \in store \ {Genesis} : Refused(h)
  BY DEF BlameInv
<1>2. h \in store' \ {Genesis} /\ Refused(h)'
  BY <1>1, RefusedStays
<1> QED
  BY <1>2

\* A step that leaves the ledger, and the tips if they are compared with it.
LEMMA LedgerRest ==
  ASSUME IInv, ShapeInv, IInv', ShapeInv', Grows, LedgerInv, UNCHANGED <<led, undos, crashes>>,
         \A t \in Threads :
           /\ pc'[t] \in Inserting <=> pc[t] \in Inserting
           /\ pc'[t] \in Inserting => old'[t] = old[t]
           /\ pc'[t] = "reorganize" => pc[t] = "reorganize" /\ new'[t] = new[t],
         \/ tips' = tips
         \/ /\ \A t \in Threads : pc'[t] # "reorganize"
            /\ \E t \in Threads : pc'[t] \in Inserting
  PROVE  LedgerInv'
<1>1. UndosExact'
  BY UndosStay DEF LedgerInv
<1>2. ASSUME NEW h, Applied(h), NEW k, k = h
      PROVE  /\ k \in store' /\ led' = Replay(k, blocks', gd', store')
             /\ crashes' = 0 => \A x \in Range(SelectedChain(gd', k)) \ {Genesis} : x \in DOMAIN undos'
  BY <1>2, AppliedStays
<1>3. ASSUME NEW t \in Threads, pc'[t] \in Inserting PROVE Applied(old[t])'
  <2>1. Applied(old[t]) /\ old'[t] = old[t]
    BY <1>3 DEF LedgerInv
  <2> QED
    BY <2>1, <1>2 DEF Applied, LedgerAt
<1>4. ASSUME NEW t \in Threads, pc'[t] = "reorganize"
      PROVE  new'[t] = SelectedTip' /\ new'[t] # old'[t]
  <2>1. tips' = tips /\ pc[t] = "reorganize" /\ new'[t] = new[t] /\ old'[t] = old[t]
    BY <1>4 DEF Inserting
  <2>2. SelectedTip' = SelectedTip
    BY <2>1, TipStays
  <2> QED
    BY <2>1, <2>2 DEF LedgerInv
<1>5. ASSUME \A t \in Threads : pc'[t] \notin Inserting PROVE Applied(SelectedTip)'
  <2>1. Applied(SelectedTip) /\ SelectedTip' = SelectedTip
    BY <1>5, TipStays DEF LedgerInv
  <2> QED
    BY <2>1, <1>2 DEF Applied, LedgerAt
<1> QED
  BY <1>1, <1>3, <1>4, <1>5 DEF LedgerInv

\* What the invariant of the tips gives before and after a step.
LEMMA NextPairs ==
  ASSUME TipPairs, [Next]_vars
  PROVE  TipPairs'
<1>1. ASSUME NEW t \in Threads, NEW ok, Return(t, ok) PROVE TipPairs'
  BY <1>1 DEF Return, TipPairs
<1>2. UNCHANGED <<old, new>> => TipPairs'
  BY DEF TipPairs
<1>3. ASSUME NEW t \in Threads, Step(t) PROVE TipPairs'
  <2>1. CASE Refuse(t) \/ Finish(t)
    BY <2>1, <1>1 DEF Refuse, Finish
  <2>2. CASE DoReorganize(t)
    <3>1. UNCHANGED <<old, new>> \/ Return(t, FALSE)
      BY <2>2, Zenon DEF DoReorganize, AfterReorganize, locals
    <3> QED
      BY <3>1, <1>1, <1>2
  <2>3. CASE PutGhostdag(t) \/ Select(t)
    BY <2>3 DEF PutGhostdag, Select, TipPairs
  <2>4. CASE Park(t) \/ PutBlock(t) \/ PutHeader(t) \/ PutTips(t) \/ Rebuild(t) \/ Resume(t)
             \/ Scan(t) \/ Drain(t)
    <3>1. UNCHANGED <<old, new>>
      BY <2>4, Zenon DEF Park, PutBlock, PutHeader, PutTips, Rebuild, Resume, Scan, Drain, locals
    <3> QED
      BY <3>1, <1>2
  <2> QED
    BY <1>3, <2>1, <2>2, <2>3, <2>4 DEF Step
<1>4. CASE Crash
  BY <1>4 DEF Crash, TipPairs
<1>5. ASSUME NEW t \in Threads, Mine(t) \/ SyncRound(t) \/ \E h \in Hash : Accept(t, h)
      PROVE  UNCHANGED <<old, new>>
  BY <1>5, Zenon DEF Mine, StartTemplate, FillTemplate, Find, GiveUp, SyncRound, Accept, locals
<1>6. CASE \/ PeerFinds
           \/ \E m \in DOMAIN Transfers : AcceptTx(m) \/ EvictTx(m)
           \/ \E on \in BOOLEAN : SetMining(on)
           \/ UNCHANGED vars
  <2>1. UNCHANGED <<old, new>>
    BY <1>6, Zenon DEF PeerFinds, AcceptTx, EvictTx, SetMining, vars, locals
  <2> QED
    BY <2>1, <1>2
<1> QED
  BY <1>2, <1>3, <1>4, <1>5, <1>6 DEF Next

\* A state in which some connect_block has not moved the ledger.
LEMMA LedgerInside ==
  ASSUME OneThread, UndosExact, NEW t \in Threads, pc[t] \in Inserting, Applied(old[t]),
         pc[t] = "reorganize" => new[t] = SelectedTip /\ new[t] # old[t]
  PROVE  LedgerInv
<1>1. \A u \in Threads : u = t
  BY DEF OneThread
<1> QED
  BY <1>1 DEF LedgerInv

\* A state in which no connect_block is about to move the ledger.
AllOutside == \A t \in Threads : pc[t] \notin Inserting

\* Between two blocks the ledger is that of the tip that counts.
LEMMA LedgerOutside == UndosExact /\ AllOutside /\ Applied(SelectedTip) => LedgerInv
BY DEF LedgerInv, AllOutside, Inserting

\* connect_block reads the selected tip and starts.
LEMMA PutGhostdagLedger ==
  ASSUME OneThread, IInv, ShapeInv, IInv', ShapeInv', Grows, TipPairs, LedgerInv,
         NEW t \in Threads, PutGhostdag(t)
  PROVE  LedgerInv'
<1>1. /\ pc[t] = "connect" /\ pc'[t] = "put_block" /\ old'[t] = SelectedTip
      /\ UNCHANGED <<tips, led, undos, crashes>>
  BY DEF PutGhostdag, Goto, IInv, StoreTypeOK, mem, TipPairs
<1>2. \A u \in Threads : u = t
  BY DEF OneThread
<1>3. Applied(SelectedTip)
  BY <1>1, <1>2 DEF LedgerInv, Inserting
<1>4. Applied(old[t])'
  <2> DEFINE h == SelectedTip
  <2>1. Applied(h)
    BY <1>3
  <2> HIDE DEF h
  <2>2. /\ h \in store' /\ led' = Replay(h, blocks', gd', store')
        /\ crashes' = 0 => \A x \in Range(SelectedChain(gd', h)) \ {Genesis} : x \in DOMAIN undos'
    BY <1>1, <2>1, AppliedStays
  <2>3. old'[t] = h
    BY <1>1 DEF h
  <2> QED
    BY <2>2, <2>3 DEF Applied, LedgerAt
<1>5. UndosExact'
  BY <1>1, UndosStay DEF LedgerInv
<1>6. (OneThread /\ UndosExact /\ t \in Threads /\ pc[t] \in Inserting /\ Applied(old[t])
       /\ (pc[t] = "reorganize" => new[t] = SelectedTip /\ new[t] # old[t]) => LedgerInv)'
  BY LedgerInside, PTL
<1> QED
  BY <1>1, <1>4, <1>5, <1>6 DEF Inserting, OneThread

\* connect_block compares the tips before and after the insertion.
LEMMA SelectLedger ==
  ASSUME OneThread, IInv, ShapeInv, IInv', ShapeInv', Grows, TipPairs, LedgerInv,
         NEW t \in Threads, Select(t)
  PROVE  LedgerInv'
<1>1. /\ pc[t] = "select" /\ pc' = [pc EXCEPT ![t] = IF SelectedTip = old[t] THEN "finish" ELSE "reorganize"]
      /\ new' = [new EXCEPT ![t] = SelectedTip] /\ old' = old
      /\ UNCHANGED <<tips, led, undos, crashes>>
  BY DEF Select, Goto, db, mem
<1>2. /\ \A u \in Threads : u = t
      /\ new'[t] = SelectedTip
      /\ pc'[t] = IF SelectedTip = old[t] THEN "finish" ELSE "reorganize"
  BY <1>1 DEF OneThread, TipPairs, IInv, StoreTypeOK
<1>3. SelectedTip' = SelectedTip
  BY <1>1, TipStays
<1>4. Applied(old[t])
  BY <1>1 DEF LedgerInv, Inserting
<1>5. UndosExact'
  BY <1>1, UndosStay DEF LedgerInv
<1>6. ASSUME NEW k, k = old[t]
      PROVE  /\ k \in store' /\ led' = Replay(k, blocks', gd', store')
             /\ crashes' = 0 => \A x \in Range(SelectedChain(gd', k)) \ {Genesis} : x \in DOMAIN undos'
  BY <1>1, <1>4, <1>6, AppliedStays
<1>7. Applied(old[t])'
  BY <1>1, <1>6 DEF Applied, LedgerAt
<1>8. CASE SelectedTip = old[t]
  <2>1. Applied(SelectedTip)'
    BY <1>3, <1>6, <1>8 DEF Applied, LedgerAt
  <2>2. AllOutside'
    BY <1>2, <1>8 DEF Inserting, AllOutside
  <2>3. (UndosExact /\ AllOutside /\ Applied(SelectedTip) => LedgerInv)'
    BY LedgerOutside, PTL
  <2> QED
    BY <1>5, <2>1, <2>2, <2>3
<1>9. CASE SelectedTip # old[t]
  <2>1. (OneThread /\ UndosExact /\ t \in Threads /\ pc[t] \in Inserting /\ Applied(old[t])
         /\ (pc[t] = "reorganize" => new[t] = SelectedTip /\ new[t] # old[t]) => LedgerInv)'
    BY LedgerInside, PTL
  <2> QED
    BY <1>1, <1>2, <1>3, <1>5, <1>7, <1>9, <2>1 DEF Inserting, OneThread
<1> QED
  BY <1>8, <1>9

\* reorganize starts at the ledger of the old tip, and ends at that of the new
\* tip; or it fails, the ledger is where it was, and a stored block is refused
\* by its own chain or, after a crash, some undo data is missing.
LEMMA DoReorganizeLedger ==
  ASSUME OneThread, IInv, ShapeInv, IInv', ShapeInv', Grows, TipPairs, LedgerInv, BlocksGood,
         ~failed, NEW t \in Threads, DoReorganize(t)
  PROVE  \/ failed' = FALSE /\ LedgerInv'
         \/ /\ failed' = TRUE /\ led' = led
            /\ crashes = 0 => \E h \in store \ {Genesis} : Refused(h)
<1> DEFINE r == Reorganize(led, undos, old[t], new[t], blocks, gd, store)
<1>1. /\ pc[t] = "reorganize" /\ AfterReorganize(t, r)
      /\ UNCHANGED <<blocks, gd, store, headers, tips, crashes>>
  BY DEF DoReorganize
<1>2. /\ Applied(old[t]) /\ new[t] = SelectedTip /\ new[t] # old[t] /\ UndosExact
  BY <1>1 DEF LedgerInv, Inserting
<1>3. new[t] \in store /\ old[t] \in store /\ led = Replay(old[t], blocks, gd, store)
  <2>1. BestTip(blocks, Range(tips) \cap headers) \in store
    BY TipIsStored
  <2> QED
    BY <1>2, <2>1 DEF Applied, LedgerAt, SelectedTip
<1>4. World(blocks, gd, Genesis, store)
  BY NodeWorld
<1>5. Switched(r, undos, old[t], new[t], blocks, gd, Genesis, store)
  <2> DEFINE a == old[t]
             b == new[t]
  <2>1. a \in store /\ b \in store /\ a # b /\ r = Reorganize(Replay(a, blocks, gd, store), undos, a, b, blocks, gd, store)
    BY <1>2, <1>3
  <2>2. \A x \in DOMAIN undos : UndoOf(undos, x, blocks, gd, Genesis, store)
    BY <1>2 DEF UndosExact
  <2> HIDE DEF a, b, r
  <2>3. Switched(Reorganize(Replay(a, blocks, gd, store), undos, a, b, blocks, gd, store),
                 undos, a, b, blocks, gd, Genesis, store)
    BY <1>4, <2>1, <2>2, ReorganizeAgreesWithReplay
  <2> QED
    BY <2>1, <2>3 DEF a, b
<1> HIDE DEF r
<1>6. led' = r.led /\ undos' = r.undos /\ failed' = (failed \/ ~r.ok)
  BY <1>1 DEF AfterReorganize
<1>7. CASE r.ok
  <2>1. pc'[t] = "rebuild"
    BY <1>1, <1>7 DEF AfterReorganize, Goto, IInv, StoreTypeOK
  <2>2. AllOutside'
    BY <2>1 DEF AllOutside, Inserting, OneThread
  <2>3. UndosExact'
    BY <1>1, <1>5, <1>6, <1>7 DEF Switched, UndosExact
  <2>4. SelectedTip' = new[t]
    BY <1>1, <1>2, TipStays
  <2>5. led' = LedgerAt(new[t])
    BY <1>5, <1>6, <1>7 DEF Switched, LedgerAt
  <2>6. ASSUME crashes = 0, NEW x \in Range(SelectedChain(gd, new[t])) \ {Genesis}
        PROVE  x \in DOMAIN undos'
    <3>1. x \in DOMAIN r.undos \/ x \in Range(SelectedChain(gd, old[t]))
      BY <1>5, <1>7, <2>6 DEF Switched
    <3>2. DOMAIN undos \subseteq DOMAIN r.undos
      BY <1>5, <1>7 DEF Switched
    <3> QED
      BY <1>2, <1>6, <2>6, <3>1, <3>2 DEF Applied
  <2>7. Applied(SelectedTip)'
    BY <1>1, <1>3, <2>4, <2>5, <2>6 DEF Applied, LedgerAt
  <2>8. (UndosExact /\ AllOutside /\ Applied(SelectedTip) => LedgerInv)'
    BY LedgerOutside, PTL
  <2>9. LedgerInv'
    BY <2>2, <2>3, <2>7, <2>8
  <2>10. failed' = FALSE
    BY <1>6, <1>7
  <2> QED
    BY <2>9, <2>10
<1>8. CASE ~r.ok
  <2>1. failed' = TRUE /\ led' = led
    BY <1>3, <1>5, <1>6, <1>8 DEF Switched
  <2>2. ASSUME crashes = 0 PROVE ~ NoUndo(undos, old[t], gd, Genesis)
    BY <1>2, <2>2 DEF Applied, NoUndo
  <2>3. ASSUME crashes = 0 PROVE Unfit(blocks, gd, Genesis, store)
    BY <1>5, <1>8, <2>2, <2>3 DEF Switched
  <2>4. Unfit(blocks, gd, Genesis, store) => \E h \in store \ {Genesis} : Refused(h)
    BY Zenon DEF Unfit, Refused
  <2> QED
    BY <2>1, <2>3, <2>4
<1> QED
  BY <1>7, <1>8

\* A restart replays the chain of the tip it finds; the undo data it finds is
\* that of the blocks connected before the crash.
LEMMA CrashLedger ==
  ASSUME IInv, ShapeInv, IInv', ShapeInv', Grows, UndosExact, crashes \in Nat, Crash
  PROVE  LedgerInv'
<1> DEFINE h == BestTip(blocks, Range(dbTips) \cap headers)
<1>1. /\ UNCHANGED <<blocks, gd, store, headers, undos>> /\ tips' = dbTips
      /\ crashes' = crashes + 1 /\ led' = Replay(h, blocks, gd, store)
      /\ pc' = [t \in Threads |-> "idle"]
  BY Zenon DEF Crash, db
<1>2. h \in store
  BY TipIsStored
<1>3. SelectedTip' = h
  BY <1>1 DEF SelectedTip
<1>4. AllOutside'
  BY <1>1 DEF AllOutside, Inserting
<1>5. UndosExact'
  BY <1>1, UndosStay
<1>6. Applied(SelectedTip)'
  BY <1>1, <1>2, <1>3 DEF Applied, LedgerAt
<1>7. (UndosExact /\ AllOutside /\ Applied(SelectedTip) => LedgerInv)'
  BY LedgerOutside, PTL
<1> QED
  BY <1>4, <1>5, <1>6, <1>7

\* A step of the one thread that leaves the ledger and the tips.
LEMMA LedgerMove ==
  ASSUME OneThread, IInv, ShapeInv, IInv', ShapeInv', Grows, LedgerInv,
         UNCHANGED <<led, undos, crashes, tips>>, NEW t \in Threads,
         pc[t] \notin Inserting, pc'[t] \notin Inserting
  PROVE  LedgerInv'
<1>1. \A u \in Threads : u = t
  BY DEF OneThread
<1>2. \A u \in Threads :
        /\ pc'[u] \in Inserting <=> pc[u] \in Inserting
        /\ pc'[u] \in Inserting => old'[u] = old[u]
        /\ pc'[u] = "reorganize" => pc[u] = "reorganize" /\ new'[u] = new[u]
  BY <1>1 DEF Inserting
<1> QED
  BY <1>2, LedgerRest

\* A step of the one thread inside the insertion.
LEMMA InsertLedger ==
  ASSUME OneThread, IInv, ShapeInv, IInv', ShapeInv', Grows, LedgerInv, NEW t \in Threads,
         PutBlock(t) \/ PutHeader(t) \/ PutTips(t)
  PROVE  LedgerInv'
<1>1. /\ pc[t] \in {"put_block", "put_header", "put_tips"}
      /\ pc'[t] \in {"put_header", "put_tips", "select"}
      /\ UNCHANGED <<led, undos, crashes, old, new>>
  BY DEF PutBlock, PutHeader, PutTips, Goto, mem, locals, IInv, StoreTypeOK
<1>2. \A u \in Threads : u = t
  BY DEF OneThread
<1>3. \A u \in Threads :
        /\ pc'[u] \in Inserting <=> pc[u] \in Inserting
        /\ pc'[u] \in Inserting => old'[u] = old[u]
        /\ pc'[u] = "reorganize" => pc[u] = "reorganize" /\ new'[u] = new[u]
  BY <1>1, <1>2 DEF Inserting
<1>4. /\ \A u \in Threads : pc'[u] # "reorganize"
      /\ \E u \in Threads : pc'[u] \in Inserting
  BY <1>1, <1>2 DEF Inserting
<1> QED
  BY <1>1, <1>3, <1>4, LedgerRest

\* Every step of the thread but reorganize.
LEMMA ThreadLedger ==
  ASSUME OneThread, IInv, ShapeInv, IInv', ShapeInv', Grows, TipPairs, LedgerInv,
         NEW t \in Threads, ~DoReorganize(t),
         Step(t) \/ Mine(t) \/ SyncRound(t) \/ \E h \in Hash : Accept(t, h)
  PROVE  LedgerInv'
<1>1. t \in DOMAIN pc
  BY DEF IInv, StoreTypeOK
<1> DEFINE Outer == /\ UNCHANGED <<led, undos, crashes, tips>>
                    /\ pc[t] \notin Inserting /\ pc'[t] \notin Inserting
<1>2. Outer => LedgerInv'
  BY LedgerMove
<1>3. CASE Park(t) \/ Refuse(t) \/ Rebuild(t) \/ Resume(t) \/ Finish(t)
  <2>1. Outer
    BY <1>1, <1>3 DEF Park, Refuse, Rebuild, Resume, Finish, Return, Goto, Inserting, db, mem
  <2> QED
    BY <1>2, <2>1
<1>4. CASE Scan(t) \/ Drain(t) \/ SyncRound(t) \/ \E h \in Hash : Accept(t, h)
  <2>1. Outer
    BY <1>1, <1>4 DEF Scan, Drain, SyncRound, Accept, Goto, Inserting, db, mem
  <2> QED
    BY <1>2, <2>1
<1>5. CASE Mine(t)
  <2>1. /\ UNCHANGED <<led, undos, crashes, tips>> /\ pc[t] \in {"idle", "pick", "search"}
        /\ Goto(t, "pick") \/ Goto(t, "search") \/ Goto(t, "connect") \/ Goto(t, "idle")
    BY <1>5 DEF Mine, StartTemplate, FillTemplate, Find, GiveUp, db, mem
  <2>2. Outer
    BY <1>1, <2>1 DEF Goto, Inserting
  <2> QED
    BY <1>2, <2>2
<1>6. CASE PutGhostdag(t)
  BY <1>6, PutGhostdagLedger
<1>7. CASE Select(t)
  BY <1>7, SelectLedger
<1>8. CASE PutBlock(t) \/ PutHeader(t) \/ PutTips(t)
  BY <1>8, InsertLedger
<1> HIDE DEF Outer
<1> QED
  BY <1>3, <1>4, <1>5, <1>6, <1>7, <1>8 DEF Step

\* A step keeps the ledger at the tip, or is a reorganize that fails.
LEMMA NextLedger ==
  ASSUME OneThread, IInv, ShapeInv, IInv', ShapeInv', LedgerIInv, BlocksGood, [Next]_vars
  PROVE  /\ LedgerIInv'
         /\ ~failed /\ failed' => led' = led
<1>1. Grows /\ TipPairs /\ TipPairs'
  BY NextGrows, NextPairs DEF LedgerIInv
<1>2. ASSUME UNCHANGED <<failed, crashes>>, LedgerInv => LedgerInv'
      PROVE  LedgerIInv' /\ (~failed /\ failed' => led' = led)
  <2>1. BlameInv'
    BY <1>1, <1>2, BlameStays DEF LedgerIInv
  <2> QED
    BY <1>1, <1>2, <2>1 DEF LedgerIInv
<1>3. ASSUME NEW t \in Threads, ~DoReorganize(t),
             Step(t) \/ Mine(t) \/ SyncRound(t) \/ \E h \in Hash : Accept(t, h)
      PROVE  LedgerIInv' /\ (~failed /\ failed' => led' = led)
  <2>1. UNCHANGED <<failed, crashes>>
    BY <1>3 DEF Step, Park, Refuse, PutGhostdag, PutBlock, PutHeader, PutTips, Select,
                Rebuild, Resume, Finish, Scan, Drain, Accept, SyncRound,
                Mine, StartTemplate, FillTemplate, Find, GiveUp
  <2>2. LedgerInv => LedgerInv'
    BY <1>1, <1>3, ThreadLedger
  <2> QED
    BY <1>2, <2>1, <2>2
<1>4. ASSUME NEW t \in Threads, DoReorganize(t)
      PROVE  LedgerIInv' /\ (~failed /\ failed' => led' = led)
  <2>1. crashes' = crashes /\ (failed => failed' = TRUE)
    BY <1>4, Zenon DEF DoReorganize, AfterReorganize
  <2>2. CASE failed
    <3>1. failed' = failed
      BY <2>1, <2>2 DEF LedgerIInv
    <3>2. BlameInv'
      BY <1>1, <2>1, <3>1, BlameStays DEF LedgerIInv
    <3> QED
      BY <1>1, <2>1, <2>2, <3>1, <3>2 DEF LedgerIInv
  <2>3. CASE ~failed
    <3>1. LedgerInv
      BY <2>3 DEF LedgerIInv
    <3>2. \/ failed' = FALSE /\ LedgerInv'
          \/ /\ failed' = TRUE /\ led' = led
             /\ crashes = 0 => \E h \in store \ {Genesis} : Refused(h)
      BY <1>1, <1>4, <2>3, <3>1, DoReorganizeLedger
    <3>3. CASE failed' = FALSE /\ LedgerInv'
      BY <1>1, <2>1, <3>3 DEF LedgerIInv, BlameInv
    <3>4. CASE /\ failed' = TRUE /\ led' = led
               /\ crashes = 0 => \E h \in store \ {Genesis} : Refused(h)
      <4>1. ASSUME crashes = 0 PROVE \E h \in store' \ {Genesis} : Refused(h)'
        <5>1. PICK h \in store \ {Genesis} : Refused(h)
          BY <3>4, <4>1
        <5>2. h \in store' \ {Genesis} /\ Refused(h)'
          BY <1>1, <5>1, RefusedStays
        <5> QED
          BY <5>2
      <4>2. BlameInv'
        BY <2>1, <4>1 DEF BlameInv
      <4> QED
        BY <1>1, <2>1, <3>4, <4>2 DEF LedgerIInv
    <3> QED
      BY <3>2, <3>3, <3>4
  <2> QED
    BY <2>2, <2>3
<1>5. CASE \/ PeerFinds
           \/ \E m \in DOMAIN Transfers : AcceptTx(m) \/ EvictTx(m)
           \/ \E on \in BOOLEAN : SetMining(on)
           \/ UNCHANGED vars
  <2>1. UNCHANGED <<led, undos, crashes, failed, tips, pc, old, new>>
    BY <1>5, Zenon DEF PeerFinds, AcceptTx, EvictTx, SetMining, vars, db, mem, locals
  <2>2. \A u \in Threads :
          /\ pc'[u] \in Inserting <=> pc[u] \in Inserting
          /\ pc'[u] \in Inserting => old'[u] = old[u]
          /\ pc'[u] = "reorganize" => pc[u] = "reorganize" /\ new'[u] = new[u]
    BY <2>1
  <2>3. LedgerInv => LedgerInv'
    BY <1>1, <2>1, <2>2, LedgerRest
  <2> QED
    BY <1>2, <2>1, <2>3
<1>6. CASE Crash
  <2>1. crashes' = crashes + 1 /\ failed' = failed
    BY <1>6, Zenon DEF Crash
  <2>2. crashes \in Nat /\ crashes' \in Nat /\ crashes' # 0
    BY <2>1 DEF LedgerIInv
  <2>3. ~failed => LedgerInv'
    BY <1>1, <1>6, <2>2, CrashLedger DEF LedgerIInv, LedgerInv
  <2> QED
    BY <1>1, <2>1, <2>2, <2>3 DEF LedgerIInv, BlameInv
<1> QED
  BY <1>3, <1>4, <1>5, <1>6 DEF Next

\* A node starts with the ledger of the genesis block.
LEMMA InitLedger ==
  ASSUME IInv, ShapeInv, Init
  PROVE  LedgerIInv
<1>1. /\ DOMAIN gd = {Genesis} /\ gd = [h \in {Genesis} |-> GenesisData]
      /\ store = {Genesis} /\ undos = <<>> /\ crashes = 0 /\ failed = FALSE
      /\ led = Replay(Genesis, blocks, gd, store)
      /\ pc = [t \in Threads |-> "idle"]
      /\ old = [t \in Threads |-> Zero] /\ new = [t \in Threads |-> Zero]
  BY Zenon DEF Init
<1>2. SelectedTip = Genesis
  <2>1. BestTip(blocks, Range(tips) \cap headers) \in store
    BY TipIsStored
  <2> QED
    BY <1>1, <2>1 DEF SelectedTip
<1>3. Range(SelectedChain(gd, Genesis)) \subseteq {Genesis}
  <2>1. GdTree(gd, Genesis) /\ Genesis \in DOMAIN gd
    BY EntriesAreTree, <1>1
  <2>2. IsChain(gd, Genesis, SelectedChain(gd, Genesis))
    BY <2>1, SelectedIsChain
  <2>3. SelectedChain(gd, Genesis) \in Seq({Genesis})
    BY <1>1, <2>2 DEF IsChain
  <2> QED
    BY <2>3 DEF Range
<1>4. UndosExact
  BY <1>1 DEF UndosExact
<1>5. AllOutside
  BY <1>1 DEF AllOutside, Inserting
<1>6. Applied(SelectedTip)
  BY <1>1, <1>2, <1>3 DEF Applied, LedgerAt
<1>7. LedgerInv
  BY <1>4, <1>5, <1>6, LedgerOutside
<1> QED
  BY <1>1, <1>7 DEF LedgerIInv, TipPairs, BlameInv

\* The invariant of the ledger, under what it assumes of the blocks.
LEMMA LedgerInvariant ==
  ASSUME OneThread
  PROVE  Spec /\ []BlocksGood => [](IInv /\ ShapeInv /\ LedgerIInv)
<1>1. Init => ShapeInv
  BY InitShape
<1>2. IInv /\ ShapeInv /\ Init => LedgerIInv
  BY InitLedger
<1>3. IInv /\ ShapeInv /\ [Next]_vars => ShapeInv'
  BY NextShape
<1>4. IInv /\ ShapeInv /\ IInv' /\ ShapeInv' /\ LedgerIInv /\ BlocksGood /\ [Next]_vars
        => LedgerIInv'
  BY NextLedger
<1> QED
  BY <1>1, <1>2, <1>3, <1>4, StoreInvariant, PTL DEF Spec

\* So the ledger is that of the selected tip.
LEMMA LedgerAgrees ==
  ASSUME LedgerIInv
  PROVE  LedgerFollowsTip
<1> SUFFICES ASSUME LedgerInv, Quiet PROVE led = Replay(SelectedTip, blocks, gd, store)
  BY DEF LedgerIInv, LedgerFollowsTip
<1>1. \A t \in Threads : pc[t] \notin Inserting
  BY DEF Quiet, Inserting
<1> QED
  BY <1>1 DEF LedgerInv, Applied, LedgerAt

\* The UTXO set follows the selected tip: with one thread, any number of blocks
\* found by anybody in any order, and across crashes, the ledger that
\* reorganize has moved from tip to tip is the one ZentraNode::new would replay.
THEOREM LedgerIsReplay ==
  ASSUME OneThread
  PROVE  Spec /\ []BlocksGood => []LedgerFollowsTip
<1>1. LedgerIInv => LedgerFollowsTip
  BY LedgerAgrees
<1> QED
  BY <1>1, LedgerInvariant, PTL

\* A reorganize that fails, at whatever block of the new branch and also for
\* want of undo data after a crash, leaves the UTXO set as it found it.
THEOREM FailureLeavesLedger ==
  ASSUME OneThread
  PROVE  Spec /\ []BlocksGood => FailureRestores
<1>1. IInv /\ ShapeInv /\ LedgerIInv /\ BlocksGood /\ (IInv /\ ShapeInv)' /\ [Next]_vars
        => [~failed /\ failed' => led' = led]_vars
  BY NextLedger
<1>2. Spec /\ []BlocksGood => [][~failed /\ failed' => led' = led]_vars
  BY <1>1, LedgerInvariant, PTL DEF Spec
<1> QED
  BY <1>2 DEF FailureRestores

----------------------------------------------------------------------------
(* Ancestors and coinbases                                                 *)

\* The ancestors that a list of parents gives.
PastIn(blk, ps) == Range(ps) \cup UNION {blk[p].past : p \in Range(ps)}

\* The past of a block: its ancestors with all of theirs, each a parent of the
\* block or of another of them.
PastOK(blk, b) ==
  /\ b.past = PastIn(blk, b.parents) /\ b.past \subseteq DOMAIN blk
  /\ \A p \in b.past : blk[p].past \subseteq b.past
  /\ \A p \in b.past : p \in Range(b.parents) \/ \E c \in b.past : p \in Range(blk[c].parents)

\* Its first transaction is a coinbase, which spends nothing.
HeadOK(b) == 1 \in DOMAIN b.txs /\ b.txs[1].coinbase /\ b.txs[1].inputs = <<>>

\* The worker's template on stored parents.
TemplateKin(t) ==
  pc[t] = "search" =>
    template[t].past = PastIn(blocks, template[t].parents) /\ HeadOK(template[t])

\* Every block knows its ancestors, is none of them and, genesis aside, starts
\* with a coinbase; the ancestors of a stored block are stored.
KinInv ==
  /\ blocks[Genesis] = GenesisBlock
  /\ \A q \in DOMAIN blocks : PastOK(blocks, blocks[q]) /\ q \notin blocks[q].past
  /\ \A q \in DOMAIN blocks \ {Genesis} : HeadOK(blocks[q])
  /\ \A q \in store : blocks[q].past \subseteq store
  /\ \A t \in Threads : TemplateKin(t)

\* The ancestors are those of the parents.
LEMMA PastOfNew ==
  ASSUME NEW blk, \A q \in DOMAIN blk : PastOK(blk, blk[q]),
         NEW b, b.past = PastIn(blk, b.parents), Range(b.parents) \subseteq DOMAIN blk
  PROVE  PastOK(blk, b)
<1>1. b.past = Range(b.parents) \cup UNION {blk[p].past : p \in Range(b.parents)}
  BY DEF PastIn
<1>2. b.past \subseteq DOMAIN blk
  BY <1>1 DEF PastOK
<1>3. ASSUME NEW p \in b.past
      PROVE  /\ blk[p].past \subseteq b.past
             /\ p \in Range(b.parents) \/ \E c \in b.past : p \in Range(blk[c].parents)
  <2>1. CASE p \in Range(b.parents)
    BY <1>1, <2>1
  <2>2. CASE p \notin Range(b.parents)
    <3>1. PICK q \in Range(b.parents) : p \in blk[q].past
      BY <1>1, <1>3, <2>2
    <3>2. blk[q].past \subseteq b.past /\ q \in b.past /\ PastOK(blk, blk[q])
      BY <1>1, <3>1
    <3>3. blk[p].past \subseteq blk[q].past
      BY <3>1, <3>2 DEF PastOK
    <3>4. p \in Range(blk[q].parents) \/ \E c \in blk[q].past : p \in Range(blk[c].parents)
      BY <3>1, <3>2 DEF PastOK
    <3> QED
      BY <3>1, <3>2, <3>3, <3>4
  <2> QED
    BY <2>1, <2>2
<1> QED
  BY <1>2, <1>3 DEF PastOK

\* Blocks that are found later do not change them.
LEMMA PastStays ==
  ASSUME NEW f, NEW g, DOMAIN f \subseteq DOMAIN g, \A x \in DOMAIN f : g[x] = f[x],
         NEW ps, Range(ps) \subseteq DOMAIN f
  PROVE  PastIn(g, ps) = PastIn(f, ps)
<1>1. \A p \in Range(ps) : g[p] = f[p]
  OBVIOUS
<1>2. {g[p].past : p \in Range(ps)} = {f[p].past : p \in Range(ps)}
  BY <1>1
<1> QED
  BY <1>2 DEF PastIn

\* Nor what is known of the past of a block.
LEMMA PastOKStays ==
  ASSUME NEW f, NEW g, DOMAIN f \subseteq DOMAIN g, \A x \in DOMAIN f : g[x] = f[x],
         NEW b, PastOK(f, b), Range(b.parents) \subseteq DOMAIN f
  PROVE  PastOK(g, b)
<1>1. /\ b.past = PastIn(f, b.parents) /\ b.past \subseteq DOMAIN f
      /\ \A p \in b.past : f[p].past \subseteq b.past
      /\ \A p \in b.past : p \in Range(b.parents) \/ \E c \in b.past : p \in Range(f[c].parents)
  BY DEF PastOK
<1>2. PastIn(g, b.parents) = PastIn(f, b.parents)
  BY PastStays
<1>3. \A p \in b.past : g[p] = f[p] /\ p \in DOMAIN g
  BY <1>1
<1> QED
  BY <1>1, <1>2, <1>3 DEF PastOK

\* A block is found on parents that the network has.
LEMMA KinFound ==
  ASSUME IInv, KinInv, NEW h \in Hash \ DOMAIN blocks, NEW b, blocks' = Put(blocks, h, b),
         Range(b.parents) \subseteq DOMAIN blocks, b.past = PastIn(blocks, b.parents), HeadOK(b),
         store' = store, \A u \in Threads : TemplateKin(u)'
  PROVE  KinInv'
<1>1. /\ DOMAIN blocks' = DOMAIN blocks \cup {h} /\ blocks'[h] = b
      /\ \A q \in DOMAIN blocks : blocks'[q] = blocks[q]
  BY DEF Put
<1>2. Genesis \in DOMAIN blocks /\ h # Genesis /\ store \subseteq DOMAIN blocks
  BY DEF IInv, NetInv, StoreTypeOK
<1>3. \A q \in DOMAIN blocks : PastOK(blocks, blocks[q]) /\ Range(blocks[q].parents) \subseteq DOMAIN blocks
  BY DEF KinInv, IInv, NetInv, HasParents
<1>4. PastOK(blocks, b)
  BY <1>3, PastOfNew
<1>5. PastOK(blocks', b)
  BY <1>1, <1>4, PastOKStays
<1>6. h \notin b.past
  BY <1>4 DEF PastOK
<1>7. ASSUME NEW q \in DOMAIN blocks PROVE PastOK(blocks', blocks'[q])
  <2>1. PastOK(blocks', blocks[q])
    BY <1>1, <1>3, PastOKStays
  <2> QED
    BY <1>1, <2>1
<1>8. \A q \in DOMAIN blocks' : PastOK(blocks', blocks'[q]) /\ q \notin blocks'[q].past
  BY <1>1, <1>5, <1>6, <1>7 DEF KinInv
<1>9. \A q \in DOMAIN blocks' \ {Genesis} : HeadOK(blocks'[q])
  BY <1>1 DEF KinInv
<1>10. \A q \in store' : blocks'[q].past \subseteq store'
  BY <1>1, <1>2 DEF KinInv
<1> QED
  BY <1>1, <1>2, <1>8, <1>9, <1>10 DEF KinInv

\* A step that finds no block, stores none and makes no template.
LEMMA KinRest ==
  ASSUME KinInv, UNCHANGED <<blocks, store>>,
         \A u \in Threads : pc'[u] = "search" => pc[u] = "search" /\ template'[u] = template[u]
  PROVE  KinInv'
<1>1. \A u \in Threads : TemplateKin(u)'
  BY DEF KinInv, TemplateKin
<1> QED
  BY <1>1 DEF KinInv

\* What NewBlock makes.
LEMMA NewBlockKin ==
  ASSUME NEW parents, NEW miner, NEW fees, NEW body, NEW score, NEW work, NEW bits,
         NEW b, b = NewBlock(parents, miner, fees, body, score, work, bits)
  PROVE  b.parents = parents /\ b.past = PastIn(blocks, parents) /\ HeadOK(b)
<1>1. b.parents = parents /\ b.past = PastIn(blocks, parents)
  BY DEF NewBlock, Past, PastIn
<1> DEFINE c == CoinbaseTx(<<"coinbase", miner, score, BlockReward(Schedule, score) + fees>>, miner,
                           BlockReward(Schedule, score) + fees)
<1>2. b.txs = [i \in {1} \cup {j + 1 : j \in DOMAIN body} |->
                 IF i = 1 THEN c ELSE Transfers[body[i - 1]]]
  BY DEF NewBlock
<1> HIDE DEF c
<1>3. 1 \in DOMAIN b.txs /\ b.txs[1] = c
  BY <1>2
<1>4. c.coinbase /\ c.inputs = <<>>
  BY DEF c, CoinbaseTx
<1> QED
  BY <1>1, <1>3, <1>4 DEF HeadOK

\* A peer finds a block.
LEMMA PeerFindsKin ==
  ASSUME IInv, KinInv, PeerFinds
  PROVE  KinInv'
<1>1. PICK h \in Hash \ DOMAIN blocks, ps \in TipLists, body \in PeerBodies,
           fees \in PeerFees, err \in ScoreErrors :
        LET d == ProcessBlock(ps, NetGd) IN
          blocks' = Put(blocks, h, NewBlock(ps, PayeeOf[h], fees, body, d.score + err, d.work,
                                            ExpectedBits(ps, DOMAIN blocks)))
  BY Zenon DEF PeerFinds
<1>2. UNCHANGED <<store, pc, template>>
  BY Zenon DEF PeerFinds, db, locals
<1> DEFINE d == ProcessBlock(ps, NetGd)
           b == NewBlock(ps, PayeeOf[h], fees, body, d.score + err, d.work,
                         ExpectedBits(ps, DOMAIN blocks))
<1>3. b.parents = ps /\ b.past = PastIn(blocks, ps) /\ HeadOK(b)
  BY NewBlockKin, Zenon
<1>4. blocks' = Put(blocks, h, b)
  BY <1>1
<1> HIDE DEF b
<1>5. Range(ps) \subseteq DOMAIN blocks
  <2>1. PICK n \in 1..MAX_BLOCK_PARENTS : ps \in [1..n -> DOMAIN blocks]
    BY DEF TipLists
  <2> QED
    BY <2>1 DEF Range
<1>6. ASSUME NEW u \in Threads PROVE TemplateKin(u)'
  <2>1. SUFFICES ASSUME pc[u] = "search"
                 PROVE  /\ template[u].past = PastIn(blocks', template[u].parents)
                        /\ HeadOK(template[u])
    BY <1>2 DEF TemplateKin
  <2>2. template[u].past = PastIn(blocks, template[u].parents) /\ HeadOK(template[u])
    BY <2>1 DEF KinInv, TemplateKin
  <2>3. Range(template[u].parents) \subseteq DOMAIN blocks
    BY <2>1 DEF IInv, ThreadInv, StoreTypeOK
  <2>4. DOMAIN blocks \subseteq DOMAIN blocks' /\ \A x \in DOMAIN blocks : blocks'[x] = blocks[x]
    BY <1>4 DEF Put
  <2>5. PastIn(blocks', template[u].parents) = PastIn(blocks, template[u].parents)
    BY <2>3, <2>4, PastStays
  <2> QED
    BY <2>2, <2>5
<1> QED
  BY <1>2, <1>3, <1>4, <1>5, <1>6, KinFound

\* The worker makes a template, finds a block, gives up.
LEMMA MineKin ==
  ASSUME IInv, KinInv, NEW t \in Threads, Mine(t)
  PROVE  KinInv'
<1>1. t \in DOMAIN pc /\ DOMAIN template = Threads /\ pc \in [Threads -> Labels]
  BY DEF IInv, StoreTypeOK
<1>2. CASE StartTemplate(t) \/ GiveUp(t)
  <2>1. UNCHANGED <<blocks, store>>
    BY <1>2 DEF StartTemplate, GiveUp, db
  <2>2. \/ pc' = [pc EXCEPT ![t] = "pick"] /\ template' = [template EXCEPT ![t] = tips]
        \/ pc' = [pc EXCEPT ![t] = "idle"] /\ template' = [template EXCEPT ![t] = <<>>]
    BY <1>2 DEF StartTemplate, GiveUp, Goto
  <2>3. \A u \in Threads : pc'[u] = "search" => pc[u] = "search" /\ template'[u] = template[u]
    BY <1>1, <2>2
  <2> QED
    BY <2>1, <2>3, KinRest
<1>3. CASE FillTemplate(t)
  <2> DEFINE d    == Stamp(template[t])
             pick == Pick(d.score)
             b    == NewBlock(template[t], Miner, Fees(pick.body), pick.body, d.score, d.work,
                              BitsOf[diffTip])
  <2>1. template' = [template EXCEPT ![t] = b]
    BY <1>3, Zenon DEF FillTemplate
  <2>2. b.parents = template[t] /\ b.past = PastIn(blocks, template[t]) /\ HeadOK(b)
    <3> HIDE DEF d, pick
    <3> QED
      BY NewBlockKin, Zenon
  <2> HIDE DEF b
  <2>3. pc[t] = "pick" /\ pc' = [pc EXCEPT ![t] = "search"] /\ UNCHANGED <<blocks, store>>
    BY <1>3, Zenon DEF FillTemplate, Goto, db
  <2>4. ASSUME NEW u \in Threads PROVE TemplateKin(u)'
    <3>1. CASE u = t
      BY <1>1, <2>1, <2>2, <2>3, <3>1 DEF TemplateKin
    <3>2. CASE u # t
      BY <1>1, <2>1, <2>3, <3>2 DEF KinInv, TemplateKin
    <3> QED
      BY <3>1, <3>2
  <2> QED
    BY <2>3, <2>4 DEF KinInv
<1>4. CASE Find(t)
  <2>1. PICK h \in Hash \ DOMAIN blocks : blocks' = Put(blocks, h, template[t])
    BY <1>4, Zenon DEF Find
  <2>2. /\ pc[t] = "search" /\ pc' = [pc EXCEPT ![t] = "connect"]
        /\ template' = [template EXCEPT ![t] = <<>>] /\ store' = store
    BY <1>4, Zenon DEF Find, Goto, db
  <2>3. Range(template[t].parents) \subseteq DOMAIN blocks
    BY <2>2 DEF IInv, ThreadInv, StoreTypeOK
  <2>4. template[t].past = PastIn(blocks, template[t].parents) /\ HeadOK(template[t])
    BY <2>2 DEF KinInv, TemplateKin
  <2>5. ASSUME NEW u \in Threads PROVE TemplateKin(u)'
    <3>1. SUFFICES ASSUME pc'[u] = "search"
                   PROVE  /\ template'[u].past = PastIn(blocks', template'[u].parents)
                          /\ HeadOK(template'[u])
      BY DEF TemplateKin
    <3>2. u # t /\ pc[u] = "search" /\ template'[u] = template[u]
      BY <1>1, <2>2, <3>1
    <3>3. template[u].past = PastIn(blocks, template[u].parents) /\ HeadOK(template[u])
      BY <3>2 DEF KinInv, TemplateKin
    <3>4. Range(template[u].parents) \subseteq DOMAIN blocks
      BY <3>2 DEF IInv, ThreadInv, StoreTypeOK
    <3>5. DOMAIN blocks \subseteq DOMAIN blocks' /\ \A x \in DOMAIN blocks : blocks'[x] = blocks[x]
      BY <2>1 DEF Put
    <3>6. PastIn(blocks', template[u].parents) = PastIn(blocks, template[u].parents)
      BY <3>4, <3>5, PastStays
    <3> QED
      BY <3>2, <3>3, <3>6
  <2> QED
    BY <2>1, <2>2, <2>3, <2>4, <2>5, KinFound
<1> QED
  BY <1>2, <1>3, <1>4 DEF Mine

\* A step of connect_block is none of the miner.
LEMMA StepMines ==
  ASSUME IInv, NEW t \in Threads, Step(t)
  PROVE  \A u \in Threads : pc'[u] \in {"pick", "search"} => pc'[u] = pc[u]
<1>1. t \in DOMAIN pc /\ pc \in [Threads -> Labels]
  BY DEF IInv, StoreTypeOK
<1>3. ASSUME NEW l, Goto(t, l), l \notin {"pick", "search"}
      PROVE  \A u \in Threads : pc'[u] \in {"pick", "search"} => pc'[u] = pc[u]
  BY <1>1, <1>3 DEF Goto
<1>4. \E l : Goto(t, l) /\ l \notin {"pick", "search"}
  <2>1. CASE Park(t) \/ PutBlock(t) \/ PutHeader(t) \/ PutTips(t) \/ Resume(t) \/ PutGhostdag(t)
    BY <2>1 DEF Park, PutBlock, PutHeader, PutTips, Resume, PutGhostdag
  <2>2. CASE Select(t) \/ Rebuild(t) \/ Scan(t) \/ Drain(t)
    BY <2>2 DEF Select, Rebuild, Scan, Drain
  <2>3. ASSUME NEW ok, Return(t, ok) PROVE \E l : Goto(t, l) /\ l \notin {"pick", "search"}
    BY <2>3 DEF Return
  <2>4. CASE Refuse(t) \/ Finish(t)
    BY <2>4, <2>3 DEF Refuse, Finish
  <2>5. CASE DoReorganize(t)
    <3>1. Goto(t, "rebuild") \/ Return(t, FALSE)
      BY <2>5 DEF DoReorganize, AfterReorganize
    <3>2. "rebuild" \notin {"pick", "search"}
      OBVIOUS
    <3>3. CASE Goto(t, "rebuild")
      BY <3>2, <3>3, Zenon
    <3> QED
      BY <3>1, <3>3, <2>3
  <2> QED
    BY <2>1, <2>2, <2>4, <2>5 DEF Step
<1> QED
  BY <1>3, <1>4

\* Every step of a thread.
LEMMA StepKin ==
  ASSUME IInv, KinInv, NEW t \in Threads, Step(t)
  PROVE  KinInv'
<1>1. t \in DOMAIN pc /\ pc \in [Threads -> Labels]
  BY DEF IInv, StoreTypeOK
<1>2. UNCHANGED <<blocks, template>>
  BY Zenon DEF Step, Park, Refuse, PutGhostdag, PutBlock, PutHeader, PutTips, Select, DoReorganize,
     AfterReorganize, Rebuild, Resume, Finish, Scan, Drain, Return, db, locals
<1>5. \A u \in Threads : pc'[u] = "search" => pc[u] = "search"
  BY StepMines
<1>6. CASE PutBlock(t)
  <2>1. pc[t] = "put_block" /\ store' = store \cup {cur[t]}
    BY <1>6 DEF PutBlock
  <2>2. cur[t] \in DOMAIN blocks /\ HasParents(cur[t], store)
    BY <2>1 DEF IInv, ThreadInv, StoreTypeOK
  <2>3. blocks[cur[t]].past = PastIn(blocks, blocks[cur[t]].parents)
    BY <2>2 DEF KinInv, PastOK
  <2>4. blocks[cur[t]].past \subseteq store
    BY <2>2, <2>3 DEF PastIn, HasParents, KinInv
  <2>5. \A q \in store' : blocks'[q].past \subseteq store'
    BY <1>2, <2>1, <2>4 DEF KinInv
  <2>6. \A u \in Threads : TemplateKin(u)'
    BY <1>2, <1>5 DEF KinInv, TemplateKin
  <2> QED
    BY <1>2, <2>5, <2>6 DEF KinInv
<1>7. CASE ~PutBlock(t)
  <2>1. UNCHANGED store
    BY <1>7, Zenon DEF Step, Park, Refuse, PutGhostdag, PutHeader, PutTips, Select, DoReorganize,
       AfterReorganize, Rebuild, Resume, Finish, Scan, Drain, Return, db, locals
  <2> QED
    BY <1>2, <1>5, <2>1, KinRest
<1> QED
  BY <1>6, <1>7

\* Every step keeps what the blocks know of their ancestors.
LEMMA NextKin ==
  ASSUME IInv, KinInv, [Next]_vars
  PROVE  KinInv'
<1>1. CASE PeerFinds
  BY <1>1, PeerFindsKin
<1>2. ASSUME NEW t \in Threads, Step(t) PROVE KinInv'
  BY <1>2, StepKin
<1>3. ASSUME NEW t \in Threads, Mine(t) PROVE KinInv'
  BY <1>3, MineKin
<1>4. ASSUME NEW t \in Threads, SyncRound(t) \/ \E h \in Hash : Accept(t, h) PROVE KinInv'
  <2>1. UNCHANGED <<blocks, store, template>>
    BY <1>4, Zenon DEF SyncRound, Accept, db, locals
  <2>2. pc \in [Threads -> Labels]
    BY DEF IInv, StoreTypeOK
  <2>3. \A u \in Threads : pc'[u] = "search" => pc[u] = "search"
    BY <1>4, <2>2 DEF SyncRound, Accept, Goto
  <2> QED
    BY <2>1, <2>3, KinRest
<1>5. CASE \/ \E m \in DOMAIN Transfers : AcceptTx(m) \/ EvictTx(m)
           \/ \E on \in BOOLEAN : SetMining(on)
           \/ UNCHANGED vars
  <2>1. UNCHANGED <<blocks, store, template, pc>>
    BY <1>5, Zenon DEF AcceptTx, EvictTx, SetMining, vars, db, locals
  <2> QED
    BY <2>1, KinRest
<1>6. CASE Crash
  <2>1. UNCHANGED <<blocks, store>> /\ pc' = [t \in Threads |-> "idle"]
    BY <1>6, Zenon DEF Crash, db
  <2>2. \A u \in Threads : pc'[u] # "search"
    BY <2>1
  <2> QED
    BY <2>1, <2>2, KinRest
<1> QED
  BY <1>1, <1>2, <1>3, <1>4, <1>5, <1>6 DEF Next

\* The genesis block has no ancestors.
LEMMA InitKin == Init => KinInv
<1> SUFFICES ASSUME Init PROVE KinInv
  OBVIOUS
<1>1. /\ DOMAIN blocks = {Genesis} /\ blocks[Genesis] = GenesisBlock /\ store = {Genesis}
      /\ pc = [t \in Threads |-> "idle"]
  <2>1. /\ blocks = [h \in {Genesis} |-> GenesisBlock] /\ store = {Genesis}
        /\ pc = [t \in Threads |-> "idle"]
    BY Zenon DEF Init
  <2> QED
    BY <2>1
<1>2. GenesisBlock.parents = <<>> /\ GenesisBlock.past = {}
  BY DEF GenesisBlock
<1>3. Range(<<>>) = {}
  BY DEF Range
<1>4. PastIn(blocks, <<>>) = {}
  BY <1>3 DEF PastIn
<1>5. PastOK(blocks, blocks[Genesis])
  BY <1>1, <1>2, <1>4 DEF PastOK
<1>6. \A u \in Threads : TemplateKin(u)
  BY <1>1 DEF TemplateKin
<1> QED
  BY <1>1, <1>2, <1>5, <1>6 DEF KinInv

----------------------------------------------------------------------------
(* Parents that are no ancestors of each other                             *)

\* No block of the list is an ancestor of another.
Unrelated(blk, ps) == \A p, q \in Range(ps) : p # q => p \notin blk[q].past

\* What a thread that mines has for parents.
TemplateUnrelated(t) ==
  /\ pc[t] = "pick" => Unrelated(blocks, template[t])
  /\ pc[t] = "search" => Unrelated(blocks, template[t].parents)

\* Nobody merges a block and an ancestor of it.
MergeInv ==
  /\ \A q \in DOMAIN blocks : Unrelated(blocks, blocks[q].parents)
  /\ \A t \in Threads : TemplateUnrelated(t)

\* That stays so.
LEMMA UnrelatedStays ==
  ASSUME NEW f, NEW g, \A x \in DOMAIN f : g[x] = f[x],
         NEW ps, Range(ps) \subseteq DOMAIN f, Unrelated(f, ps)
  PROVE  Unrelated(g, ps)
BY DEF Unrelated

\* The tips, when they are exact, are no ancestors of each other.
LEMMA TipsUnrelated ==
  ASSUME IInv, KinInv, TipsInv, \A t \in Threads : ~Writing(t)
  PROVE  Unrelated(blocks, tips)
<1>1. Announced = store
  BY DEF Announced, Pending
<1>2. Range(tips) = {h \in store : \A c \in store : h \notin Range(blocks[c].parents)}
  BY <1>1 DEF TipsInv
<1>3. SUFFICES ASSUME NEW p \in Range(tips), NEW q \in Range(tips), p # q, p \in blocks[q].past
               PROVE  FALSE
  BY DEF Unrelated
<1>4. q \in store /\ q \in DOMAIN blocks
  BY <1>2 DEF IInv, StoreTypeOK
<1>5. p \in Range(blocks[q].parents) \/ \E c \in blocks[q].past : p \in Range(blocks[c].parents)
  BY <1>3, <1>4 DEF KinInv, PastOK
<1>6. blocks[q].past \subseteq store
  BY <1>4 DEF KinInv
<1> QED
  BY <1>2, <1>3, <1>4, <1>5, <1>6

\* A step that finds no block and gives no thread new parents.
LEMMA MergeRest ==
  ASSUME MergeInv, UNCHANGED blocks,
         \A u \in Threads : pc'[u] \in {"pick", "search"} =>
                              pc'[u] = pc[u] /\ template'[u] = template[u]
  PROVE  MergeInv'
<1>1. ASSUME NEW u \in Threads PROVE TemplateUnrelated(u)'
  BY <1>1 DEF MergeInv, TemplateUnrelated
<1> QED
  BY <1>1 DEF MergeInv

\* A block is found on unrelated parents.
LEMMA MergeFound ==
  ASSUME IInv, MergeInv, NEW h \in Hash \ DOMAIN blocks, NEW b, blocks' = Put(blocks, h, b),
         Range(b.parents) \subseteq DOMAIN blocks, Unrelated(blocks, b.parents),
         \A u \in Threads : pc'[u] \in {"pick", "search"} =>
                              pc'[u] = pc[u] /\ template'[u] = template[u]
  PROVE  MergeInv'
<1>1. /\ DOMAIN blocks' = DOMAIN blocks \cup {h} /\ blocks'[h] = b
      /\ \A q \in DOMAIN blocks : blocks'[q] = blocks[q]
  BY DEF Put
<1>2. Unrelated(blocks', b.parents)
  BY <1>1, UnrelatedStays
<1>3. ASSUME NEW q \in DOMAIN blocks PROVE Unrelated(blocks', blocks'[q].parents)
  <2>1. Range(blocks[q].parents) \subseteq DOMAIN blocks /\ Unrelated(blocks, blocks[q].parents)
    BY DEF IInv, NetInv, HasParents, MergeInv
  <2>2. Unrelated(blocks', blocks[q].parents)
    BY <1>1, <2>1, UnrelatedStays
  <2> QED
    BY <1>1, <2>2
<1>4. ASSUME NEW u \in Threads PROVE TemplateUnrelated(u)'
  <2>1. SUFFICES ASSUME pc'[u] \in {"pick", "search"}
                 PROVE  /\ pc'[u] = "pick" => Unrelated(blocks', template'[u])
                        /\ pc'[u] = "search" => Unrelated(blocks', template'[u].parents)
    BY DEF TemplateUnrelated
  <2>2. pc'[u] = pc[u] /\ template'[u] = template[u]
    BY <2>1
  <2>3. CASE pc[u] = "pick"
    <3>1. Range(template[u]) \subseteq DOMAIN blocks /\ Unrelated(blocks, template[u])
      BY <2>3 DEF IInv, ThreadInv, StoreTypeOK, MergeInv, TemplateUnrelated
    <3>2. Unrelated(blocks', template[u])
      BY <1>1, <3>1, UnrelatedStays
    <3> QED
      BY <2>2, <2>3, <3>2
  <2>4. CASE pc[u] = "search"
    <3>1. Range(template[u].parents) \subseteq DOMAIN blocks /\ Unrelated(blocks, template[u].parents)
      BY <2>4 DEF IInv, ThreadInv, StoreTypeOK, MergeInv, TemplateUnrelated
    <3>2. Unrelated(blocks', template[u].parents)
      BY <1>1, <3>1, UnrelatedStays
    <3> QED
      BY <2>2, <2>4, <3>2
  <2> QED
    BY <2>1, <2>2, <2>3, <2>4
<1> QED
  BY <1>1, <1>2, <1>3, <1>4 DEF MergeInv

\* Every step until a crash.
LEMMA NextMerge ==
  ASSUME OneThread, IInv, KinInv, TipsInv, MergeInv, [Next]_vars, ~Crash
  PROVE  MergeInv'
<1>1. pc \in [Threads -> Labels] /\ DOMAIN template = Threads
  BY DEF IInv, StoreTypeOK
<1>2. CASE PeerFinds
  <2>1. PICK h \in Hash \ DOMAIN blocks, ps \in TipLists, body \in PeerBodies,
             fees \in PeerFees, err \in ScoreErrors :
          LET d == ProcessBlock(ps, NetGd) IN
            blocks' = Put(blocks, h, NewBlock(ps, PayeeOf[h], fees, body, d.score + err, d.work,
                                              ExpectedBits(ps, DOMAIN blocks)))
    BY <1>2, Zenon DEF PeerFinds
  <2>2. UNCHANGED <<pc, template>>
    BY <1>2, Zenon DEF PeerFinds, locals
  <2> DEFINE d == ProcessBlock(ps, NetGd)
             b == NewBlock(ps, PayeeOf[h], fees, body, d.score + err, d.work,
                           ExpectedBits(ps, DOMAIN blocks))
  <2>3. b.parents = ps
    BY NewBlockFields
  <2>4. blocks' = Put(blocks, h, b)
    BY <2>1
  <2> HIDE DEF b
  <2>5. /\ \E n \in 1..MAX_BLOCK_PARENTS : ps \in [1..n -> DOMAIN blocks]
        /\ \A i, j \in DOMAIN ps : i # j => ps[i] \notin blocks[ps[j]].past
    BY DEF TipLists
  <2>6. Range(ps) \subseteq DOMAIN blocks /\ Unrelated(blocks, ps)
    BY <2>5 DEF Range, Unrelated
  <2> QED
    BY <2>2, <2>3, <2>4, <2>6, MergeFound
<1>3. ASSUME NEW t \in Threads, StartTemplate(t) PROVE MergeInv'
  <2>1. /\ pc[t] = "idle" /\ template' = [template EXCEPT ![t] = tips]
        /\ pc' = [pc EXCEPT ![t] = "pick"] /\ UNCHANGED blocks
    BY <1>3 DEF StartTemplate, Goto
  <2>2. \A u \in Threads : ~Writing(u)
    BY <2>1 DEF OneThread, Writing
  <2>3. Unrelated(blocks, tips)
    BY <2>2, TipsUnrelated
  <2>4. ASSUME NEW u \in Threads PROVE TemplateUnrelated(u)'
    BY <1>1, <2>1, <2>3 DEF MergeInv, TemplateUnrelated
  <2> QED
    BY <2>1, <2>4 DEF MergeInv
<1>4. ASSUME NEW t \in Threads, FillTemplate(t) PROVE MergeInv'
  <2> DEFINE d    == Stamp(template[t])
             pick == Pick(d.score)
             b    == NewBlock(template[t], Miner, Fees(pick.body), pick.body, d.score, d.work,
                              BitsOf[diffTip])
  <2>1. template' = [template EXCEPT ![t] = b]
    BY <1>4, Zenon DEF FillTemplate
  <2>2. b.parents = template[t]
    BY NewBlockFields
  <2> HIDE DEF b
  <2>3. pc[t] = "pick" /\ pc' = [pc EXCEPT ![t] = "search"] /\ UNCHANGED blocks
    BY <1>4, Zenon DEF FillTemplate, Goto
  <2>4. ASSUME NEW u \in Threads PROVE TemplateUnrelated(u)'
    BY <1>1, <2>1, <2>2, <2>3 DEF MergeInv, TemplateUnrelated
  <2> QED
    BY <2>3, <2>4 DEF MergeInv
<1>5. ASSUME NEW t \in Threads, Find(t) PROVE MergeInv'
  <2>1. PICK h \in Hash \ DOMAIN blocks : blocks' = Put(blocks, h, template[t])
    BY <1>5, Zenon DEF Find
  <2>2. /\ pc[t] = "search" /\ pc' = [pc EXCEPT ![t] = "connect"]
        /\ template' = [template EXCEPT ![t] = <<>>]
    BY <1>5, Zenon DEF Find, Goto
  <2>3. Range(template[t].parents) \subseteq DOMAIN blocks
    BY <2>2 DEF IInv, ThreadInv, StoreTypeOK
  <2>4. Unrelated(blocks, template[t].parents)
    BY <2>2 DEF MergeInv, TemplateUnrelated
  <2>5. \A u \in Threads : pc'[u] \in {"pick", "search"} =>
                             pc'[u] = pc[u] /\ template'[u] = template[u]
    BY <1>1, <2>2
  <2> QED
    BY <2>1, <2>3, <2>4, <2>5, MergeFound
<1>6. ASSUME NEW t \in Threads, GiveUp(t) PROVE MergeInv'
  <2>1. /\ pc' = [pc EXCEPT ![t] = "idle"] /\ template' = [template EXCEPT ![t] = <<>>]
        /\ UNCHANGED blocks
    BY <1>6 DEF GiveUp, Goto
  <2> QED
    BY <1>1, <2>1, MergeRest
<1>7. ASSUME NEW t \in Threads, Step(t) PROVE MergeInv'
  <2>1. UNCHANGED <<blocks, template>>
    BY <1>7, Zenon DEF Step, Park, Refuse, PutGhostdag, PutBlock, PutHeader, PutTips, Select,
       DoReorganize, AfterReorganize, Rebuild, Resume, Finish, Scan, Drain, Return, db, locals
  <2>2. \A u \in Threads : pc'[u] \in {"pick", "search"} => pc'[u] = pc[u]
    BY <1>7, StepMines
  <2> QED
    BY <2>1, <2>2, MergeRest
<1>8. ASSUME NEW t \in Threads, SyncRound(t) \/ \E h \in Hash : Accept(t, h) PROVE MergeInv'
  <2>1. UNCHANGED <<blocks, template>>
    BY <1>8, Zenon DEF SyncRound, Accept, locals
  <2>2. \A u \in Threads : pc'[u] \in {"pick", "search"} => pc'[u] = pc[u]
    BY <1>1, <1>8 DEF SyncRound, Accept, Goto
  <2> QED
    BY <2>1, <2>2, MergeRest
<1>9. CASE \/ \E m \in DOMAIN Transfers : AcceptTx(m) \/ EvictTx(m)
           \/ \E on \in BOOLEAN : SetMining(on)
           \/ UNCHANGED vars
  <2>1. UNCHANGED <<blocks, template, pc>>
    BY <1>9, Zenon DEF AcceptTx, EvictTx, SetMining, vars, locals
  <2> QED
    BY <2>1, MergeRest
<1> QED
  BY <1>2, <1>3, <1>4, <1>5, <1>6, <1>7, <1>8, <1>9 DEF Next, Mine

\* The genesis block has no parents.
LEMMA InitMerge == Init => MergeInv
<1> SUFFICES ASSUME Init PROVE MergeInv
  OBVIOUS
<1>1. DOMAIN blocks = {Genesis} /\ blocks[Genesis] = GenesisBlock /\ pc = [t \in Threads |-> "idle"]
  <2>1. blocks = [h \in {Genesis} |-> GenesisBlock] /\ pc = [t \in Threads |-> "idle"]
    BY Zenon DEF Init
  <2> QED
    BY <2>1
<1>2. GenesisBlock.parents = <<>> /\ Range(<<>>) = {}
  BY DEF GenesisBlock, Range
<1> QED
  BY <1>1, <1>2 DEF MergeInv, TemplateUnrelated, Unrelated

----------------------------------------------------------------------------
(* The coins of a node                                                     *)

\* What the node knows of its selected chain between two blocks.
ChainKnown ==
  /\ Staged(blocks, gd, Genesis, store) /\ gd[Genesis].blues = {}
  /\ SelectedTip \in store /\ led = LedgerAt(SelectedTip)
  /\ ChainValid(blocks, gd, Genesis, store, SelectedTip)

\* The stored blocks, each with a first transaction.
LEMMA NodeStaged ==
  ASSUME IInv, ShapeInv, KinInv, BlocksTyped
  PROVE  Staged(blocks, gd, Genesis, store) /\ gd[Genesis].blues = {}
<1>1. /\ GdTree(gd, Genesis) /\ Typed(blocks, gd, store) /\ store \subseteq DOMAIN gd
  BY NodeTree
<1>2. gd[Genesis] = GenesisData /\ Genesis \in DOMAIN gd
  BY GenesisEntry
<1>3. ASSUME NEW h \in DOMAIN gd PROVE 1 \in DOMAIN blocks[h].txs /\ gd[h].blues \subseteq store
  <2>1. h \in DOMAIN blocks /\ gd[h].blues \subseteq store
    BY EntryFacts
  <2>2. CASE h = Genesis
    <3>1. blocks[h].txs = GenesisTxs
      BY <2>2 DEF KinInv, GenesisBlock
    <3>2. blocks[h].txs \in Seq(TxType)
      BY DEF BlocksTyped
    <3>3. blocks[h].txs # <<>>
      BY <3>1, GenesisAssumption
    <3>4. 1 \in DOMAIN blocks[h].txs
      BY <3>2, <3>3
    <3> QED
      BY <2>1, <3>4
  <2>3. CASE h # Genesis
    BY <2>1, <2>3 DEF KinInv, HeadOK
  <2> QED
    BY <2>2, <2>3
<1> QED
  BY <1>1, <1>2, <1>3 DEF Staged, GenesisData

\* Until a crash every block of the selected chain was validated where it
\* stands: it has its undo data.
LEMMA ChainIsKnown ==
  ASSUME IInv, ShapeInv, KinInv, LedgerIInv, BlocksTyped, crashes = 0, Quiet, ~failed
  PROVE  ChainKnown
<1>1. Staged(blocks, gd, Genesis, store) /\ gd[Genesis].blues = {}
  BY NodeStaged
<1>2. /\ GdTree(gd, Genesis) /\ Typed(blocks, gd, store) /\ store \subseteq DOMAIN gd
  BY <1>1 DEF Staged
<1>3. \A t \in Threads : pc[t] \notin Inserting
  BY DEF Quiet, Inserting
<1>4. UndosExact /\ Applied(SelectedTip)
  BY <1>3 DEF LedgerIInv, LedgerInv
<1>5. SelectedTip \in store /\ led = LedgerAt(SelectedTip)
  BY <1>4 DEF Applied
<1>6. ASSUME NEW i \in DOMAIN blocks[Genesis].txs PROVE blocks[Genesis].txs[i].inputs = <<>>
  BY GenesisAssumption DEF KinInv, GenesisBlock
<1>7. ASSUME NEW y \in Path(gd, SelectedTip) \ {Genesis}
      PROVE  /\ ValidateTransactions(Replay(gd[y].selected, blocks, gd, store), blocks[y])
             /\ blocks[y].txs[1].inputs = <<>>
  <2>1. y \in DOMAIN undos
    BY <1>4 DEF Applied, Path
  <2>2. ValidateTransactions(Replay(gd[y].selected, blocks, gd, store), blocks[y])
    BY <1>4, <2>1 DEF UndosExact, UndoOf
  <2>3. y \in DOMAIN blocks
    BY <1>2, <1>5, PathFacts DEF IInv, StoreTypeOK
  <2> QED
    BY <2>2, <2>3 DEF KinInv, HeadOK
<1>8. ChainValid(blocks, gd, Genesis, store, SelectedTip)
  BY <1>6, <1>7 DEF ChainValid
<1> QED
  BY <1>1, <1>5, <1>8 DEF ChainKnown

\* Then coinbases mature on it.
LEMMA KnownMatures ==
  ASSUME IInv, KinInv, ChainKnown, BlocksTyped,
         Distinct(blocks, Effects(blocks, gd, SelectedTip)),
         NEW h \in Chain, NEW c \in (Chain \cup Merged) \ {h, Genesis}, Spender(h, c)
  PROVE  blocks[h].score >= blocks[c].score + COINBASE_MATURITY
<1> DEFINE tip == SelectedTip
<1>1. Chain = Path(gd, tip) /\ Merged = PathMerges(gd, tip)
  BY DEF Chain, Merged, Path, PathMerges
<1>2. Staged(blocks, gd, Genesis, store) /\ tip \in DOMAIN gd /\ GdTree(gd, Genesis)
  BY DEF ChainKnown, Staged
<1>3. c \in DOMAIN gd /\ c \in DOMAIN blocks
  <2>1. Path(gd, tip) \subseteq DOMAIN gd
    BY <1>2, PathFacts
  <2>2. PathMerges(gd, tip) \subseteq DOMAIN gd
    BY <1>2, <2>1 DEF Staged, PathMerges
  <2> QED
    BY <1>1, <2>1, <2>2 DEF IInv, StoreTypeOK
<1>4. blocks[c].txs \in Seq(TxType) /\ 1 \in DOMAIN blocks[c].txs
  BY <1>2, <1>3 DEF BlocksTyped, Staged
<1>5. Head(blocks[c].txs) = blocks[c].txs[1] /\ blocks[c].txs[1].coinbase
  BY <1>3, <1>4 DEF KinInv, HeadOK
<1>6. PICK i \in DOMAIN blocks[h].txs :
        \E op \in Spends(blocks[h].txs[i]) : op \in OutPoints(blocks[c].txs[1])
  BY <1>5 DEF Spender
<1> HIDE DEF tip
<1>7. gd[Genesis].blues = {} /\ ChainValid(blocks, gd, Genesis, store, tip)
      /\ Distinct(blocks, Effects(blocks, gd, tip)) /\ c # h
  BY DEF ChainKnown, tip
<1> QED
  BY <1>1, <1>2, <1>5, <1>6, <1>7, ChainMatures

\* What the blocks know of their ancestors is true in every state.
LEMMA KinAlways == Spec => [](IInv /\ KinInv)
<1>1. IInv /\ KinInv /\ [Next]_vars => KinInv'
  BY NextKin
<1> QED
  BY <1>1, InitKin, StoreInvariant, PTL DEF Spec

----------------------------------------------------------------------------
(* What the chain of a node spends and mints                               *)

\* What process_block takes from the parents of a block.
LEMMA ParentsChosen ==
  ASSUME IInv, ShapeInv, NEW h \in DOMAIN gd \ {Genesis}
  PROVE  /\ gd[h].selected \in Range(blocks[h].parents)
         /\ gd[h].blues \subseteq Range(blocks[h].parents) \ {gd[h].selected}
         /\ Range(blocks[h].parents) \subseteq DOMAIN blocks
<1> DEFINE ps == blocks[h].parents
           d == ProcessBlock(ps, NetGd)
<1>1. h \in DOMAIN blocks /\ gd[h] = blocks[h].data
  BY EntryFacts
<1>2. d = gd[h] /\ Range(ps) \subseteq DOMAIN blocks /\ ps \in Seq(DOMAIN blocks) /\ ps # <<>>
  BY <1>1 DEF IInv, NetInv, ShapeInv, ListOf, HasParents
<1>3. /\ Range(ps) \subseteq DOMAIN NetGd
      /\ \A p \in Range(ps) : NetGd[p].score \in Nat /\ NetGd[p].work \in Nat
  BY <1>2 DEF NetGd, ShapeInv
<1>4. d.selected \in Range(ps) /\ d.blues \subseteq Range(ps)
  <2> HIDE DEF ps
  <2> QED
    BY <1>2, <1>3, ProcessFacts
<1>5. d.selected \notin d.blues
  <2> HIDE DEF ps
  <2> QED
    BY <1>2, SelectedNotBlue
<1> QED
  BY <1>2, <1>4, <1>5

\* They are ancestors of the block.
LEMMA ParentsInPast ==
  ASSUME IInv, ShapeInv, KinInv, NEW h \in DOMAIN gd \ {Genesis}
  PROVE  gd[h].selected \in blocks[h].past /\ gd[h].blues \subseteq blocks[h].past
<1>1. h \in DOMAIN blocks
  BY EntryFacts
<1>2. Range(blocks[h].parents) \subseteq blocks[h].past
  BY <1>1 DEF KinInv, PastOK, PastIn
<1> QED
  BY <1>2, ParentsChosen

\* The chain of a block, and what it has paid, are the block and ancestors.
LEMMA PathIsPast ==
  ASSUME IInv, ShapeInv, KinInv, NEW x \in DOMAIN gd
  PROVE  Path(gd, x) \cup PathMerges(gd, x) \subseteq {x} \cup blocks[x].past
<1> DEFINE P == {y \in DOMAIN gd : Path(gd, y) \cup PathMerges(gd, y) \subseteq {y} \cup blocks[y].past}
<1>1. GdTree(gd, Genesis) /\ gd[Genesis].blues = {}
  BY EntriesAreTree, GenesisEntry DEF GenesisData
<1>2. Genesis \in P
  <2>1. Path(gd, Genesis) = {Genesis}
    BY <1>1, PathRoot
  <2>2. PathMerges(gd, Genesis) = {}
    BY <1>1, <2>1 DEF PathMerges
  <2> QED
    BY <1>1, <2>1, <2>2 DEF GdTree
<1>3. ASSUME NEW h \in DOMAIN gd \ {Genesis}, gd[h].selected \in P PROVE h \in P
  <2> DEFINE s == gd[h].selected
  <2>1. /\ Path(gd, h) = {h} \cup Path(gd, s)
        /\ PathMerges(gd, h) = gd[h].blues \cup PathMerges(gd, s)
    BY <1>1, PathStep, MergesStep
  <2>2. s \in blocks[h].past /\ gd[h].blues \subseteq blocks[h].past
    BY ParentsInPast
  <2>3. blocks[s].past \subseteq blocks[h].past
    BY <2>2, EntryFacts DEF KinInv, PastOK
  <2> QED
    BY <1>3, <2>1, <2>2, <2>3
<1> HIDE DEF P
<1>4. DOMAIN gd \subseteq P
  BY <1>1, <1>2, <1>3, TreeInduction
<1> QED
  BY <1>4 DEF P

\* Nobody is paid twice on a chain: a block that is merged is no ancestor of the
\* selected parent.
LEMMA ChainsApart ==
  ASSUME IInv, ShapeInv, KinInv, MergeInv, NEW h \in DOMAIN gd \ {Genesis}
  PROVE  Apart(gd, h)
<1> DEFINE s == gd[h].selected
<1>1. /\ s \in Range(blocks[h].parents) /\ gd[h].blues \subseteq Range(blocks[h].parents) \ {s}
      /\ h \in DOMAIN blocks
  BY ParentsChosen, EntryFacts
<1>2. s \in DOMAIN gd /\ Path(gd, s) \cup PathMerges(gd, s) \subseteq {s} \cup blocks[s].past
  <2>1. s \in DOMAIN gd
    BY EntryFacts DEF IInv, StoreInv, GdStored
  <2> QED
    BY <2>1, PathIsPast
<1>3. {s} \cup blocks[s].past \subseteq blocks[h].past /\ h \notin blocks[h].past
  BY <1>1, ParentsInPast DEF KinInv, PastOK
<1>4. ASSUME NEW m \in gd[h].blues PROVE m \notin {s} \cup blocks[s].past
  BY <1>1 DEF MergeInv, Unrelated
<1> QED
  BY <1>2, <1>3, <1>4 DEF Apart

\* The selected chain of a node is sound.
LEMMA ChainIsSound ==
  ASSUME IInv, ShapeInv, KinInv, MergeInv, BlocksGood, ChainKnown
  PROVE  ChainSound(blocks, gd, Genesis, store, SelectedTip)
<1> DEFINE tip == SelectedTip
<1>1. World(blocks, gd, Genesis, store)
  BY NodeWorld
<1>2. /\ GdTree(gd, Genesis) /\ Staged(blocks, gd, Genesis, store) /\ gd[Genesis].blues = {}
      /\ tip \in store /\ tip \in DOMAIN gd /\ ChainValid(blocks, gd, Genesis, store, tip)
  BY DEF ChainKnown, Staged
<1> HIDE DEF tip
<1>3. Path(gd, tip) \subseteq store
  BY <1>1, <1>2, PathStored
<1>4. \A i, j \in DOMAIN blocks[Genesis].txs :
        i # j => OutPoints(blocks[Genesis].txs[i]) \cap OutPoints(blocks[Genesis].txs[j]) = {}
  <2>1. blocks[Genesis].txs = GenesisTxs
    BY DEF KinInv, GenesisBlock
  <2> QED
    BY <2>1, GenesisAssumption DEF OutPoints
<1>5. \A y \in Path(gd, tip) \ {Genesis} : Apart(gd, y)
  BY <1>2, ChainsApart, PathFacts
<1>6. ASSUME NEW m \in PathMerges(gd, tip)
      PROVE  m # Genesis /\ blocks[m].txs[1].coinbase /\ blocks[m].txs[1].inputs = <<>>
  <2>1. PICK h \in Path(gd, tip) : m \in gd[h].blues
    BY DEF PathMerges
  <2>2. h # Genesis /\ h \in DOMAIN gd
    BY <1>2, <2>1, PathFacts
  <2>3. m # Genesis
    <3>1. m \notin Path(gd, gd[h].selected)
      BY <2>1, <2>2, ChainsApart DEF Apart
    <3>2. Genesis \in Path(gd, gd[h].selected)
      BY <1>2, <2>2, PathStep, PathFacts
    <3> QED
      BY <3>1, <3>2
  <2>4. m \in DOMAIN blocks
    BY <2>1, <2>2, ParentsChosen
  <2> QED
    BY <2>3, <2>4 DEF KinInv, HeadOK
<1>7. ChainSound(blocks, gd, Genesis, store, tip)
  BY <1>1, <1>2, <1>3, <1>4, <1>5, <1>6 DEF ChainSound
<1> QED
  BY <1>7 DEF tip

\* The root is paid by nobody.
LEMMA GenesisNotMerged ==
  ASSUME IInv, ShapeInv, KinInv, MergeInv, ChainKnown
  PROVE  Genesis \notin PathMerges(gd, SelectedTip)
<1>1. /\ GdTree(gd, Genesis) /\ gd[Genesis].blues = {} /\ SelectedTip \in DOMAIN gd
  BY DEF ChainKnown, Staged
<1>2. SUFFICES ASSUME NEW h \in Path(gd, SelectedTip), Genesis \in gd[h].blues PROVE FALSE
  BY DEF PathMerges
<1>3. h # Genesis /\ h \in DOMAIN gd
  BY <1>1, <1>2, PathFacts
<1>4. Genesis \notin Path(gd, gd[h].selected)
  BY <1>2, <1>3, ChainsApart DEF Apart
<1>5. Genesis \in Path(gd, gd[h].selected)
  BY <1>1, <1>3, PathStep, PathFacts
<1> QED
  BY <1>4, <1>5

\* So the UTXO set is what the chain has created and not spent.
LEMMA KnownExact ==
  ASSUME IInv, ShapeInv, KinInv, MergeInv, BlocksGood, ChainKnown,
         Distinct(blocks, Effects(blocks, gd, SelectedTip))
  PROVE  DOMAIN led.utxo = (UNION {OutPoints(tx) : tx \in ChainTxs})
                           \ (UNION {Spends(tx) : tx \in ChainTxs})
<1> DEFINE tip == SelectedTip
           E == Effects(blocks, gd, tip)
           O == UNION {OutPoints(tx) : tx \in ChainTxs}
           S == UNION {Spends(tx) : tx \in ChainTxs}
<1>1. Chain = Path(gd, tip) /\ Merged = PathMerges(gd, tip)
  BY DEF Chain, Merged, Path, PathMerges
<1>2. tip \in DOMAIN gd /\ Staged(blocks, gd, Genesis, store) /\ GdTree(gd, Genesis)
      /\ led = Replay(tip, blocks, gd, store)
  BY DEF ChainKnown, Staged, LedgerAt
<1>3. Genesis \notin PathMerges(gd, tip)
  BY GenesisNotMerged
<1>4. ChainSound(blocks, gd, Genesis, store, tip)
  BY ChainIsSound
<1>5. DOMAIN led.utxo = Creates(blocks, E) \ Consumes(blocks, E)
  <2>1. Distinct(blocks, Effects(blocks, gd, tip))
    OBVIOUS
  <2> HIDE DEF tip
  <2> QED
    BY <1>2, <1>4, <2>1, ChainExact DEF Exact
<1>6. \A h \in Path(gd, tip) : DOMAIN blocks[h].txs \subseteq Nat
  <2>1. TAKE h \in Path(gd, tip)
  <2>2. h \in DOMAIN gd
    BY <1>2, PathFacts
  <2>3. blocks[h].txs \in Seq(TxType)
    BY <2>2 DEF BlocksGood, BlocksTyped
  <2> QED
    BY <2>3
<1>7. \A m \in PathMerges(gd, tip) : Head(blocks[m].txs) = blocks[m].txs[1]
  <2>1. TAKE m \in PathMerges(gd, tip)
  <2>2. PICK h \in Path(gd, tip) : m \in gd[h].blues
    BY DEF PathMerges
  <2>3. h \in DOMAIN gd
    BY <1>2, PathFacts
  <2> QED
    BY <1>2, <2>2, <2>3, StagedMerges
<1> HIDE DEF tip
<1>8. \A tx : tx \in ChainTxs <=> \/ \E h \in Chain : tx \in Range(blocks[h].txs)
                                  \/ \E m \in Merged \ {Genesis} : tx = Head(blocks[m].txs)
  <2> DEFINE A == UNION {Range(blocks[h].txs) : h \in Chain}
             B == {Head(blocks[m].txs) : m \in Merged \ {Genesis}}
  <2>1. ChainTxs = A \cup B
    BY DEF ChainTxs
  <2>2. \A tx : tx \in A <=> \E h \in Chain : tx \in Range(blocks[h].txs)
    BY Zenon
  <2>3. \A tx : tx \in B <=> \E m \in Merged \ {Genesis} : tx = Head(blocks[m].txs)
    BY Zenon
  <2> HIDE DEF A, B
  <2> QED
    BY <2>1, <2>2, <2>3
<1>9. \A e \in E : TxOf(blocks, e) \in ChainTxs
  <2>1. TAKE e \in E
  <2>2. CASE e[1] \in Path(gd, tip) /\ e[2] \in DOMAIN blocks[e[1]].txs
    <3>1. TxOf(blocks, e) \in Range(blocks[e[1]].txs)
      BY <2>2 DEF TxOf, Range
    <3> QED
      BY <1>1, <1>8, <2>2, <3>1
  <2>3. CASE e[1] \in PathMerges(gd, tip) /\ e[2] = 1
    <3>1. TxOf(blocks, e) = Head(blocks[e[1]].txs) /\ e[1] # Genesis
      BY <1>3, <1>7, <2>3 DEF TxOf
    <3> QED
      BY <1>1, <1>8, <2>3, <3>1
  <2> QED
    BY <2>2, <2>3 DEF Effects
<1>10. \A tx \in ChainTxs : \E e \in E : tx = TxOf(blocks, e)
  <2>1. TAKE tx \in ChainTxs
  <2>2. CASE \E h \in Chain : tx \in Range(blocks[h].txs)
    <3>1. PICK h \in Path(gd, tip) : tx \in Range(blocks[h].txs)
      BY <1>1, <2>2
    <3>2. PICK i \in DOMAIN blocks[h].txs : tx = blocks[h].txs[i]
      BY <3>1 DEF Range
    <3>3. <<h, i>> \in E /\ TxOf(blocks, <<h, i>>) = tx
      BY <1>6, <3>1, <3>2 DEF Effects, TxOf
    <3> QED
      BY <3>3
  <2>3. CASE \E m \in Merged \ {Genesis} : tx = Head(blocks[m].txs)
    <3>1. PICK m \in PathMerges(gd, tip) : tx = Head(blocks[m].txs)
      BY <1>1, <2>3
    <3>2. <<m, 1>> \in E /\ TxOf(blocks, <<m, 1>>) = tx
      BY <1>7, <3>1 DEF Effects, TxOf
    <3> QED
      BY <3>2
  <2> QED
    BY <1>8, <2>2, <2>3
<1> HIDE DEF E
<1>11. Creates(blocks, E) = O
  BY <1>9, <1>10, Zenon DEF Creates
<1>12. Consumes(blocks, E) = S
  BY <1>9, <1>10, Zenon DEF Consumes
<1> HIDE DEF O, S
<1>13. DOMAIN led.utxo = O \ S
  BY <1>5, <1>11, <1>12
<1> QED
  BY <1>13 DEF O, S

----------------------------------------------------------------------------
(* The sums of NoExtraCoins are the sums of the ledger                     *)

\* The outputs of a set of transactions.
LEMMA OutputSum ==
  ASSUME NEW S, NEW f, \A x \in S : f[x] = TotalOutput(x)
  PROVE  MapThenSumSet(TotalOutput, S) = SumFunctionOnSet(f, S)
<1> DEFINE T(h) == h = [s \in SUBSET S |-> IF s = {} THEN 0
                                          ELSE TotalOutput(AnyOf(s)) + h[s \ {AnyOf(s)}]]
<1>1. MapThenSumSet(TotalOutput, S) = (CHOOSE h : T(h))[S]
  BY DEF MapThenSumSet, MapThenFoldSet, AnyOf
<1>2. SumFunctionOnSet(f, S) = (CHOOSE h : SumTable(f, S, h))[S]
  BY SumIsChosen
<1>3. ASSUME NEW h PROVE T(h) <=> SumTable(f, S, h)
  <2>1. \A s \in SUBSET S : s # {} => f[AnyOf(s)] = TotalOutput(AnyOf(s))
    BY AnyOfIn
  <2>2. [s \in SUBSET S |-> IF s = {} THEN 0 ELSE TotalOutput(AnyOf(s)) + h[s \ {AnyOf(s)}]]
          = [s \in SUBSET S |-> SumStepOf(f, h, s)]
    BY <2>1 DEF SumStepOf
  <2> QED
    BY <2>2 DEF SumTable
<1> HIDE DEF T
<1>4. (CHOOSE h : T(h)) = (CHOOSE h : SumTable(f, S, h))
  BY <1>3
<1> QED
  BY <1>1, <1>2, <1>4

\* The rewards of a set of blocks.
LEMMA RewardSum ==
  ASSUME NEW S, NEW f, \A x \in S : f[x] = Reward(x)
  PROVE  MapThenSumSet(Reward, S) = SumFunctionOnSet(f, S)
<1> DEFINE T(h) == h = [s \in SUBSET S |-> IF s = {} THEN 0
                                          ELSE Reward(AnyOf(s)) + h[s \ {AnyOf(s)}]]
<1>1. MapThenSumSet(Reward, S) = (CHOOSE h : T(h))[S]
  BY DEF MapThenSumSet, MapThenFoldSet, AnyOf
<1>2. SumFunctionOnSet(f, S) = (CHOOSE h : SumTable(f, S, h))[S]
  BY SumIsChosen
<1>3. ASSUME NEW h PROVE T(h) <=> SumTable(f, S, h)
  <2>1. \A s \in SUBSET S : s # {} => f[AnyOf(s)] = Reward(AnyOf(s))
    BY AnyOfIn
  <2>2. [s \in SUBSET S |-> IF s = {} THEN 0 ELSE Reward(AnyOf(s)) + h[s \ {AnyOf(s)}]]
          = [s \in SUBSET S |-> SumStepOf(f, h, s)]
    BY <2>1 DEF SumStepOf
  <2> QED
    BY <2>2 DEF SumTable
<1> HIDE DEF T
<1>4. (CHOOSE h : T(h)) = (CHOOSE h : SumTable(f, S, h))
  BY <1>3
<1> QED
  BY <1>1, <1>2, <1>4

\* The subsidies of a set of blocks.
LEMMA SubsidySum ==
  ASSUME NEW S, NEW f, \A x \in S : f[x] = BlockReward(Schedule, blocks[x].score)
  PROVE  MapThenSumSet(LAMBDA h : BlockReward(Schedule, blocks[h].score), S) = SumFunctionOnSet(f, S)
<1> DEFINE T(h) == h = [s \in SUBSET S |-> IF s = {} THEN 0
                                          ELSE BlockReward(Schedule, blocks[AnyOf(s)].score) + h[s \ {AnyOf(s)}]]
<1>1. MapThenSumSet(LAMBDA h : BlockReward(Schedule, blocks[h].score), S) = (CHOOSE h : T(h))[S]
  BY DEF MapThenSumSet, MapThenFoldSet, AnyOf
<1>2. SumFunctionOnSet(f, S) = (CHOOSE h : SumTable(f, S, h))[S]
  BY SumIsChosen
<1>3. ASSUME NEW h PROVE T(h) <=> SumTable(f, S, h)
  <2>1. \A s \in SUBSET S : s # {} => f[AnyOf(s)] = BlockReward(Schedule, blocks[AnyOf(s)].score)
    BY AnyOfIn
  <2>2. [s \in SUBSET S |-> IF s = {} THEN 0 ELSE BlockReward(Schedule, blocks[AnyOf(s)].score) + h[s \ {AnyOf(s)}]]
          = [s \in SUBSET S |-> SumStepOf(f, h, s)]
    BY <2>1 DEF SumStepOf
  <2> QED
    BY <2>2 DEF SumTable
<1> HIDE DEF T
<1>4. (CHOOSE h : T(h)) = (CHOOSE h : SumTable(f, S, h))
  BY <1>3
<1> QED
  BY <1>1, <1>2, <1>4

\* What genesis brings.
LEMMA GenesisBrings ==
  ASSUME KinInv, blocks[Genesis].txs \in Seq(TxType)
  PROVE  GenesisCoins \in Nat /\ RootBrings(blocks, Genesis, GenesisCoins)
<1> DEFINE D == DOMAIN GenesisTxs
           R == Range(GenesisTxs)
           f == [i \in D |-> TotalOutput(GenesisTxs[i])]
           g == [tx \in R |-> TotalOutput(tx)]
<1>1. blocks[Genesis].txs = GenesisTxs /\ GenesisTxs \in Seq(TxType)
  BY DEF KinInv, GenesisBlock
<1>2. IsFiniteSet(D)
  <2>1. D = 1..Len(GenesisTxs) /\ Len(GenesisTxs) \in Nat
    BY <1>1
  <2> HIDE DEF D
  <2> QED
    BY <2>1, FS_Interval
<1>3. R = {GenesisTxs[i] : i \in D}
  BY DEF Range
<1>4. \A x, y \in D : GenesisTxs[x] = GenesisTxs[y] => x = y
  BY GenesisAssumption
<1>5. \A i \in D : f[i] \in Nat /\ g[GenesisTxs[i]] = f[i]
  <2>1. TAKE i \in D
  <2>2. GenesisTxs[i] \in TxType /\ GenesisTxs[i] \in R
    BY <1>1, <1>3
  <2>3. TotalOutput(GenesisTxs[i]) \in Nat
    BY <2>2, BurnNat
  <2> QED
    BY <2>2, <2>3
<1>6. GenesisCoins = SumFunctionOnSet(g, R)
  <2>1. \A tx \in R : g[tx] = TotalOutput(tx)
    OBVIOUS
  <2> HIDE DEF g, R
  <2>2. MapThenSumSet(TotalOutput, R) = SumFunctionOnSet(g, R)
    BY <2>1, OutputSum
  <2> QED
    BY <2>2 DEF GenesisCoins, R
<1>7. \A i \in D : f[i] = TotalOutput(GenesisTxs[i])
  OBVIOUS
<1> HIDE DEF f, g, R
<1>8. SumFunctionOnSet(g, R) = SumFunctionOnSet(f, D)
  <2> HIDE DEF D
  <2>1. SumFunctionOnSet(g, {GenesisTxs[i] : i \in D}) = SumFunctionOnSet(f, D)
    BY <1>2, <1>4, <1>5, SumImage
  <2> QED
    BY <1>3, <2>1
<1>9. SumFunctionOnSet(f, D) \in Nat
  <2> HIDE DEF D
  <2> QED
    BY <1>2, <1>5, SumNat
<1>10. GenesisCoins \in Nat /\ GenesisCoins = SumFunctionOnSet(f, D)
  BY <1>6, <1>8, <1>9
<1> QED
  BY <1>1, <1>7, <1>10 DEF RootBrings

\* So the coins are bounded by what genesis, the subsidies and the merges brought.
LEMMA KnownBounded ==
  ASSUME IInv, ShapeInv, KinInv, MergeInv, BlocksGood, ChainKnown
  PROVE  Coins <= GenesisCoins
                  + MapThenSumSet(LAMBDA h : BlockReward(Schedule, blocks[h].score), Chain \ {Genesis})
                  + MapThenSumSet(Reward, Merged \ {Genesis})
<1> DEFINE tip == SelectedTip
           A == Path(gd, tip) \ {Genesis}
           B == PathMerges(gd, tip)
           fr == [h \in A |-> BlockReward(Schedule, blocks[h].score)]
           fm == [m \in B |-> Reward(m)]
<1>1. Chain \ {Genesis} = A /\ Merged \ {Genesis} = B
  <2>1. Genesis \notin B
    BY GenesisNotMerged
  <2> QED
    BY <2>1 DEF Chain, Merged, Path, PathMerges
<1>2. tip \in DOMAIN gd /\ Genesis \in DOMAIN gd /\ led = Replay(tip, blocks, gd, store)
  BY DEF ChainKnown, Staged, LedgerAt, GdTree
<1>3. ChainSound(blocks, gd, Genesis, store, tip)
  BY ChainIsSound
<1>4. GenesisCoins \in Nat /\ RootBrings(blocks, Genesis, GenesisCoins)
  BY <1>2, GenesisBrings DEF BlocksGood, BlocksTyped
<1>5. Paying(blocks, gd, Genesis, tip, fr, fm)
  BY DEF Paying, Reward, RewardValue
<1>6. SumFunctionOnSet(fr, A)
        = MapThenSumSet(LAMBDA h : BlockReward(Schedule, blocks[h].score), A)
  <2>1. \A x \in A : fr[x] = BlockReward(Schedule, blocks[x].score)
    OBVIOUS
  <2> HIDE DEF A, fr
  <2> QED
    BY <2>1, SubsidySum
<1>7. SumFunctionOnSet(fm, B) = MapThenSumSet(Reward, B)
  <2>1. \A x \in B : fm[x] = Reward(x)
    OBVIOUS
  <2> HIDE DEF B, fm
  <2> QED
    BY <2>1, RewardSum
<1> HIDE DEF tip, fr, fm
<1>8. Bounded(blocks, gd, Genesis, store, tip, GenesisCoins, fr, fm)
  BY <1>2, <1>3, <1>4, <1>5, ChainBounded
<1>9. ValueOf(led) <= GenesisCoins + SumFunctionOnSet(fr, A) + SumFunctionOnSet(fm, B)
  BY <1>2, <1>8 DEF Bounded
<1>10. Coins = ValueOf(led)
  BY DEF Coins, ValueOf, Holdings, Amounts, SumFunction
<1> HIDE DEF A, B
<1> QED
  BY <1>1, <1>6, <1>7, <1>9, <1>10

\* Only a crash counts as one.
LEMMA CrashesCount ==
  ASSUME [Next]_vars
  PROVE  UNCHANGED crashes \/ (crashes' = crashes + 1 /\ Crash)
<1>1. ASSUME NEW t \in Threads,
             Step(t) \/ (\E h \in Hash : Accept(t, h)) \/ SyncRound(t) \/ Mine(t)
      PROVE  UNCHANGED crashes
  BY <1>1 DEF Step, Park, Refuse, PutGhostdag, PutBlock, PutHeader, PutTips, Select,
              DoReorganize, Rebuild, Resume, Finish, Scan, Drain, Accept, SyncRound,
              Mine, StartTemplate, FillTemplate, Find, GiveUp
<1>2. CASE PeerFinds \/ (\E m \in DOMAIN Transfers : AcceptTx(m) \/ EvictTx(m))
           \/ (\E on \in BOOLEAN : SetMining(on)) \/ UNCHANGED vars
  BY <1>2 DEF PeerFinds, AcceptTx, EvictTx, SetMining, vars, db, mem, locals
<1>3. CASE Crash
  BY <1>3 DEF Crash
<1> QED
  BY <1>1, <1>2, <1>3 DEF Next

\* Until a crash nobody merges a block and an ancestor of it.
LEMMA MergesUnrelated ==
  ASSUME OneThread
  PROVE  Spec => [](IInv /\ KinInv /\ (crashes = 0 => MergeInv))
<1>1. Init => TipsIInv /\ MergeInv
  BY InitTips, InitMerge
<1>2. IInv /\ TipsIInv /\ [Next]_vars => TipsIInv'
  BY NextTips
<1>3. IInv /\ KinInv /\ TipsIInv /\ (crashes = 0 => MergeInv) /\ [Next]_vars
        => (crashes = 0 => MergeInv)'
  <2>1. SUFFICES ASSUME IInv, KinInv, TipsIInv, crashes = 0 => MergeInv, [Next]_vars, crashes' = 0
                 PROVE  MergeInv'
    OBVIOUS
  <2>2. crashes \in Nat
    BY <2>1 DEF TipsIInv
  <2>3. crashes = 0 /\ ~Crash
    <3>1. crashes' # crashes + 1
      BY <2>1, <2>2
    <3>2. ~Crash
      BY <3>1 DEF Crash
    <3> QED
      BY <2>1, <3>1, <3>2, CrashesCount
  <2> QED
    BY <2>1, <2>3, NextMerge DEF TipsIInv
<1> QED
  BY <1>1, <1>2, <1>3, KinAlways, PTL DEF Spec

----------------------------------------------------------------------------
(* Ids that do not collide                                                 *)

\* The blocks are of the types of the code, and on the chain of no stored block
\* do two transactions, paid coinbases included, share an id: ids are hashes of
\* what a transaction says, and every coinbase says something else.
IdsUnique ==
  /\ BlocksTyped
  /\ \A h \in store : OneName(blocks, Effects(blocks, gd, h))

\* What is known of the chain of a stored block.
LEMMA StoredIsNamed ==
  ASSUME IInv, ShapeInv, KinInv, MergeInv, IdsUnique, NEW h \in store
  PROVE  h \in DOMAIN gd /\ Named(blocks, gd, Genesis, store, h)
<1>1. Staged(blocks, gd, Genesis, store) /\ gd[Genesis].blues = {}
  BY NodeStaged DEF IdsUnique
<1>2. GdTree(gd, Genesis) /\ h \in DOMAIN gd /\ Path(gd, h) \subseteq DOMAIN gd
  <2>1. GdTree(gd, Genesis) /\ h \in DOMAIN gd
    BY <1>1 DEF Staged
  <2> QED
    BY <2>1, PathFacts
<1>3. ASSUME NEW y \in Path(gd, h) \ {Genesis}
      PROVE  Apart(gd, y) /\ y \notin gd[y].blues /\ MergeHeads(blocks, gd[y].blues)
  <2>1. y \in DOMAIN gd \ {Genesis} /\ y \in DOMAIN blocks
    BY <1>2, EntryFacts
  <2>2. Apart(gd, y)
    BY <2>1, ChainsApart
  <2>3. y \notin gd[y].blues
    BY <2>1, ParentsInPast DEF KinInv
  <2>4. ASSUME NEW m \in gd[y].blues
        PROVE  /\ blocks[m].txs # <<>> /\ Head(blocks[m].txs) = blocks[m].txs[1]
               /\ blocks[m].txs[1].coinbase /\ blocks[m].txs[1].inputs = <<>>
    <3>1. m \in DOMAIN blocks
      BY <2>1, ParentsChosen
    <3>2. m # Genesis
      <4>1. m \notin Path(gd, gd[y].selected)
        BY <2>2 DEF Apart
      <4>2. gd[y].selected \in DOMAIN gd
        BY <1>2, <2>1 DEF GdTree
      <4>3. Genesis \in Path(gd, gd[y].selected)
        BY <1>2, <4>2, PathFacts
      <4> QED
        BY <4>1, <4>3
    <3>3. blocks[m].txs # <<>> /\ Head(blocks[m].txs) = blocks[m].txs[1]
      BY <1>1, <2>1, StagedMerges
    <3> QED
      BY <3>1, <3>2, <3>3 DEF KinInv, HeadOK
  <2>5. MergeHeads(blocks, gd[y].blues)
    BY <2>4 DEF MergeHeads
  <2> QED
    BY <2>2, <2>3, <2>5
<1> QED
  BY <1>1, <1>2, <1>3 DEF Named, IdsUnique

\* Then every block that its chain accepts can be connected there.
LEMMA NamesAreGood ==
  ASSUME IInv, ShapeInv, KinInv, MergeInv, IdsUnique
  PROVE  BlocksGood
<1>1. ASSUME NEW h \in store \ {Genesis},
             ValidateTransactions(LedgerAt(gd[h].selected), blocks[h])
      PROVE  Connectable(LedgerAt(gd[h].selected), h, blocks, gd, store)
  <2>1. h \in DOMAIN gd /\ Named(blocks, gd, Genesis, store, h)
    BY StoredIsNamed
  <2>2. h \in DOMAIN blocks \ {Genesis}
    BY <2>1, EntryFacts
  <2>3. blocks[h].txs[1].inputs = <<>> /\ 1 \in DOMAIN blocks[h].txs
    BY <2>2 DEF KinInv, HeadOK
  <2>4. blocks[h].txs \in Seq(TxType)
    BY <2>1 DEF IdsUnique, BlocksTyped
  <2>5. Head(blocks[h].txs) = blocks[h].txs[1]
    BY <2>3, <2>4
  <2>6. ValidateTransactions(Replay(gd[h].selected, blocks, gd, store), blocks[h])
    BY <1>1 DEF LedgerAt
  <2> QED
    BY <2>1, <2>3, <2>5, <2>6, NamesConnect DEF LedgerAt
<1> QED
  BY <1>1 DEF BlocksGood, IdsUnique

\* And the chain of the selected tip takes no transfer twice.
LEMMA KnownDistinct ==
  ASSUME IInv, ShapeInv, KinInv, MergeInv, IdsUnique, ChainKnown
  PROVE  Distinct(blocks, Effects(blocks, gd, SelectedTip))
<1> DEFINE tip == SelectedTip
<1>1. tip \in store /\ ChainValid(blocks, gd, Genesis, store, tip)
  BY DEF ChainKnown
<1> HIDE DEF tip
<1>2. tip \in DOMAIN gd /\ Named(blocks, gd, Genesis, store, tip)
  BY <1>1, StoredIsNamed
<1>3. Distinct(blocks, Effects(blocks, gd, tip))
  BY <1>1, <1>2, NamesDistinct
<1> QED
  BY <1>3 DEF tip

\* What holds of a node until it crashes.
Uncrashed == ShapeInv /\ KinInv /\ MergeInv /\ LedgerIInv

\* It holds of every node until then, provided ids do not collide.
LEMMA UncrashedInvariant ==
  ASSUME OneThread
  PROVE  Spec /\ []IdsUnique => [](IInv /\ IdsUnique /\ (crashes = 0 => Uncrashed))
<1> DEFINE Before == crashes = 0
           Counted == crashes \in Nat
<1>1. IInv /\ Init => ShapeInv /\ Counted /\ LedgerIInv
  BY InitShape, InitLedger DEF LedgerIInv
<1>2. IInv /\ ShapeInv /\ [Next]_vars => ShapeInv'
  BY NextShape
<1>3. Counted /\ [Next]_vars => Counted' /\ (Before' => Before)
  <2> SUFFICES ASSUME crashes \in Nat, [Next]_vars
               PROVE  crashes' \in Nat /\ (crashes' = 0 => crashes = 0)
    OBVIOUS
  <2>1. crashes' = crashes \/ crashes' = crashes + 1
    BY CrashesCount
  <2> QED
    BY <2>1
<1>4. /\ IInv /\ ShapeInv /\ IInv' /\ ShapeInv' /\ KinInv /\ MergeInv
      /\ LedgerIInv /\ IdsUnique /\ [Next]_vars
      => LedgerIInv'
  <2>1. SUFFICES ASSUME IInv, ShapeInv, IInv', ShapeInv', KinInv, MergeInv, LedgerIInv,
                        IdsUnique, [Next]_vars
                 PROVE  LedgerIInv'
    OBVIOUS
  <2>2. BlocksGood
    BY <2>1, NamesAreGood
  <2> QED
    BY <2>1, <2>2, NextLedger
<1>5. ShapeInv /\ KinInv /\ MergeInv /\ LedgerIInv => Uncrashed
  BY DEF Uncrashed
<1>6. Spec => []KinInv /\ [](Before => MergeInv)
  BY MergesUnrelated
<1>7. (Before => Uncrashed) => (crashes = 0 => Uncrashed)
  OBVIOUS
<1> HIDE DEF Before, Counted
<1>8. Spec /\ []IdsUnique => [](IInv /\ IdsUnique /\ (Before => Uncrashed))
  BY <1>1, <1>2, <1>3, <1>4, <1>5, <1>6, StoreInvariant, PTL DEF Spec
<1> QED
  BY <1>7, <1>8, PTL

\* What follows for the blocks, and for the chain between two blocks.
LEMMA UncrashedChain ==
  ASSUME IInv, IdsUnique, Uncrashed
  PROVE  /\ BlocksGood
         /\ crashes = 0 /\ Quiet /\ ~failed =>
              ChainKnown /\ Distinct(blocks, Effects(blocks, gd, SelectedTip))
<1>1. ShapeInv /\ KinInv /\ MergeInv /\ LedgerIInv /\ BlocksTyped
  BY DEF Uncrashed, IdsUnique
<1>2. BlocksGood
  BY <1>1, NamesAreGood
<1>3. ASSUME crashes = 0, Quiet, ~failed
      PROVE  ChainKnown /\ Distinct(blocks, Effects(blocks, gd, SelectedTip))
  <2>1. ChainKnown
    BY <1>1, <1>3, ChainIsKnown
  <2> QED
    BY <1>1, <2>1, KnownDistinct
<1> QED
  BY <1>2, <1>3

\* Until a crash, nothing is asked of the blocks but that ids do not collide:
\* the UTXO set is the one a restart would replay, and a reorganize that fails
\* leaves it as it was.
THEOREM LedgerUntilCrash ==
  ASSUME OneThread
  PROVE  Spec /\ []IdsUnique => /\ [](crashes = 0 => LedgerFollowsTip)
                                /\ [][crashes = 0 /\ ~failed /\ failed' => led' = led]_vars
<1>1. LedgerIInv => LedgerFollowsTip
  BY LedgerAgrees
<1>2. Uncrashed => LedgerIInv /\ ShapeInv
  BY DEF Uncrashed
<1>3. IInv /\ IdsUnique /\ (crashes = 0 => Uncrashed) /\ IInv' /\ ShapeInv' /\ [Next]_vars
        => [crashes = 0 /\ ~failed /\ failed' => led' = led]_vars
  BY <1>2, UncrashedChain, NextLedger
<1>4. IInv /\ ShapeInv /\ [Next]_vars => ShapeInv'
  BY NextShape
<1>5. Spec => []ShapeInv
  BY <1>4, InitShape, StoreInvariant, PTL DEF Spec
<1> QED
  BY <1>1, <1>2, <1>3, <1>5, UncrashedInvariant, PTL DEF Spec

\* Until a crash a reorganize fails only where a stored block is to blame that
\* its own chain refuses: the undo data of every block that has to be
\* disconnected is there, and no order of the blocks makes a valid one fail.
THEOREM FailureHasCulprit ==
  ASSUME OneThread
  PROVE  Spec /\ []IdsUnique => [](crashes = 0 => ReorgSucceeds)
<1>1. Uncrashed => (crashes = 0 => ReorgSucceeds)
  BY DEF Uncrashed, LedgerIInv, BlameInv, ReorgSucceeds
<1> QED
  BY <1>1, UncrashedInvariant, PTL

\* Coinbases mature: until a crash, no transaction of the selected chain, found
\* by a peer or by the own worker, from the mempool or not, spends the coinbase
\* of another block, paid on the chain or merged, before it has aged
\* COINBASE_MATURITY blocks.
THEOREM CoinbasesMature ==
  ASSUME OneThread
  PROVE  Spec /\ []IdsUnique => [](crashes = 0 => MaturityKept)
<1>1. IInv /\ IdsUnique /\ (crashes = 0 => Uncrashed) => (crashes = 0 => MaturityKept)
  <2>1. SUFFICES ASSUME IInv, IdsUnique, Uncrashed, crashes = 0, Quiet, ~failed
                 PROVE  \A h \in Chain : \A c \in (Chain \cup Merged) \ {h, Genesis} :
                          Spender(h, c) => blocks[h].score >= blocks[c].score + COINBASE_MATURITY
    BY DEF MaturityKept
  <2>2. ChainKnown /\ Distinct(blocks, Effects(blocks, gd, SelectedTip))
    BY <2>1, UncrashedChain
  <2>3. KinInv /\ BlocksTyped
    BY <2>1 DEF Uncrashed, IdsUnique
  <2> QED
    BY <2>1, <2>2, <2>3, KnownMatures
<1> QED
  BY <1>1, UncrashedInvariant, PTL

\* No coin is lost, and none is spent twice: until a crash, whatever blocks have
\* been connected and disconnected on the way, the unspent outputs of a node
\* are the outputs of the transactions of its selected chain, and of the
\* coinbases it has merged, less what these transactions spend.
THEOREM CoinsSpentExactly ==
  ASSUME OneThread
  PROVE  Spec /\ []IdsUnique => [](crashes = 0 => SpentExactly)
<1>1. IInv /\ IdsUnique /\ (crashes = 0 => Uncrashed) => (crashes = 0 => SpentExactly)
  <2>1. SUFFICES ASSUME IInv, IdsUnique, Uncrashed, crashes = 0, Quiet, ~failed
                 PROVE  DOMAIN led.utxo = (UNION {OutPoints(tx) : tx \in ChainTxs})
                                          \ (UNION {Spends(tx) : tx \in ChainTxs})
    BY DEF SpentExactly
  <2>2. BlocksGood /\ ChainKnown /\ Distinct(blocks, Effects(blocks, gd, SelectedTip))
    BY <2>1, UncrashedChain
  <2>3. ShapeInv /\ KinInv /\ MergeInv
    BY <2>1 DEF Uncrashed
  <2> QED
    BY <2>1, <2>2, <2>3, KnownExact
<1> QED
  BY <1>1, UncrashedInvariant, PTL

\* No coin comes from nothing: until a crash, what a node holds and has burned
\* is at most what genesis brought, the subsidies of the blocks of its selected
\* chain and the rewards of the blocks it has merged, none of them paid twice.
THEOREM CoinsBounded ==
  ASSUME OneThread
  PROVE  Spec /\ []IdsUnique => [](crashes = 0 => NoExtraCoins)
<1>1. IInv /\ IdsUnique /\ (crashes = 0 => Uncrashed) => (crashes = 0 => NoExtraCoins)
  <2>1. SUFFICES ASSUME IInv, IdsUnique, Uncrashed, crashes = 0, Quiet, ~failed
                 PROVE  Coins <= GenesisCoins
                          + MapThenSumSet(LAMBDA h : BlockReward(Schedule, blocks[h].score), Chain \ {Genesis})
                          + MapThenSumSet(Reward, Merged \ {Genesis})
    BY DEF NoExtraCoins
  <2>2. BlocksGood /\ ChainKnown
    BY <2>1, UncrashedChain
  <2>3. ShapeInv /\ KinInv /\ MergeInv
    BY <2>1 DEF Uncrashed
  <2> QED
    BY <2>1, <2>2, <2>3, KnownBounded
<1> QED
  BY <1>1, UncrashedInvariant, PTL

----------------------------------------------------------------------------
(* The blocks of the worker                                                *)

\* No transfer names one output twice.
InputsOnce(tx) ==
  \A k, l \in DOMAIN tx.inputs : tx.inputs[k].op = tx.inputs[l].op => k = l

TransfersPlain ==
  /\ \E n \in Nat : DOMAIN Transfers = 1..n
  /\ \A m \in DOMAIN Transfers : InputsOnce(Transfers[m])

\* The transfers of a template can be in one block.
BodyFits(body) ==
  /\ \A i \in DOMAIN body : ~Transfers[body[i]].coinbase /\ Transfers[body[i]].signed
  /\ \A i, j \in DOMAIN body :
       Spends(Transfers[body[i]]) \cap Spends(Transfers[body[j]]) # {} => i = j

\* What the choice of the candidates begins with.
NothingPicked == [body |-> <<>>, evicted |-> {}]

\* What it may have come to.
Picks ==
  {p \in [body : Seq(DOMAIN Transfers), evicted : SUBSET DOMAIN Transfers] : BodyFits(p.body)}

\* One more candidate.
LEMMA ConsiderKeeps ==
  ASSUME NEW acc \in Picks, NEW m \in DOMAIN Transfers, NEW height
  PROVE  Consider(acc, m, height) \in Picks
<1> DEFINE D       == DOMAIN Transfers
           body    == acc.body
           tx      == Transfers[m]
           clashes == \E i \in DOMAIN body : Spends(Transfers[body[i]]) \cap Spends(tx) # {}
           more    == Append(body, m)
<1>1. /\ acc \in [body : Seq(D), evicted : SUBSET D] /\ body \in Seq(D) /\ BodyFits(body)
      /\ acc = [body |-> acc.body, evicted |-> acc.evicted] /\ acc.evicted \subseteq D
  BY DEF Picks
<1>2. Consider(acc, m, height) \in {acc, [acc EXCEPT !.body = more],
                                    [acc EXCEPT !.evicted = @ \cup {m}]}
  BY DEF Consider
<1>3. Consider(acc, m, height) = [acc EXCEPT !.body = more] /\ more # body
        => ~tx.coinbase /\ tx.signed /\ ~clashes
  <2>1. SUFFICES ASSUME Consider(acc, m, height) = [acc EXCEPT !.body = more], more # body
                 PROVE  ~tx.coinbase /\ tx.signed /\ ~clashes
    OBVIOUS
  <2> DEFINE full == m \notin mempool \/ Len(body) >= MAX_BLOCK_TXS
             good == ~tx.coinbase /\ ~clashes /\ Spendable(led, tx, height)
  <2>2. Consider(acc, m, height) =
          IF full THEN acc ELSE IF good THEN [acc EXCEPT !.body = more]
          ELSE [acc EXCEPT !.evicted = @ \cup {m}]
    BY DEF Consider
  <2>3. [acc EXCEPT !.body = more].body = more /\ [acc EXCEPT !.evicted = @ \cup {m}].body = body
    BY <1>1
  <2>4. Consider(acc, m, height).body = more
    BY <2>1, <2>3
  <2> HIDE DEF full, good, more
  <2>5. good
    BY <2>1, <2>2, <2>3, <2>4
  <2> QED
    BY <2>5, Zenon DEF good, Spendable
<1>4. [acc EXCEPT !.evicted = @ \cup {m}] \in Picks
  <2> DEFINE x == [acc EXCEPT !.evicted = @ \cup {m}]
  <2>1. x = [body |-> body, evicted |-> acc.evicted \cup {m}]
    <3>1. PICK c, v : acc = [body |-> c, evicted |-> v]
      BY <1>1
    <3>2. body = c /\ acc.evicted = v /\ x = [body |-> c, evicted |-> v \cup {m}]
      BY <3>1
    <3> HIDE DEF x, body
    <3> QED
      BY <3>2
  <2>2. x \in [body : Seq(D), evicted : SUBSET D] /\ x.body = body
    BY <1>1, <2>1
  <2> QED
    BY <1>1, <2>2 DEF Picks
<1>5. more # body
  <2>1. Len(more) = Len(body) + 1 /\ Len(body) \in Nat
    BY <1>1
  <2>2. Len(more) # Len(body)
    BY <2>1
  <2> QED
    BY <2>2
<1>6. ASSUME ~tx.coinbase, tx.signed, ~clashes
      PROVE  [acc EXCEPT !.body = more] \in Picks
  <2> DEFINE x == [acc EXCEPT !.body = more]
  <2>1. x = [body |-> more, evicted |-> acc.evicted] /\ more \in Seq(D)
    BY <1>1
  <2>2. x \in [body : Seq(D), evicted : SUBSET D] /\ x.body = more
    BY <1>1, <2>1
  <2>3. PICK n \in Nat : Len(body) = n
    BY <1>1
  <2>4. /\ DOMAIN body = 1..n /\ DOMAIN more = 1..(n + 1) /\ more[n + 1] = m
        /\ \A i \in 1..n : more[i] = body[i]
    BY <1>1, <2>3
  <2>5. \A i \in 1..(n + 1) : i = n + 1 \/ i \in 1..n
    OBVIOUS
  <2>6. \A i \in 1..n : /\ ~Transfers[body[i]].coinbase /\ Transfers[body[i]].signed
                        /\ Spends(Transfers[body[i]]) \cap Spends(tx) = {}
    BY <1>1, <1>6, <2>4 DEF BodyFits
  <2>7. \A i, j \in 1..n :
          Spends(Transfers[body[i]]) \cap Spends(Transfers[body[j]]) # {} => i = j
    BY <1>1, <2>4 DEF BodyFits
  <2> HIDE DEF more, body, D
  <2>8. BodyFits(more)
    <3>1. \A i \in DOMAIN more : ~Transfers[more[i]].coinbase /\ Transfers[more[i]].signed
      BY <1>6, <2>4, <2>5, <2>6
    <3>2. ASSUME NEW i \in DOMAIN more, NEW j \in DOMAIN more,
                 Spends(Transfers[more[i]]) \cap Spends(Transfers[more[j]]) # {}
          PROVE  i = j
      <4> DEFINE S(k) == Spends(Transfers[more[k]])
      <4>1. S(n + 1) = Spends(tx) /\ \A k \in 1..n : S(k) \cap Spends(tx) = {}
        BY <2>4, <2>6
      <4>2. \A k \in 1..n : Spends(tx) \cap S(k) = {}
        BY <4>1
      <4>3. \A k, l \in 1..n : S(k) \cap S(l) # {} => k = l
        BY <2>4, <2>7
      <4>4. S(i) \cap S(j) # {}
        BY <3>2
      <4> HIDE DEF S
      <4> QED
        BY <2>4, <2>5, <4>1, <4>2, <4>3, <4>4
    <3> QED
      BY <3>1, <3>2 DEF BodyFits
  <2> QED
    BY <2>2, <2>8 DEF Picks, D
<1>7. CASE Consider(acc, m, height) = [acc EXCEPT !.body = more]
  BY <1>3, <1>5, <1>6, <1>7
<1> QED
  BY <1>2, <1>4, <1>7

\* The table of the fold over the candidates.
PickTable(height, g) ==
  g = [p \in SUBSET DOMAIN [m \in DOMAIN Transfers |-> m] |->
         IF p = {} THEN NothingPicked
         ELSE Consider(g[p \ {Max(p)}], [m \in DOMAIN Transfers |-> m][Max(p)], height)]

\* The choice is the entry of all candidates in it.
LEMMA PickIsChosen ==
  ASSUME NEW height
  PROVE  Pick(height) =
           (CHOOSE g : PickTable(height, g))[DOMAIN [m \in DOMAIN Transfers |-> m]]
BY DEF Pick, FoldLeft, MapThenFoldSet, PickTable, NothingPicked

\* The choice begins with nothing that does not fit.
LEMMA NothingFits == NothingPicked \in Picks
<1>1. NothingPicked \in [body : Seq(DOMAIN Transfers), evicted : SUBSET DOMAIN Transfers]
  BY DEF NothingPicked
<1>2. NothingPicked.body = <<>>
  BY DEF NothingPicked
<1>3. BodyFits(<<>>)
  BY DEF BodyFits
<1> QED
  BY <1>1, <1>2, <1>3 DEF Picks

\* The table exists.
LEMMA PickTableExists ==
  ASSUME TransfersPlain, NEW height
  PROVE  \E g : PickTable(height, g)
<1> DEFINE D == DOMAIN Transfers
           P == [p \in SUBSET D |-> Max(p)]
           X == Picks
           F == [x \in X \X D |-> Consider(x[1], x[2], height)]
           q == [m \in D |-> m]
<1>1. PICK n \in Nat : D = 1..n
  BY DEF TransfersPlain
<1>2. IsFiniteSet(D)
  BY <1>1, FS_Interval
<1>3. IsPicker(D, P)
  BY <1>1, MaxOfSet DEF IsPicker
<1>4. IsFoldStep(X, D, F)
  <2> HIDE DEF X, D
  <2>1. \A x \in X \X D : Consider(x[1], x[2], height) \in X
    BY ConsiderKeeps DEF X, D
  <2> QED
    BY <2>1 DEF IsFoldStep
<1>5. PICK g : IsFoldTable(X, NothingPicked, D, P, F, g)
  <2>1. NothingPicked \in X
    BY NothingFits
  <2> HIDE DEF X, D, P, F
  <2> QED
    BY <1>2, <1>3, <1>4, <2>1, FoldTableExists
<1>6. \A p \in SUBSET D :
        g[p] = IF p = {} THEN NothingPicked ELSE Consider(g[p \ {Max(p)}], q[Max(p)], height)
  <2>1. TAKE p \in SUBSET D
  <2>2. CASE p = {}
    BY <1>5, <2>2 DEF IsFoldTable
  <2>3. CASE p # {}
    <3>1. Max(p) \in D /\ P[p] = Max(p)
      BY <1>3, <2>3 DEF IsPicker
    <3>2. g[p \ {Max(p)}] \in X
      BY <1>5, <3>1 DEF IsFoldTable
    <3>3. g[p] = F[<<g[p \ {Max(p)}], Max(p)>>]
      <4> HIDE DEF F, P
      <4> QED
        BY <1>5, <2>3, <3>1 DEF IsFoldTable
    <3>4. q[Max(p)] = Max(p)
      BY <3>1
    <3> HIDE DEF X, D, q
    <3>5. g[p] = Consider(g[p \ {Max(p)}], Max(p), height)
      BY <3>1, <3>2, <3>3
    <3> QED
      BY <2>3, <3>4, <3>5
  <2> QED
    BY <2>2, <2>3
<1>7. PickTable(height, g)
  BY <1>5, <1>6 DEF PickTable, IsFoldTable
<1> QED
  BY <1>7

\* What the worker chooses can be in one block.
LEMMA PickFits ==
  ASSUME TransfersPlain, NEW height
  PROVE  Pick(height) \in Picks
<1> DEFINE D == DOMAIN Transfers
           q == [m \in D |-> m]
<1>1. PICK n \in Nat : D = 1..n
  BY DEF TransfersPlain
<1>2. PICK g : g = (CHOOSE t : PickTable(height, t))
  OBVIOUS
<1>3. PickTable(height, g)
  BY <1>2, PickTableExists
<1>4. DOMAIN q = D /\ \A m \in D : q[m] = m
  OBVIOUS
<1>5. \A p \in SUBSET (1..n) :
        g[p] = IF p = {} THEN NothingPicked ELSE Consider(g[p \ {Max(p)}], q[Max(p)], height)
  BY <1>1, <1>3 DEF PickTable
<1>6. Pick(height) = g[1..n]
  BY <1>1, <1>2, PickIsChosen
<1> HIDE DEF q
<1> DEFINE T == {k \in Nat : k <= n => g[1..k] \in Picks}
<1>7. 0 \in T
  <2>1. 1..0 = {} /\ 1..0 \in SUBSET (1..n)
    OBVIOUS
  <2> QED
    BY <1>5, <2>1, NothingFits
<1>8. ASSUME NEW k \in Nat, k \in T PROVE k + 1 \in T
  <2>1. SUFFICES ASSUME k + 1 <= n PROVE g[1..(k + 1)] \in Picks
    OBVIOUS
  <2>2. /\ 1..(k + 1) \in SUBSET (1..n) /\ 1..(k + 1) # {} /\ k + 1 \in 1..n
        /\ (k + 1) - 1 = k /\ k + 1 \in Nat /\ k + 1 > 0
    <3> HIDE DEF T
    <3> QED
      BY <2>1
  <2>3. Max(1..(k + 1)) = k + 1 /\ (1..(k + 1)) \ {k + 1} = 1..k
    BY <2>2, MaxOfPrefix
  <2>4. g[1..(k + 1)] = Consider(g[1..k], q[k + 1], height)
    BY <1>5, <2>2, <2>3
  <2>5. q[k + 1] = k + 1 /\ k + 1 \in D /\ g[1..k] \in Picks
    BY <1>1, <1>4, <1>8, <2>1, <2>2
  <2> QED
    BY <2>4, <2>5, ConsiderKeeps
<1> HIDE DEF T
<1>9. Nat \subseteq T
  BY <1>7, <1>8, SetInduction
<1>10. g[1..n] \in Picks
  BY <1>9 DEF T
<1> QED
  BY <1>6, <1>10

\* A block of such transactions passes the checks that need no ledger.
LEMMA TemplateSelfContained ==
  ASSUME TransfersPlain, NEW body \in Seq(DOMAIN Transfers), BodyFits(body),
         NEW parents, NEW miner, NEW fees, NEW score, NEW work, NEW bits
  PROVE  SelfContained(NewBlock(parents, miner, fees, body, score, work, bits))
<1> DEFINE b   == NewBlock(parents, miner, fees, body, score, work, bits)
           txs == b.txs
           I   == {1} \cup {j + 1 : j \in DOMAIN body}
<1>1. PICK n \in Nat : Len(body) = n
  OBVIOUS
<1>2. DOMAIN body = 1..n
  BY <1>1
<1>3. DOMAIN txs = I /\ \E r : txs[1] = CoinbaseTx(<<"coinbase", miner, score, r>>, miner, r)
  BY DEF NewBlock
<1>4. \A i \in I \ {1} : txs[i] = Transfers[body[i - 1]]
  BY DEF NewBlock
<1>5. txs[1].coinbase /\ txs[1].signed /\ DOMAIN txs[1].inputs = {}
  BY <1>3 DEF CoinbaseTx
<1>6. \A i \in I \ {1} : i \in Int /\ i - 1 \in DOMAIN body
  BY <1>2
<1> HIDE DEF b, I
<1>7. 1 \in I
  BY DEF I
<1>8. txs # <<>>
  BY <1>3, <1>7
<1>9. \A i \in DOMAIN txs : (txs[i].coinbase <=> i = 1) /\ txs[i].signed
  <2>1. TAKE i \in DOMAIN txs
  <2>2. CASE i = 1
    BY <1>5, <2>2
  <2>3. CASE i # 1
    BY <1>3, <1>4, <1>6, <2>3 DEF BodyFits
  <2> QED
    BY <2>2, <2>3
<1>10. ASSUME NEW i \in DOMAIN txs, NEW j \in DOMAIN txs,
              NEW k \in DOMAIN txs[i].inputs, NEW l \in DOMAIN txs[j].inputs,
              txs[i].inputs[k].op = txs[j].inputs[l].op
       PROVE  i = j /\ k = l
  <2>1. i \in I \ {1} /\ j \in I \ {1}
    BY <1>3, <1>5
  <2>2. /\ txs[i] = Transfers[body[i - 1]] /\ txs[j] = Transfers[body[j - 1]]
        /\ i - 1 \in DOMAIN body /\ j - 1 \in DOMAIN body /\ i \in Int /\ j \in Int
    BY <1>4, <1>6, <2>1
  <2>3. txs[i].inputs[k].op \in Spends(txs[i]) /\ txs[j].inputs[l].op \in Spends(txs[j])
    BY DEF Spends
  <2>4. Spends(txs[i]) \cap Spends(txs[j]) # {}
    BY <1>10, <2>3
  <2>5. i - 1 = j - 1
    BY <2>2, <2>4 DEF BodyFits
  <2>6. i = j
    BY <2>2, <2>5
  <2>7. body[i - 1] \in DOMAIN Transfers
    BY <2>2
  <2>8. InputsOnce(txs[i])
    BY <2>2, <2>7 DEF TransfersPlain
  <2> QED
    BY <1>10, <2>6, <2>8 DEF InputsOnce
<1> QED
  BY <1>8, <1>9, <1>10 DEF SelfContained, b

\* At a tie of two tips the retarget is the same after either: the worker's
\* manager follows the selected tip, validation the last parent listed.
TiesAgree ==
  \A h, g \in Range(tips) : blocks[h].score = blocks[g].score => BitsOf[h] = BitsOf[g]

\* A block may name as many parents as there are tips.
FewTips == Len(tips) <= MAX_BLOCK_PARENTS

\* A block that the worker has stamped on the tips and the target of now.
Stamped(b) ==
  /\ b.parents = tips
  /\ LET d == ProcessBlock(tips, gd) IN b.score = d.score /\ b.work = d.work
  /\ b.bits = BitsOf[diffTip]
  /\ SelfContained(b)

\* A thread that is not inside connect_block of its own block.
Ashore == {"idle", "park", "pick", "search", "scan", "drain"}

\* What the worker knows from the template on until its block is connected.
WorkerInv(t) ==
  /\ pc[t] \in Ashore => caller[t] # "worker"
  /\ pc[t] = "pick" => template[t] = tips
  /\ pc[t] = "search" => Stamped(template[t])
  /\ pc[t] = "connect" /\ caller[t] = "worker" => Stamped(blocks[cur[t]])

\* The points of connect_block at which the difficulty manager is behind.
Behind == Inserting \cup {"rebuild"}

\* Until a reorganize fails, the difficulty manager has recorded the chain of
\* the selected tip, or of the one that the connect_block in progress has read.
TargetInv ==
  /\ \A t \in Threads :
       /\ pc[t] \in Inserting => diffTip = old[t]
       /\ pc[t] \in {"reorganize", "rebuild"} => new[t] = SelectedTip
  /\ (\A t \in Threads : pc[t] \notin Behind) => diffTip = SelectedTip

WorkerIInv ==
  /\ TipPairs /\ DOMAIN caller = Threads /\ failed \in BOOLEAN
  /\ \A t \in Threads : WorkerInv(t)
  /\ ~failed => TargetInv

\* A step that leaves what a template is made from.
LEMMA StampedStays ==
  ASSUME NEW b, Stamped(b), UNCHANGED <<tips, gd, diffTip>>
  PROVE  /\ b.parents = tips'
         /\ LET d == ProcessBlock(tips', gd') IN b.score = d.score /\ b.work = d.work
         /\ b.bits = BitsOf[diffTip'] /\ SelfContained(b)
BY DEF Stamped

\* A step of the one thread away from its own block.
LEMMA WorkerAway ==
  ASSUME OneThread, NEW t \in Threads,
         pc'[t] \notin {"pick", "search"},
         pc'[t] = "connect" \/ pc'[t] \in Ashore => caller'[t] # "worker"
  PROVE  \A u \in Threads : WorkerInv(u)'
<1>1. WorkerInv(t)'
  BY DEF WorkerInv
<1>2. \A u \in Threads : u = t
  BY DEF OneThread
<1> QED
  BY <1>1, <1>2

\* The difficulty manager while the thread is not in connect_block.
LEMMA TargetStays ==
  ASSUME OneThread, IInv, ShapeInv, IInv', ShapeInv', Grows, TargetInv,
         UNCHANGED <<tips, diffTip>>, NEW t \in Threads, pc[t] \notin Behind, pc'[t] \notin Behind
  PROVE  TargetInv'
<1>1. \A u \in Threads : u = t
  BY DEF OneThread
<1>2. SelectedTip' = SelectedTip
  BY TipStays
<1>3. diffTip = SelectedTip
  BY <1>1 DEF TargetInv
<1>4. diffTip' = SelectedTip'
  BY <1>2, <1>3
<1> QED
  BY <1>1, <1>4 DEF TargetInv, Behind, Inserting

\* The thread calls connect_block, and its difficulty manager waits.
LEMMA TargetInside ==
  ASSUME OneThread, NEW t \in Threads, pc'[t] \in Behind,
         pc'[t] \in Inserting => diffTip' = old'[t],
         pc'[t] \in {"reorganize", "rebuild"} => new'[t] = SelectedTip'
  PROVE  TargetInv'
<1>1. \A u \in Threads : u = t
  BY DEF OneThread
<1> QED
  BY <1>1 DEF TargetInv

\* The mining loop: the template is made from the tips, the data and the target
\* that are still there when the block is connected, for nothing else moves.
LEMMA MineWorker ==
  ASSUME OneThread, TransfersPlain, IInv, NEW t \in Threads, Mine(t), WorkerIInv
  PROVE  /\ \A u \in Threads : WorkerInv(u)'
         /\ UNCHANGED <<tips, diffTip, old, new, failed>> /\ DOMAIN caller' = Threads
         /\ pc[t] \notin Behind /\ pc'[t] \notin Behind
<1>1. /\ \A u \in Threads : u = t
      /\ t \in DOMAIN pc /\ t \in DOMAIN cur /\ t \in DOMAIN template /\ t \in DOMAIN caller
      /\ WorkerInv(t)
  BY DEF OneThread, IInv, StoreTypeOK, WorkerIInv
<1>2. SUFFICES /\ WorkerInv(t)' /\ DOMAIN caller' = Threads
               /\ UNCHANGED <<tips, diffTip, old, new, failed>>
               /\ pc[t] \notin Behind /\ pc'[t] \notin Behind
  BY <1>1
<1>3. CASE StartTemplate(t)
  <2>1. /\ template'[t] = tips /\ pc[t] = "idle" /\ pc'[t] = "pick"
        /\ UNCHANGED <<tips, diffTip, old, new, caller, failed>>
    BY <1>1, <1>3 DEF StartTemplate, Goto, mem
  <2> QED
    BY <1>1, <2>1 DEF WorkerInv, WorkerIInv, Ashore, Behind, Inserting
<1>4. CASE FillTemplate(t)
  <2> DEFINE d    == Stamp(template[t])
             pick == Pick(d.score)
             b    == NewBlock(template[t], Miner, Fees(pick.body), pick.body, d.score, d.work,
                              BitsOf[diffTip])
  <2>1. template' = [template EXCEPT ![t] = b]
    BY <1>4, Zenon DEF FillTemplate
  <2>2. /\ pc[t] = "pick" /\ pc' = [pc EXCEPT ![t] = "search"]
        /\ UNCHANGED <<tips, diffTip, old, new, caller, failed, gd>>
    BY <1>4, Zenon DEF FillTemplate, Goto, db
  <2>3. template[t] = tips /\ caller[t] # "worker"
    BY <1>1, <2>2 DEF WorkerInv, Ashore
  <2>4. b.parents = tips /\ b.score = d.score /\ b.work = d.work /\ b.bits = BitsOf[diffTip]
    BY <2>3 DEF NewBlock
  <2>5. d = ProcessBlock(tips, gd)
    BY <2>3 DEF Stamp
  <2>6. SelfContained(b)
    <3>1. pick.body \in Seq(DOMAIN Transfers) /\ BodyFits(pick.body)
      BY PickFits DEF Picks
    <3> HIDE DEF pick, d
    <3> QED
      BY <3>1, TemplateSelfContained
  <2> HIDE DEF b, d
  <2>7. Stamped(b)
    BY <2>4, <2>5, <2>6 DEF Stamped
  <2>8. template'[t] = b /\ pc'[t] = "search"
    BY <1>1, <2>1, <2>2
  <2>9. Stamped(template[t])'
    BY <2>2, <2>7, <2>8, StampedStays DEF Stamped
  <2> QED
    BY <1>1, <2>2, <2>3, <2>8, <2>9 DEF WorkerInv, WorkerIInv, Ashore, Behind, Inserting
<1>5. CASE Find(t)
  <2>1. PICK h \in Hash \ DOMAIN blocks :
          blocks' = Put(blocks, h, template[t]) /\ cur' = [cur EXCEPT ![t] = h]
    BY <1>5, Zenon DEF Find
  <2>2. /\ pc[t] = "search" /\ pc' = [pc EXCEPT ![t] = "connect"]
        /\ caller' = [caller EXCEPT ![t] = "worker"]
        /\ UNCHANGED <<tips, diffTip, old, new, failed, gd>>
    BY <1>5, Zenon DEF Find, Goto, db, mem
  <2>3. blocks'[h] = template[t] /\ cur'[t] = h /\ pc'[t] = "connect"
    BY <1>1, <2>1, <2>2 DEF Put
  <2>4. Stamped(template[t])
    BY <1>1, <2>2 DEF WorkerInv
  <2>5. Stamped(blocks[cur[t]])'
    BY <2>2, <2>3, <2>4, StampedStays DEF Stamped
  <2> QED
    BY <1>1, <2>2, <2>3, <2>5 DEF WorkerInv, WorkerIInv, Ashore, Behind, Inserting
<1>6. CASE GiveUp(t)
  <2>1. /\ pc[t] = "search" /\ pc'[t] = "idle"
        /\ UNCHANGED <<tips, diffTip, old, new, caller, failed>>
    BY <1>1, <1>6 DEF GiveUp, Goto, mem
  <2> QED
    BY <1>1, <2>1 DEF WorkerInv, WorkerIInv, Ashore, Behind, Inserting
<1> QED
  BY <1>3, <1>4, <1>5, <1>6 DEF Mine

\* connect_block returns.
LEMMA ReturnWorker ==
  ASSUME OneThread, IInv, WorkerIInv, NEW t \in Threads, NEW ok, Return(t, ok)
  PROVE  /\ \A u \in Threads : WorkerInv(u)'
         /\ DOMAIN caller' = Threads /\ pc'[t] \notin Behind
<1>1. t \in DOMAIN pc /\ t \in DOMAIN caller
  BY DEF IInv, StoreTypeOK, WorkerIInv
<1>2. /\ caller'[t] = "accept" /\ pc'[t] \in {"drain", "scan", "idle"} /\ DOMAIN caller' = Threads
  BY <1>1 DEF Return, Goto, WorkerIInv
<1> QED
  BY <1>2, WorkerAway DEF Behind, Inserting

\* connect_block and the loop over the orphans.
LEMMA StepWorker ==
  ASSUME OneThread, IInv, WorkerIInv, NEW t \in Threads,
         Step(t) \/ SyncRound(t) \/ \E h \in Hash : Accept(t, h)
  PROVE  (\A u \in Threads : WorkerInv(u)') /\ DOMAIN caller' = Threads
<1>1. t \in DOMAIN pc /\ t \in DOMAIN caller /\ WorkerInv(t) /\ DOMAIN caller = Threads
  BY DEF IInv, StoreTypeOK, WorkerIInv
<1>2. CASE Refuse(t) \/ Finish(t)
  BY <1>2, ReturnWorker DEF Refuse, Finish
<1>3. CASE DoReorganize(t)
  <2>1. (Goto(t, "rebuild") /\ UNCHANGED caller) \/ Return(t, FALSE)
    BY <1>3, Zenon DEF DoReorganize, AfterReorganize, locals
  <2>2. CASE Goto(t, "rebuild") /\ UNCHANGED caller
    <3>1. pc'[t] = "rebuild"
      BY <1>1, <2>2 DEF Goto
    <3> QED
      BY <1>1, <2>2, <3>1, WorkerAway DEF Ashore
  <2> QED
    BY <2>1, <2>2, ReturnWorker
<1>4. CASE PutGhostdag(t) \/ Select(t) \/ PutBlock(t) \/ PutHeader(t) \/ PutTips(t)
           \/ Rebuild(t) \/ Resume(t)
  <2>1. /\ pc'[t] \in {"put_block", "put_header", "put_tips", "select", "reorganize", "rebuild",
                       "resume", "finish"}
        /\ caller' = caller
    BY <1>1, <1>4 DEF PutGhostdag, Select, PutBlock, PutHeader, PutTips, Rebuild, Resume, Goto, locals
  <2> QED
    BY <1>1, <2>1, WorkerAway DEF Ashore
<1>5. CASE Park(t) \/ Scan(t) \/ SyncRound(t) \/ \E h \in Hash : Accept(t, h)
  <2>1. /\ pc[t] \in {"park", "scan", "idle"} /\ caller' = caller
        /\ pc'[t] \in {"idle", "drain", "scan", "connect", "park"}
    BY <1>1, <1>5 DEF Park, Scan, SyncRound, Accept, Goto, locals
  <2>2. caller'[t] # "worker"
    BY <1>1, <2>1 DEF WorkerInv, Ashore
  <2> QED
    BY <1>1, <2>1, <2>2, WorkerAway
<1>6. CASE Drain(t)
  <2>1. /\ pc[t] = "drain"
        /\ \/ pc'[t] = "scan" /\ caller' = caller
           \/ pc'[t] = "connect" /\ caller' = [caller EXCEPT ![t] = "orphans"]
    BY <1>1, <1>6 DEF Drain, Goto, locals
  <2>2. caller'[t] # "worker" /\ DOMAIN caller' = Threads
    BY <1>1, <2>1 DEF WorkerInv, Ashore
  <2> QED
    BY <2>1, <2>2, WorkerAway
<1> QED
  BY <1>2, <1>3, <1>4, <1>5, <1>6 DEF Step

\* connect_block leaves the difficulty manager at the selected tip.
LEMMA StepTarget ==
  ASSUME OneThread, IInv, ShapeInv, IInv', ShapeInv', Grows, TipPairs, TargetInv, ~failed',
         NEW t \in Threads, Step(t) \/ SyncRound(t) \/ \E h \in Hash : Accept(t, h)
  PROVE  TargetInv'
<1>1. t \in DOMAIN pc /\ t \in DOMAIN old /\ t \in DOMAIN new /\ \A u \in Threads : u = t
  BY DEF IInv, StoreTypeOK, TipPairs, OneThread
<1>2. pc[t] \notin Behind => diffTip = SelectedTip
  BY <1>1 DEF TargetInv
<1>3. tips' = tips => SelectedTip' = SelectedTip
  BY TipStays
<1>4. CASE Park(t) \/ Refuse(t) \/ Resume(t) \/ Finish(t) \/ Scan(t) \/ Drain(t) \/ SyncRound(t)
           \/ \E h \in Hash : Accept(t, h)
  <2>1. UNCHANGED <<tips, diffTip>> /\ pc[t] \notin Behind /\ pc'[t] \notin Behind
    <3>1. CASE Park(t) \/ Refuse(t) \/ Resume(t) \/ Finish(t)
      BY <1>1, <3>1 DEF Park, Refuse, Resume, Finish, Return, Goto, Behind, Inserting, mem
    <3>2. CASE Scan(t) \/ Drain(t) \/ SyncRound(t) \/ \E h \in Hash : Accept(t, h)
      BY <1>1, <3>2 DEF Scan, Drain, SyncRound, Accept, Goto, Behind, Inserting, mem
    <3> QED
      BY <1>4, <3>1, <3>2
  <2> QED
    BY <2>1, TargetStays
<1>5. CASE PutGhostdag(t)
  <2>1. /\ pc[t] = "connect" /\ pc'[t] = "put_block" /\ old'[t] = SelectedTip /\ diffTip' = diffTip
    BY <1>1, <1>5 DEF PutGhostdag, Goto, mem
  <2> QED
    BY <1>2, <2>1, TargetInside DEF Behind, Inserting
<1>6. CASE PutBlock(t) \/ PutHeader(t) \/ PutTips(t)
  <2>1. /\ pc[t] \in {"put_block", "put_header", "put_tips"}
        /\ pc'[t] \in {"put_header", "put_tips", "select"} /\ UNCHANGED <<old, diffTip>>
    BY <1>1, <1>6 DEF PutBlock, PutHeader, PutTips, Goto, mem, locals
  <2>2. diffTip = old[t]
    BY <2>1 DEF TargetInv, Inserting
  <2> QED
    BY <2>1, <2>2, TargetInside DEF Behind, Inserting
<1>7. CASE Select(t)
  <2>1. /\ pc[t] = "select" /\ new'[t] = SelectedTip /\ UNCHANGED <<tips, old, diffTip>>
        /\ pc'[t] = IF SelectedTip = old[t] THEN "finish" ELSE "reorganize"
    BY <1>1, <1>7 DEF Select, Goto, mem
  <2>2. diffTip = old[t]
    BY <2>1 DEF TargetInv, Inserting
  <2>3. CASE SelectedTip = old[t]
    BY <1>1, <1>3, <2>1, <2>2, <2>3 DEF TargetInv, Behind, Inserting
  <2>4. CASE SelectedTip # old[t]
    BY <1>3, <2>1, <2>2, <2>4, TargetInside DEF Behind, Inserting
  <2> QED
    BY <2>3, <2>4
<1>8. CASE DoReorganize(t)
  <2>1. pc[t] = "reorganize" /\ UNCHANGED tips
    BY <1>8 DEF DoReorganize
  <2>2. Goto(t, "rebuild") /\ UNCHANGED new
    <3> DEFINE r == Reorganize(led, undos, old[t], new[t], blocks, gd, store)
    <3>1. AfterReorganize(t, r)
      BY <1>8 DEF DoReorganize
    <3> HIDE DEF r
    <3>2. r.ok
      BY <3>1, Zenon DEF AfterReorganize
    <3> QED
      BY <3>1, <3>2, Zenon DEF AfterReorganize, locals
  <2>3. pc'[t] = "rebuild" /\ new'[t] = SelectedTip'
    BY <1>1, <1>3, <2>1, <2>2 DEF Goto, TargetInv
  <2> QED
    BY <2>3, TargetInside DEF Behind, Inserting
<1>9. CASE Rebuild(t)
  <2>1. /\ pc[t] = "rebuild" /\ pc'[t] \in {"resume", "finish"} /\ UNCHANGED tips
        /\ diffTip' = new[t]
    BY <1>1, <1>9 DEF Rebuild, Goto
  <2>2. new[t] = SelectedTip
    BY <2>1 DEF TargetInv
  <2>3. diffTip' = SelectedTip'
    BY <1>3, <2>1, <2>2
  <2> QED
    BY <1>1, <2>1, <2>3 DEF TargetInv, Behind, Inserting
<1> QED
  BY <1>4, <1>5, <1>6, <1>7, <1>8, <1>9 DEF Step

\* The parent that validation walks back from is as high as the selected tip.
LEMMA TargetsAgree ==
  ASSUME IInv, ShapeInv, TiesAgree
  PROVE  ExpectedBits(tips, headers) = BitsOf[SelectedTip]
<1> DEFINE R == Range(tips)
           s == SelectedTip
           better(i, j) == \/ blocks[tips[j]].score < blocks[tips[i]].score
                           \/ blocks[tips[j]].score = blocks[tips[i]].score /\ j <= i
           best == CHOOSE i \in DOMAIN tips : \A j \in DOMAIN tips : better(i, j)
<1>1. /\ R \cap headers = R /\ R \subseteq store /\ R # {} /\ tips \in Seq(store) /\ tips # <<>>
      /\ BestTip(blocks, R \cap headers) \in store
  <2>1. tips \in Seq(store) /\ tips # <<>>
    BY DEF IInv, StoreTypeOK, StoreInv, TipsUsable
  <2>2. tips[1] \in R
    BY <2>1 DEF Range
  <2> QED
    BY <2>1, <2>2, TipIsStored
<1>2. PICK n \in Nat : DOMAIN tips = 1..n /\ n # 0
  <2>1. Len(tips) \in Nat /\ DOMAIN tips = 1..Len(tips) /\ Len(tips) # 0
    BY <1>1
  <2> QED
    BY <2>1
<1>3. \A h \in R : blocks[h].score \in Nat /\ blocks[h].work \in Nat /\ h \in Nat
  <2>1. store \subseteq DOMAIN gd /\ store \subseteq Nat
    BY HashAssumption DEF IInv, StoreTypeOK, StoreInv, GdStored
  <2> QED
    BY <1>1, <2>1, EntryFacts
<1>4. s \in R /\ \A h \in R : blocks[h].score <= blocks[s].score
  <2>1. IsFiniteSet(R)
    BY <1>1, FiniteRange
  <2>2. s = BestTip(blocks, R)
    BY <1>1 DEF SelectedTip
  <2>3. R \subseteq Nat
    BY <1>3
  <2> HIDE DEF R, s
  <2> QED
    BY <1>1, <1>3, <2>1, <2>2, <2>3, BestTipExists
<1>5. \A i \in 1..n : tips[i] \in R
  BY <1>2 DEF Range
<1> HIDE DEF s
<1>6. \E i \in 1..n : \A j \in 1..n : better(i, j)
  <2> DEFINE D == 1..n
             f == [i \in D |-> blocks[tips[i]].score]
  <2>1. \A i \in D : f[i] \in Nat /\ f[i] = blocks[tips[i]].score
    BY <1>3, <1>5
  <2>2. IsFiniteSet(D) /\ D # {} /\ \A i \in D : i \in Nat
    <3>1. 1 \in D
      BY <1>2
    <3>2. IsFiniteSet(D)
      BY <1>2, FS_Interval
    <3> QED
      BY <3>1, <3>2
  <2> HIDE DEF D, f
  <2>3. PICK a \in D : \A i \in D : f[i] <= f[a]
    BY <2>1, <2>2, GreatestBy
  <2> DEFINE U == {i \in D : f[i] = f[a]}
             g == [i \in U |-> i]
  <2>4. IsFiniteSet(U) /\ U # {} /\ \A i \in U : g[i] \in Nat /\ g[i] = i
    BY <2>2, FS_Subset
  <2>5. PICK b \in U : \A i \in U : g[i] <= g[b]
    <3> HIDE DEF U, g
    <3> QED
      BY <2>4, GreatestBy
  <2>6. b \in D /\ f[b] = f[a] /\ \A i \in D : f[i] = f[a] => i <= b
    BY <2>4, <2>5
  <2>7. ASSUME NEW j \in D PROVE f[j] < f[b] \/ (f[j] = f[b] /\ j <= b)
    <3>1. f[j] \in Nat /\ f[b] \in Nat /\ f[j] <= f[b]
      BY <2>1, <2>3, <2>6
    <3> QED
      BY <2>6, <3>1
  <2>8. \A j \in D : better(b, j)
    BY <2>1, <2>6, <2>7
  <2> QED
    BY <2>6, <2>8 DEF D
<1>7. best \in 1..n /\ \A j \in 1..n : better(best, j)
  <2> HIDE DEF better
  <2> QED
    BY <1>2, <1>6
<1>8. DifficultyParent(tips, headers) = tips[best]
  <2> DEFINE seen == {i \in DOMAIN tips : tips[i] \in headers}
  <2>1. seen = DOMAIN tips
    BY <1>1 DEF Range
  <2>2. seen # {}
    BY <1>2, <2>1
  <2>3. DifficultyParent(tips, headers)
          = IF seen = {} THEN Zero
            ELSE tips[CHOOSE i \in seen : \A j \in seen : better(i, j)]
    BY DEF DifficultyParent
  <2> HIDE DEF better, seen
  <2> QED
    BY <2>1, <2>2, <2>3
<1> HIDE DEF best
<1>9. tips[best] \in R /\ blocks[tips[best]].score = blocks[s].score
  <2>1. PICK k \in 1..n : tips[k] = s
    BY <1>2, <1>4 DEF Range
  <2>2. tips[best] \in R /\ better(best, k)
    BY <1>5, <1>7
  <2>3. /\ blocks[tips[best]].score \in Nat /\ blocks[s].score \in Nat
        /\ blocks[tips[best]].score <= blocks[s].score
        /\ blocks[s].score <= blocks[tips[best]].score
    BY <1>3, <1>4, <2>1, <2>2
  <2> QED
    BY <2>2, <2>3
<1>10. BitsOf[tips[best]] = BitsOf[s]
  BY <1>4, <1>9 DEF TiesAgree
<1> QED
  BY <1>8, <1>10 DEF ExpectedBits, s

\* A block of the worker passes the checks of its header and its own.
LEMMA OwnBlockPasses ==
  ASSUME OneThread, IInv, ShapeInv, WorkerIInv, ~failed, FewTips, TiesAgree,
         NEW t \in Threads, caller[t] = "worker", Refuse(t)
  PROVE  cur[t] \in store
<1> DEFINE b == blocks[cur[t]]
<1>1. /\ pc[t] = "connect"
      /\ cur[t] \in store \/ ~ValidHeader(cur[t]) \/ ~SelfContained(b)
  BY DEF Refuse
<1>2. Stamped(b)
  BY <1>1 DEF WorkerIInv, WorkerInv
<1>3. diffTip = SelectedTip
  <2>1. \A u \in Threads : pc[u] \notin Behind
    BY <1>1 DEF OneThread, Behind, Inserting
  <2> QED
    BY <2>1 DEF WorkerIInv, TargetInv
<1>4. b.bits = ExpectedBits(tips, headers)
  BY <1>2, <1>3, TargetsAgree DEF Stamped
<1>5. ValidHeader(cur[t])
  BY <1>2, <1>4 DEF ValidHeader, Stamped, FewTips
<1> QED
  BY <1>1, <1>2, <1>5 DEF Stamped

\* A step that no thread takes.
LEMMA RestWorker ==
  ASSUME IInv, ShapeInv, IInv', ShapeInv', Grows, WorkerIInv,
         UNCHANGED <<gd, tips, diffTip, pc, cur, old, new, caller, template, failed>>
  PROVE  WorkerIInv'
<1>1. ASSUME NEW t \in Threads PROVE WorkerInv(t)'
  <2>1. ASSUME pc[t] = "connect" PROVE blocks'[cur[t]] = blocks[cur[t]]
    BY <2>1 DEF IInv, ThreadInv, Grows
  <2>2. WorkerInv(t)
    BY DEF WorkerIInv
  <2>3. ASSUME pc[t] = "search" PROVE Stamped(template[t])'
    BY <2>2, <2>3, StampedStays DEF WorkerInv, Stamped
  <2>4. ASSUME pc[t] = "connect", caller[t] = "worker" PROVE Stamped(blocks[cur[t]])'
    BY <2>1, <2>2, <2>4, StampedStays DEF WorkerInv, Stamped
  <2> QED
    BY <2>2, <2>3, <2>4 DEF WorkerInv
<1>2. SelectedTip' = SelectedTip
  BY TipStays
<1>3. TargetInv => TargetInv'
  BY <1>2 DEF TargetInv
<1> QED
  BY <1>1, <1>3 DEF WorkerIInv, TipPairs

\* Every step keeps what the worker and its difficulty manager know.
LEMMA NextWorker ==
  ASSUME OneThread, TransfersPlain, IInv, ShapeInv, IInv', ShapeInv', WorkerIInv, [Next]_vars
  PROVE  WorkerIInv'
<1>1. Grows /\ TipPairs /\ TipPairs'
  BY NextGrows, NextPairs DEF WorkerIInv
<1>2. ASSUME NEW t \in Threads, Mine(t) PROVE WorkerIInv'
  <2>1. /\ \A u \in Threads : WorkerInv(u)'
        /\ UNCHANGED <<tips, diffTip, old, new, failed>> /\ DOMAIN caller' = Threads
        /\ pc[t] \notin Behind /\ pc'[t] \notin Behind
    BY <1>2, MineWorker
  <2>2. TargetInv => TargetInv'
    BY <1>1, <2>1, TargetStays
  <2> QED
    BY <1>1, <2>1, <2>2 DEF WorkerIInv
<1>3. ASSUME NEW t \in Threads, Step(t) \/ SyncRound(t) \/ \E h \in Hash : Accept(t, h)
      PROVE  WorkerIInv'
  <2>1. (\A u \in Threads : WorkerInv(u)') /\ DOMAIN caller' = Threads
    BY <1>3, StepWorker
  <2>2. failed' \in BOOLEAN /\ (failed => failed')
    <3>1. CASE DoReorganize(t)
      BY <3>1, Zenon DEF DoReorganize, AfterReorganize
    <3>2. CASE ~DoReorganize(t)
      <4>1. failed' = failed
        BY <1>3, <3>2 DEF Step, Park, Refuse, PutGhostdag, PutBlock, PutHeader, PutTips, Select,
                Rebuild, Resume, Finish, Scan, Drain, Accept, SyncRound
      <4> QED
        BY <4>1 DEF WorkerIInv
    <3> QED
      BY <3>1, <3>2
  <2>3. ~failed' => TargetInv'
    BY <1>1, <1>3, <2>2, StepTarget DEF WorkerIInv
  <2> QED
    BY <1>1, <2>1, <2>2, <2>3 DEF WorkerIInv
<1>4. CASE \/ PeerFinds
           \/ \E m \in DOMAIN Transfers : AcceptTx(m) \/ EvictTx(m)
           \/ \E on \in BOOLEAN : SetMining(on)
           \/ UNCHANGED vars
  <2>1. UNCHANGED <<gd, tips, diffTip, pc, cur, old, new, caller, template, failed>>
    BY <1>4, Zenon DEF PeerFinds, AcceptTx, EvictTx, SetMining, vars, db, mem, locals
  <2> QED
    BY <1>1, <2>1, RestWorker
<1>5. CASE Crash
  <2> DEFINE tip == BestTip(blocks, Range(dbTips) \cap headers)
  <2>1. /\ pc' = [t \in Threads |-> "idle"] /\ caller' = [t \in Threads |-> "accept"]
        /\ UNCHANGED <<failed, blocks, headers>> /\ tips' = dbTips /\ diffTip' = tip
    BY <1>5, Zenon DEF Crash, db
  <2>2. diffTip' = SelectedTip'
    BY <2>1 DEF SelectedTip
  <2>3. ASSUME NEW t \in Threads PROVE WorkerInv(t)'
    BY <2>1 DEF WorkerInv
  <2>4. TargetInv'
    BY <2>1, <2>2 DEF TargetInv, Behind, Inserting
  <2> QED
    BY <1>1, <2>1, <2>3, <2>4 DEF WorkerIInv
<1> QED
  BY <1>2, <1>3, <1>4, <1>5 DEF Next

\* A node starts with nothing on the way.
LEMMA InitWorker ==
  ASSUME Init
  PROVE  WorkerIInv
<1>1. /\ pc = [t \in Threads |-> "idle"] /\ caller = [t \in Threads |-> "accept"]
      /\ old = [t \in Threads |-> Zero] /\ new = [t \in Threads |-> Zero]
      /\ failed = FALSE /\ tips = <<Genesis>> /\ headers = {Genesis} /\ diffTip = Genesis
  BY Zenon DEF Init
<1>2. SelectedTip = Genesis
  <2>1. Range(tips) \cap headers = {Genesis}
    BY <1>1 DEF Range
  <2>2. BestTip(blocks, {Genesis}) = Genesis
    BY DEF BestTip
  <2> QED
    BY <2>1, <2>2 DEF SelectedTip
<1>3. \A t \in Threads : WorkerInv(t)
  BY <1>1 DEF WorkerInv
<1>4. TargetInv
  BY <1>1, <1>2 DEF TargetInv, Behind, Inserting
<1> QED
  BY <1>1, <1>3, <1>4 DEF WorkerIInv, TipPairs

\* The node accepts what it mines: with one thread, whatever blocks the worker
\* and the peers find, and across crashes, a block of the worker passes every
\* check that precedes its insertion, as long as there are no more tips than a
\* block may name, tips of one score have one target, and no reorganize failed.
THEOREM WorkerBlocksPass ==
  ASSUME OneThread, TransfersPlain
  PROVE  Spec /\ [](~failed /\ FewTips /\ TiesAgree) => WorkerBlockPasses
<1> DEFINE Calm == ~failed /\ FewTips /\ TiesAgree
<1>1. IInv /\ ShapeInv /\ WorkerIInv /\ Calm
        => [\A t \in Threads : caller[t] = "worker" /\ Refuse(t) => cur[t] \in store]_vars
  BY OwnBlockPasses
<1>2. IInv /\ ShapeInv /\ IInv' /\ ShapeInv' /\ WorkerIInv /\ [Next]_vars => WorkerIInv'
  BY NextWorker
<1>3. IInv /\ ShapeInv /\ [Next]_vars => ShapeInv'
  BY NextShape
<1>4. Spec => []ShapeInv
  BY <1>3, InitShape, StoreInvariant, PTL DEF Spec
<1> HIDE DEF Calm
<1>5. Spec => []WorkerIInv
  BY <1>2, <1>4, InitWorker, StoreInvariant, PTL DEF Spec
<1>6. Spec /\ []Calm => WorkerBlockPasses
  BY <1>1, <1>4, <1>5, StoreInvariant, PTL DEF WorkerBlockPasses
<1> QED
  BY <1>6 DEF Calm

----------------------------------------------------------------------------
(* The walk of the explorer                                                *)

\* What is on a list without its last member, after one more, or after a second
\* list.
LEMMA FrontRange ==
  ASSUME NEW U, NEW s \in Seq(U), s # <<>>
  PROVE  /\ Front(s) \in Seq(U) /\ Len(Front(s)) = Len(s) - 1 /\ Last(s) \in U
         /\ Range(s) = Range(Front(s)) \cup {Last(s)}
<1>1. Len(s) \in Nat /\ Len(s) >= 1 /\ DOMAIN s = 1..Len(s) /\ \A i \in 1..Len(s) : s[i] \in U
  OBVIOUS
<1>2. Last(s) = s[Len(s)] /\ Front(s) = SubSeq(s, 1, Len(s) - 1)
  BY DEF Last, Front
<1>3. PICK n \in Nat : Len(s) = n + 1
  <2>1. Len(s) - 1 \in Nat /\ Len(s) = (Len(s) - 1) + 1
    BY <1>1
  <2> QED
    BY <2>1
<1>4. Front(s) = SubSeq(s, 1, n)
  <2>1. Len(s) - 1 = n
    BY <1>3
  <2> QED
    BY <1>2, <2>1
<1>5. /\ Front(s) \in Seq(U) /\ Len(Front(s)) = n /\ DOMAIN Front(s) = 1..n
      /\ \A i \in 1..n : Front(s)[i] = s[i]
  BY <1>1, <1>3, <1>4
<1>6. Range(s) = Range(Front(s)) \cup {Last(s)}
  <2>1. \A x : x \in Range(s) <=> \E i \in 1..(n + 1) : s[i] = x
    BY <1>1, <1>3 DEF Range
  <2>2. \A x : x \in Range(Front(s)) <=> \E i \in 1..n : s[i] = x
    BY <1>5 DEF Range
  <2>3. Last(s) = s[n + 1] /\ \A i : i \in 1..(n + 1) <=> i \in 1..n \/ i = n + 1
    BY <1>2, <1>3
  <2> QED
    BY <2>1, <2>2, <2>3
<1> QED
  BY <1>1, <1>2, <1>3, <1>5, <1>6

LEMMA AppendRange ==
  ASSUME NEW U, NEW s \in Seq(U), NEW x \in U
  PROVE  /\ Append(s, x) \in Seq(U) /\ Range(Append(s, x)) = Range(s) \cup {x}
         /\ Once(s) /\ x \notin Range(s) => Once(Append(s, x))
<1> DEFINE t == Append(s, x)
           n == Len(s)
<1>1. n \in Nat /\ DOMAIN s = 1..n
  OBVIOUS
<1>2. /\ t \in Seq(U) /\ DOMAIN t = 1..(n + 1) /\ t[n + 1] = x
      /\ \A i \in 1..n : t[i] = s[i]
  OBVIOUS
<1>3. \A i : i \in 1..(n + 1) <=> i \in 1..n \/ i = n + 1
  BY <1>1
<1> HIDE DEF t, n
<1>4. Range(t) = Range(s) \cup {x}
  <2>1. \A y : y \in Range(t) <=> \E i \in 1..(n + 1) : t[i] = y
    BY <1>2 DEF Range
  <2>2. \A y : y \in Range(s) <=> \E i \in 1..n : s[i] = y
    BY <1>1 DEF Range
  <2> QED
    BY <1>2, <1>3, <2>1, <2>2
<1>5. ASSUME Once(s), x \notin Range(s) PROVE Once(t)
  <2>1. \A i \in 1..n : s[i] # x
    BY <1>1, <1>5 DEF Range
  <2> QED
    BY <1>1, <1>2, <1>3, <1>5, <2>1 DEF Once
<1> QED
  BY <1>2, <1>4, <1>5 DEF t

LEMMA ConcatRange ==
  ASSUME NEW U, NEW s \in Seq(U), NEW t \in Seq(U)
  PROVE  /\ s \o t \in Seq(U) /\ Len(s \o t) = Len(s) + Len(t)
         /\ Range(s \o t) = Range(s) \cup Range(t)
<1> DEFINE u == s \o t
           n == Len(s)
           m == Len(t)
<1>1. n \in Nat /\ m \in Nat /\ DOMAIN s = 1..n /\ DOMAIN t = 1..m
  OBVIOUS
<1>2. /\ u \in Seq(U) /\ Len(u) = n + m /\ DOMAIN u = 1..(n + m)
      /\ \A i \in 1..n : u[i] = s[i]
      /\ \A i \in 1..m : u[n + i] = t[i]
  OBVIOUS
<1> HIDE DEF u, n, m
<1>3. /\ \A i \in 1..n : i \in 1..(n + m)
      /\ \A i \in 1..m : n + i \in 1..(n + m)
      /\ \A i \in 1..(n + m) : i \in 1..n \/ (i - n \in 1..m /\ i = n + (i - n))
  BY <1>1
<1>4. \A y : y \in Range(u) <=> \E i \in 1..(n + m) : u[i] = y
  BY <1>2 DEF Range
<1>5. \A y : y \in Range(s) <=> \E i \in 1..n : s[i] = y
  BY <1>1 DEF Range
<1>6. \A y : y \in Range(t) <=> \E i \in 1..m : t[i] = y
  BY <1>1 DEF Range
<1>7. ASSUME NEW y \in Range(u) PROVE y \in Range(s) \cup Range(t)
  <2>1. PICK i \in 1..(n + m) : u[i] = y
    BY <1>4, <1>7
  <2>2. CASE i \in 1..n
    BY <1>2, <1>5, <2>1, <2>2
  <2>3. CASE i \notin 1..n
    <3>1. PICK k \in 1..m : i = n + k
      BY <1>3, <2>3
    <3>2. t[k] = y
      BY <1>2, <2>1, <3>1
    <3> QED
      BY <1>6, <3>2
  <2> QED
    BY <2>2, <2>3
<1>8. ASSUME NEW y \in Range(s) \cup Range(t) PROVE y \in Range(u)
  BY <1>2, <1>3, <1>4, <1>5, <1>6, <1>8
<1>9. Range(u) = Range(s) \cup Range(t)
  BY <1>7, <1>8
<1> QED
  BY <1>2, <1>9 DEF u, n, m

\* How often a stored block has its parents pushed, and what is still to come.
PushCount == [h \in store |-> Len(Pushed(h))]
Remaining(w) == Len(w.stack) + SumFunctionOnSet(PushCount, store \ Range(w.visited))

\* A walk over lists of hashes in U: what was pushed and is stored has been
\* visited, once, or is still on the stack.
Walkable(U) == IsFiniteSet(store) /\ \A h \in store : Pushed(h) \in Seq(U)

Waits(x, w) == x \in store => x \in Range(w.visited) \cup Range(w.stack)

WalkInv(w, U, start) ==
  /\ w.stack \in Seq(U) /\ w.visited \in Seq(store) /\ Once(w.visited)
  /\ \A x \in Range(start) : Waits(x, w)
  /\ \A h \in Range(w.visited) : \A p \in Range(Pushed(h)) : Waits(p, w)

\* The number of rounds left.
LEMMA RemainingNat ==
  ASSUME NEW U, Walkable(U), NEW w, w.stack \in Seq(U)
  PROVE  Remaining(w) \in Nat /\ Remaining(w) >= Len(w.stack)
<1>1. \A h \in store : PushCount[h] \in Nat
  BY DEF PushCount, Walkable
<1>2. IsFiniteSet(store \ Range(w.visited))
  BY FS_Subset DEF Walkable
<1>3. SumFunctionOnSet(PushCount, store \ Range(w.visited)) \in Nat
  <2> DEFINE S == store \ Range(w.visited)
  <2>1. \A h \in S : PushCount[h] \in Nat
    BY <1>1
  <2> HIDE DEF S
  <2>2. SumFunctionOnSet(PushCount, S) \in Nat
    BY <1>2, <2>1, SumNat DEF S
  <2> QED
    BY <2>2 DEF S
<1>4. Len(w.stack) \in Nat
  OBVIOUS
<1> QED
  BY <1>3, <1>4 DEF Remaining

\* A round keeps the invariant and leaves one round less.
LEMMA RoundWalks ==
  ASSUME NEW U, Walkable(U), NEW start, NEW w, WalkInv(w, U, start), w.stack # <<>>
  PROVE  WalkInv(WalkRound(w), U, start) /\ Remaining(WalkRound(w)) = Remaining(w) - 1
<1> DEFINE h == Last(w.stack)
           rest == Front(w.stack)
           v == WalkRound(w)
<1>1. /\ rest \in Seq(U) /\ Len(rest) = Len(w.stack) - 1 /\ h \in U
      /\ Range(w.stack) = Range(rest) \cup {h}
  BY FrontRange DEF WalkInv
<1>2. CASE h \in Range(w.visited) \/ h \notin store
  <2>1. v = [stack |-> rest, visited |-> w.visited]
    BY <1>2 DEF WalkRound
  <2> HIDE DEF v, rest, h
  <2>2. v.stack = rest /\ v.visited = w.visited
    BY <2>1
  <2>3. \A x : Waits(x, w) => Waits(x, v)
    BY <1>1, <1>2, <2>2 DEF Waits
  <2>4. WalkInv(v, U, start)
    BY <1>1, <2>2, <2>3, Zenon DEF WalkInv
  <2>5. Remaining(v) = Remaining(w) - 1
    <3> DEFINE b == SumFunctionOnSet(PushCount, store \ Range(w.visited))
    <3>1. Remaining(w) = Len(w.stack) + b /\ Remaining(v) = Len(rest) + b
      BY <2>2 DEF Remaining
    <3>2. Remaining(w) \in Nat /\ Len(w.stack) \in Nat
      BY RemainingNat DEF WalkInv
    <3>3. Remaining(v) \in Nat
      BY <1>1, <2>2, RemainingNat
    <3>4. b \in Int
      <4> DEFINE S == store \ Range(w.visited)
      <4>1. IsFiniteSet(S)
        BY FS_Subset, S \in SUBSET store DEF Walkable
      <4>2. \A g \in S : PushCount[g] \in Nat
        BY DEF PushCount, Walkable
      <4> HIDE DEF S
      <4>3. SumFunctionOnSet(PushCount, S) \in Nat
        BY <4>1, <4>2, SumNat
      <4> QED
        BY <4>3 DEF S
    <3> HIDE DEF b
    <3> QED
      BY <1>1, <3>1, <3>2, <3>4
  <2> QED
    BY <2>4, <2>5 DEF v
<1>3. CASE h \notin Range(w.visited) /\ h \in store
  <2>1. v = [stack |-> rest \o Pushed(h), visited |-> Append(w.visited, h)]
    BY <1>3 DEF WalkRound
  <2>2. Pushed(h) \in Seq(U)
    BY <1>3 DEF Walkable
  <2> DEFINE ps == Pushed(h)
  <2> HIDE DEF v, rest, h
  <2>3. v.stack = rest \o ps /\ v.visited = Append(w.visited, h)
    BY <2>1
  <2>4. /\ v.stack \in Seq(U) /\ Len(v.stack) = Len(rest) + Len(ps)
        /\ Range(v.stack) = Range(rest) \cup Range(ps)
    <3>1. ps \in Seq(U) /\ rest \in Seq(U)
      BY <1>1, <2>2
    <3> HIDE DEF ps
    <3>2. /\ rest \o ps \in Seq(U) /\ Len(rest \o ps) = Len(rest) + Len(ps)
          /\ Range(rest \o ps) = Range(rest) \cup Range(ps)
      BY <3>1, ConcatRange, Zenon
    <3>3. v.stack = rest \o ps
      BY <2>3 DEF ps
    <3> QED
      BY <3>2, <3>3, Zenon
  <2>5. /\ v.visited \in Seq(store) /\ Range(v.visited) = Range(w.visited) \cup {h}
        /\ Once(v.visited)
    BY <1>3, <2>3, AppendRange DEF WalkInv
  <2>6. \A x : Waits(x, w) => Waits(x, v)
    BY <1>1, <2>4, <2>5 DEF Waits
  <2>7. \A p \in Range(ps) : Waits(p, v)
    BY <2>4 DEF Waits
  <2>8. \A g \in Range(v.visited) : \A p \in Range(Pushed(g)) : Waits(p, v)
    <3>1. TAKE g \in Range(v.visited)
    <3>2. CASE g = h
      BY <2>7, <3>2, Zenon
    <3>3. CASE g # h
      <4>1. g \in Range(w.visited)
        BY <2>5, <3>3
      <4> QED
        BY <2>6, <4>1, Zenon DEF WalkInv
    <3> QED
      BY <3>2, <3>3
  <2>9. WalkInv(v, U, start)
    BY <2>4, <2>5, <2>6, <2>8, Zenon DEF WalkInv
  <2>10. Remaining(v) = Remaining(w) - 1
    <3> DEFINE S == store \ Range(w.visited)
               b == SumFunctionOnSet(PushCount, S \ {h})
    <3>1. IsFiniteSet(S) /\ h \in S /\ \A g \in S : PushCount[g] \in Nat
      <4>1. IsFiniteSet(S)
        BY FS_Subset, S \in SUBSET store DEF Walkable
      <4>2. h \in S
        BY <1>3
      <4>3. \A g \in S : PushCount[g] \in Nat
        BY DEF PushCount, Walkable
      <4> QED
        BY <4>1, <4>2, <4>3
    <3>2. PushCount[h] = Len(ps) /\ Len(ps) \in Nat
      BY <1>3, <2>2 DEF PushCount
    <3>3. store \ Range(v.visited) = S \ {h}
      BY <2>5
    <3> HIDE DEF S
    <3>4. SumFunctionOnSet(PushCount, S) = PushCount[h] + b
      BY <3>1, SumRemove
    <3>5. b \in Nat
      <4>1. IsFiniteSet(S \ {h}) /\ \A g \in S \ {h} : PushCount[g] \in Nat
        BY <3>1, FS_Subset
      <4> QED
        BY <4>1, SumNat
    <3> HIDE DEF b, ps
    <3>6. Remaining(v) = Len(v.stack) + b
      BY <3>3, Zenon DEF Remaining, b
    <3>7. Remaining(w) = Len(w.stack) + (Len(ps) + b)
      BY <3>2, <3>4, Zenon DEF Remaining, S
    <3>8. Len(w.stack) \in Nat
      BY DEF WalkInv
    <3>9. Len(v.stack) = (Len(w.stack) - 1) + Len(ps)
      BY <1>1, <2>4, Zenon
    <3>10. PICK p : p = Len(ps)
      OBVIOUS
    <3>11. PICK m : m = Len(w.stack)
      OBVIOUS
    <3>12. PICK z : z = Len(v.stack)
      OBVIOUS
    <3>13. p \in Nat /\ m \in Nat /\ z = (m - 1) + p
      BY <3>2, <3>8, <3>9, <3>10, <3>11, <3>12
    <3>14. Remaining(v) = z + b
      BY <3>6, <3>12, Zenon
    <3>15. Remaining(w) = m + (p + b)
      BY <3>7, <3>10, <3>11, Zenon
    <3> QED
      BY <3>5, <3>13, <3>14, <3>15
  <2> QED
    BY <2>9, <2>10 DEF v
<1> QED
  BY <1>2, <1>3

\* The first n rounds of a walk.
WalkTable(start, n, f) ==
  f = [k \in 0..n |-> IF k = 0 THEN [stack |-> start, visited |-> <<>>] ELSE WalkRound(f[k - 1])]

LEMMA WalksExist ==
  ASSUME NEW start
  PROVE  \A k \in Nat : \E f : WalkTable(start, k, f)
<1> DEFINE w0 == [stack |-> start, visited |-> <<>>]
           T == {k \in Nat : \E f : WalkTable(start, k, f)}
<1>1. 0 \in T
  <2>1. WalkTable(start, 0, [n \in 0..0 |-> w0])
    BY DEF WalkTable
  <2> QED
    BY <2>1
<1>2. ASSUME NEW k \in Nat, k \in T PROVE k + 1 \in T
  <2>1. PICK f : WalkTable(start, k, f)
    BY <1>2
  <2> DEFINE g == [n \in 0..(k + 1) |-> IF n = k + 1 THEN WalkRound(f[k]) ELSE f[n]]
  <2>2. \A n \in 0..k : f[n] = IF n = 0 THEN w0 ELSE WalkRound(f[n - 1])
    BY <2>1 DEF WalkTable
  <2> HIDE DEF w0
  <2>3. ASSUME NEW n \in 0..(k + 1) PROVE g[n] = IF n = 0 THEN w0 ELSE WalkRound(g[n - 1])
    <3>1. CASE n = 0
      BY <2>2, <3>1
    <3>2. CASE n # 0 /\ n # k + 1
      <4>1. n \in 0..k /\ n - 1 \in 0..k /\ n - 1 # k + 1 /\ n - 1 \in 0..(k + 1)
        BY <3>2
      <4>2. g[n] = f[n] /\ g[n - 1] = f[n - 1]
        BY <3>2, <4>1
      <4> QED
        BY <2>2, <3>2, <4>1, <4>2, Zenon
    <3>3. CASE n = k + 1
      <4>1. n - 1 = k /\ k \in 0..(k + 1) /\ k # k + 1 /\ n # 0
        BY <3>3
      <4>2. g[k] = f[k] /\ g[n] = WalkRound(f[k])
        BY <3>3, <4>1
      <4> QED
        BY <4>1, <4>2, Zenon
    <3> QED
      BY <3>1, <3>2, <3>3
  <2>4. g = [n \in 0..(k + 1) |-> g[n]]
    OBVIOUS
  <2> HIDE DEF g
  <2>5. g = [n \in 0..(k + 1) |-> IF n = 0 THEN w0 ELSE WalkRound(g[n - 1])]
    BY <2>3, <2>4, Zenon
  <2> QED
    BY <2>5 DEF WalkTable, w0
<1> HIDE DEF T
<1>3. Nat \subseteq T
  BY <1>1, <1>2, SetInduction
<1> QED
  BY <1>3 DEF T

\* A walk visits, once, the stored hashes it starts from and, with a block, its
\* stored parents.
LEMMA WalkVisits ==
  ASSUME NEW U, Walkable(U), NEW start \in Seq(U)
  PROVE  /\ Walk(start) \in Seq(store) /\ Once(Walk(start))
         /\ \A x \in Range(start) : x \in store => x \in Range(Walk(start))
         /\ \A h \in Range(Walk(start)) : \A p \in Range(Pushed(h)) :
              p \in store => p \in Range(Walk(start))
<1> DEFINE N == Rounds(start)
           w0 == [stack |-> start, visited |-> <<>>]
           f == WalkRounds(start)
<1>1. Remaining(w0) = N
  <2>1. w0.stack = start /\ w0.visited = <<>> /\ Range(<<>>) = {}
    BY DEF Range
  <2>2. store \ Range(w0.visited) = store
    BY <2>1
  <2> QED
    BY <2>1, <2>2, Zenon DEF Remaining, Rounds, PushCount
<1>2. N \in Nat
  <2>1. w0.stack \in Seq(U)
    OBVIOUS
  <2> HIDE DEF w0, N
  <2> QED
    BY <1>1, <2>1, RemainingNat
<1>3. WalkTable(start, N, f)
  <2>1. f = CHOOSE x : WalkTable(start, N, x)
    BY DEF WalkRounds, WalkTable
  <2>2. \E x : WalkTable(start, N, x)
    BY <1>2, WalksExist
  <2> QED
    BY <2>1, <2>2, Zenon
<1> HIDE DEF f
<1>4. f[0] = w0 /\ \A n \in 1..N : f[n] = WalkRound(f[n - 1])
  <2>1. \A n \in 0..N : f[n] = IF n = 0 THEN w0 ELSE WalkRound(f[n - 1])
    BY <1>3 DEF WalkTable
  <2> HIDE DEF w0, N
  <2> QED
    BY <1>2, <2>1
<1>5. WalkInv(w0, U, start)
  <2>1. w0.stack = start /\ w0.visited = <<>> /\ Range(<<>>) = {}
    BY DEF Range
  <2>2. <<>> \in Seq(store) /\ Once(<<>>)
    BY DEF Once
  <2> HIDE DEF w0
  <2> QED
    BY <2>1, <2>2 DEF WalkInv, Waits
<1> HIDE DEF w0, N
<1> DEFINE Good(n) == /\ WalkInv(f[n], U, start)
                      /\ f[n].stack = <<>> \/ Remaining(f[n]) <= N - n
           T == {n \in Nat : n <= N => Good(n)}
<1>6. 0 \in T
  BY <1>1, <1>2, <1>4, <1>5
<1>7. ASSUME NEW n \in Nat, n \in T PROVE n + 1 \in T
  <2>1. SUFFICES ASSUME n + 1 <= N PROVE Good(n + 1)
    OBVIOUS
  <2>2. n <= N /\ n + 1 \in 1..N /\ (n + 1) - 1 = n
    BY <1>2, <2>1
  <2>3. Good(n)
    BY <1>7, <2>2
  <2>4. f[n + 1] = WalkRound(f[n])
    BY <1>4, <2>2, Zenon
  <2>5. CASE f[n].stack = <<>>
    <3>1. f[n + 1] = f[n]
      BY <2>4, <2>5 DEF WalkRound
    <3> QED
      BY <2>3, <2>5, <3>1
  <2>6. CASE f[n].stack # <<>>
    <3>1. WalkInv(f[n + 1], U, start) /\ Remaining(f[n + 1]) = Remaining(f[n]) - 1
      BY <2>3, <2>4, <2>6, RoundWalks
    <3>2. Remaining(f[n]) \in Nat
      BY <2>3, RemainingNat DEF WalkInv
    <3>3. Remaining(f[n]) <= N - n
      BY <2>3, <2>6
    <3>4. Remaining(f[n + 1]) <= N - (n + 1)
      BY <1>2, <3>1, <3>2, <3>3
    <3> QED
      BY <3>1, <3>4
  <2> QED
    BY <2>5, <2>6
<1> HIDE DEF T
<1>8. Nat \subseteq T
  BY <1>6, <1>7, SetInduction
<1>9. Good(N)
  <2>1. N \in T /\ N <= N
    BY <1>2, <1>8
  <2> QED
    BY <2>1 DEF T
<1>10. f[N].stack = <<>>
  <2>1. SUFFICES ASSUME Remaining(f[N]) <= N - N PROVE f[N].stack = <<>>
    BY <1>9
  <2>2. f[N].stack \in Seq(U)
    BY <1>9 DEF WalkInv
  <2>3. Remaining(f[N]) \in Nat /\ Remaining(f[N]) >= Len(f[N].stack)
    BY <2>2, RemainingNat
  <2>4. Len(f[N].stack) = 0
    BY <1>2, <2>1, <2>2, <2>3
  <2> QED
    BY <2>2, <2>4
<1>11. Walk(start) = f[N].visited
  BY DEF Walk, N, f
<1>12. Range(f[N].stack) = {}
  BY <1>10 DEF Range
<1>13. \A x : Waits(x, f[N]) => (x \in store => x \in Range(f[N].visited))
  BY <1>12 DEF Waits
<1> HIDE DEF f
<1> QED
  BY <1>9, <1>11, <1>13, Zenon DEF WalkInv

----------------------------------------------------------------------------
(* The history of an address                                               *)

\* The matches among the first n of a walk.
UpTo(M, n) == {i \in M : i <= n}

LEMMA UpToFacts ==
  ASSUME NEW L \in Nat, NEW M \in SUBSET (1..L)
  PROVE  /\ IsFiniteSet(M) /\ Cardinality(M) \in Nat
         /\ Cardinality(UpTo(M, 0)) = 0 /\ UpTo(M, L) = M
         /\ \A n \in Nat : /\ IsFiniteSet(UpTo(M, n)) /\ Cardinality(UpTo(M, n)) \in Nat
                           /\ Cardinality(UpTo(M, n)) <= Cardinality(M)
                           /\ Cardinality(UpTo(M, n + 1)) <= Cardinality(UpTo(M, n)) + 1
<1>1. IsFiniteSet(M) /\ Cardinality(M) \in Nat
  <2>1. IsFiniteSet(1..L)
    BY FS_Interval
  <2>2. IsFiniteSet(M)
    BY <2>1, FS_Subset, Zenon
  <2> QED
    BY <2>2, FS_CardinalityType
<1>2. Cardinality(UpTo(M, 0)) = 0 /\ UpTo(M, L) = M
  <2>1. \A i \in M : i \in Nat /\ ~(i <= 0) /\ i <= L
    OBVIOUS
  <2>2. UpTo(M, 0) = {} /\ UpTo(M, L) = M
    BY <2>1 DEF UpTo
  <2> QED
    BY <2>2, FS_EmptySet
<1>3. \A n \in Nat : /\ IsFiniteSet(UpTo(M, n)) /\ Cardinality(UpTo(M, n)) \in Nat
                     /\ Cardinality(UpTo(M, n)) <= Cardinality(M)
  <2>1. TAKE n \in Nat
  <2>2. UpTo(M, n) \in SUBSET M
    BY DEF UpTo
  <2>3. IsFiniteSet(UpTo(M, n)) /\ Cardinality(UpTo(M, n)) <= Cardinality(M)
    BY <1>1, <2>2, FS_Subset, Zenon
  <2> QED
    BY <2>3, FS_CardinalityType
<1>4. ASSUME NEW n \in Nat PROVE Cardinality(UpTo(M, n + 1)) <= Cardinality(UpTo(M, n)) + 1
  <2> DEFINE A == UpTo(M, n)
             B == UpTo(M, n + 1)
  <2>1. B = A \/ B = A \cup {n + 1}
    <3>1. \A i \in M : i \in Nat /\ (i <= n + 1 <=> i <= n \/ i = n + 1)
      OBVIOUS
    <3>2. ~(n + 1 <= n)
      OBVIOUS
    <3> QED
      BY <3>1, <3>2 DEF UpTo
  <2>2. IsFiniteSet(A) /\ Cardinality(A) \in Nat
    BY <1>3
  <2> HIDE DEF A, B
  <2>3. CASE B = A
    BY <2>2, <2>3 DEF A, B
  <2>4. CASE B = A \cup {n + 1}
    <3>1. Cardinality(A \cup {n + 1}) = IF n + 1 \in A THEN Cardinality(A) ELSE Cardinality(A) + 1
      BY <2>2, FS_AddElement, Zenon
    <3>2. Cardinality(A \cup {n + 1}) <= Cardinality(A) + 1
      BY <2>2, <3>1
    <3> QED
      BY <2>4, <3>2, Zenon DEF A, B
  <2> QED
    BY <2>1, <2>3, <2>4
<1> QED
  BY <1>1, <1>2, <1>3, <1>4

\* The smaller of two numbers.
LEMMA MinOfTwo ==
  ASSUME NEW a \in Nat, NEW b \in Nat, a <= b
  PROVE  Min({a, b}) = a /\ Min({b, a}) = a
BY DEF Min

\* Of a walk that is within MAX_SCANNED all matches are found, or MAX_MATCHED.
LEMMA MatchedCount ==
  ASSUME ExplorerAssumption, NEW S, NEW walk \in Seq(S), Len(walk) <= MAX_SCANNED, NEW a
  PROVE  /\ Matched(walk, a) \in SUBSET Matches(walk, a)
         /\ Matches(walk, a) \in SUBSET (1..Len(walk))
         /\ IsFiniteSet(Matched(walk, a))
         /\ Cardinality(Matched(walk, a)) = Min({MAX_MATCHED, Cardinality(Matches(walk, a))})
<1> DEFINE L == Len(walk)
           M == Matches(walk, a)
           found(n) == Cardinality(UpTo(M, n))
           X == {n \in 0..L : n > 0 => found(n - 1) < MAX_MATCHED}
<1>1. L \in Nat /\ M \in SUBSET (1..L) /\ MAX_SCANNED \in Nat /\ MAX_MATCHED \in Nat \ {0}
  BY DEF Matches, ExplorerAssumption
<1>2. Min({L, MAX_SCANNED}) = L
  BY <1>1, MinOfTwo
<1>3. Scanned(walk, a) = Max(X)
  BY <1>2, Zenon DEF Scanned, UpTo
<1>4. Matched(walk, a) = UpTo(M, Scanned(walk, a))
  BY DEF Matched, UpTo
<1> HIDE DEF M, L
<1>5. /\ IsFiniteSet(M) /\ Cardinality(M) \in Nat
      /\ found(0) = 0 /\ UpTo(M, L) = M
      /\ \A n \in Nat : /\ IsFiniteSet(UpTo(M, n)) /\ found(n) \in Nat
                        /\ found(n) <= Cardinality(M)
                        /\ found(n + 1) <= found(n) + 1
  BY <1>1, UpToFacts
<1> HIDE DEF found
<1>6. PICK s \in X : \A n \in X : n <= s
  <2> DEFINE f == [n \in X |-> n]
  <2>1. X \in SUBSET (0..L) /\ 0 \in X
    BY <1>1
  <2>2. IsFiniteSet(X)
    <3>1. IsFiniteSet(0..L)
      BY <1>1, FS_Interval
    <3> HIDE DEF X
    <3> QED
      BY <2>1, <3>1, FS_Subset
  <2>3. \A n \in X : f[n] \in Nat /\ f[n] = n
    BY <2>1
  <2> HIDE DEF X, f
  <2>4. \E m \in X : \A n \in X : f[n] <= f[m]
    BY <2>1, <2>2, <2>3, GreatestBy
  <2> QED
    BY <2>3, <2>4
<1>7. Scanned(walk, a) = s
  <2>1. \A n \in X : n \in Nat
    BY <1>1
  <2> HIDE DEF X
  <2> QED
    BY <1>3, <1>6, <2>1 DEF Max
<1>8. s \in 0..L /\ (s > 0 => found(s - 1) < MAX_MATCHED)
  BY <1>6
<1>9. found(s) = Min({MAX_MATCHED, Cardinality(M)})
  <2>1. found(s) \in Nat /\ found(s) <= Cardinality(M) /\ found(s) <= MAX_MATCHED
    <3>1. CASE s = 0
      BY <1>1, <1>5, <3>1
    <3>2. CASE s # 0
      <4>1. s - 1 \in Nat /\ (s - 1) + 1 = s /\ s > 0 /\ s \in Nat
        BY <1>8, <3>2
      <4>2. found(s) <= found(s - 1) + 1 /\ found(s - 1) \in Nat /\ found(s) \in Nat
        BY <1>5, <4>1
      <4>3. found(s - 1) < MAX_MATCHED /\ found(s) <= Cardinality(M)
        BY <1>5, <1>8, <4>1
      <4>4. found(s) <= MAX_MATCHED
        BY <1>1, <4>2, <4>3
      <4> QED
        BY <4>2, <4>3, <4>4
    <3> QED
      BY <3>1, <3>2
  <2>2. CASE s = L
    <3>1. found(s) = Cardinality(M)
      BY <1>5, <2>2 DEF found
    <3> QED
      BY <1>1, <2>1, <3>1, MinOfTwo
  <2>3. CASE s # L
    <3>1. s + 1 \in 0..L /\ s + 1 > 0 /\ (s + 1) - 1 = s /\ ~(s + 1 <= s)
      BY <1>1, <1>8, <2>3
    <3>2. s + 1 \notin X
      <4> HIDE DEF X
      <4> QED
        BY <1>6, <3>1
    <3>3. ~(found(s) < MAX_MATCHED)
      <4>1. ~(found((s + 1) - 1) < MAX_MATCHED)
        BY <3>1, <3>2
      <4> QED
        BY <3>1, <4>1
    <3>4. found(s) = MAX_MATCHED
      BY <1>1, <2>1, <3>3
    <3> QED
      BY <1>1, <1>5, <2>1, <3>4, MinOfTwo
  <2> QED
    BY <2>2, <2>3
<1>10. s \in Nat
  BY <1>8
<1>11. Matched(walk, a) = UpTo(M, s)
  BY <1>4, <1>7
<1>12. UpTo(M, s) \in SUBSET M
  BY DEF UpTo
<1>13. IsFiniteSet(UpTo(M, s))
  BY <1>5, <1>10
<1> QED
  BY <1>1, <1>9, <1>11, <1>12, <1>13, Zenon DEF M, L, found

\* A block scores more than its parents, which are stored.
LEMMA ParentScored ==
  ASSUME IInv, ShapeInv, NEW h \in store, NEW p \in Range(blocks[h].parents)
  PROVE  /\ p \in store /\ h # Genesis
         /\ blocks[h].score \in Nat /\ blocks[p].score \in Nat
         /\ blocks[p].score < blocks[h].score
<1> DEFINE ps == blocks[h].parents
           d == ProcessBlock(ps, NetGd)
<1>1. store \subseteq DOMAIN gd /\ h \in DOMAIN gd
  BY DEF IInv, StoreInv, GdStored
<1>2. h # Genesis
  BY DEF ShapeInv, Range
<1>3. p \in store
  BY <1>1 DEF ShapeInv, HasParents
<1>4. /\ h \in DOMAIN blocks /\ gd[h] = blocks[h].data
      /\ blocks[h].score = gd[h].score /\ blocks[h].score \in Nat
      /\ p \in DOMAIN blocks /\ gd[p] = blocks[p].data
      /\ blocks[p].score = gd[p].score /\ blocks[p].score \in Nat
  BY <1>1, <1>3, EntryFacts
<1>5. d = blocks[h].data /\ Range(ps) \subseteq DOMAIN blocks /\ ps \in Seq(DOMAIN blocks) /\ ps # <<>>
  BY <1>2, <1>4 DEF IInv, NetInv, ShapeInv, ListOf, HasParents
<1>6. /\ Range(ps) \subseteq DOMAIN NetGd
      /\ \A q \in Range(ps) : NetGd[q].score \in Nat /\ NetGd[q].work \in Nat
      /\ NetGd[p] = blocks[p].data
  BY <1>4, <1>5 DEF NetGd, ShapeInv
<1>7. NetGd[p].score < d.score
  <2>1. p \in Range(ps)
    OBVIOUS
  <2> HIDE DEF ps
  <2> QED
    BY <1>5, <1>6, <2>1, ProcessFacts
<1> QED
  BY <1>2, <1>3, <1>4, <1>5, <1>6, <1>7

\* A block scores more than its ancestors.
LEMMA PastScored ==
  ASSUME IInv, ShapeInv, KinInv
  PROVE  \A h \in store : blocks[h].score \in Nat
                          /\ \A q \in blocks[h].past : q \in store /\ blocks[q].score < blocks[h].score
<1> DEFINE Below(h) == \A q \in blocks[h].past : q \in store /\ blocks[q].score < blocks[h].score
           T == {n \in Nat : \A h \in store : blocks[h].score < n => Below(h)}
<1>1. \A h \in store : h \in DOMAIN blocks /\ blocks[h].score \in Nat
  <2>1. store \subseteq DOMAIN gd
    BY DEF IInv, StoreInv, GdStored
  <2> QED
    BY <2>1, EntryFacts
<1>2. 0 \in T
  BY <1>1
<1>3. ASSUME NEW n \in Nat, n \in T PROVE n + 1 \in T
  <2>1. SUFFICES ASSUME NEW h \in store, blocks[h].score < n + 1, NEW q \in blocks[h].past
                 PROVE  q \in store /\ blocks[q].score < blocks[h].score
    OBVIOUS
  <2>2. blocks[h].past = Range(blocks[h].parents) \cup UNION {blocks[p].past : p \in Range(blocks[h].parents)}
    BY <1>1 DEF KinInv, PastOK, PastIn
  <2>3. CASE q \in Range(blocks[h].parents)
    BY <2>3, ParentScored
  <2>4. CASE q \notin Range(blocks[h].parents)
    <3>1. PICK p \in Range(blocks[h].parents) : q \in blocks[p].past
      BY <2>1, <2>2, <2>4
    <3>2. /\ p \in store /\ blocks[p].score < blocks[h].score
          /\ blocks[h].score \in Nat /\ blocks[p].score \in Nat
      BY ParentScored
    <3>3. blocks[p].score < n
      BY <2>1, <3>2
    <3>4. q \in store /\ blocks[q].score < blocks[p].score
      BY <1>3, <3>1, <3>2, <3>3
    <3>5. blocks[q].score \in Nat
      BY <1>1, <3>4
    <3> QED
      BY <3>2, <3>4, <3>5
  <2> QED
    BY <2>3, <2>4
<1> HIDE DEF T
<1>4. Nat \subseteq T
  BY <1>2, <1>3, SetInduction
<1>5. ASSUME NEW h \in store PROVE Below(h)
  <2>1. blocks[h].score + 1 \in T /\ blocks[h].score < blocks[h].score + 1
    BY <1>1, <1>4
  <2> QED
    BY <2>1 DEF T
<1> QED
  BY <1>1, <1>5

\* The walk from the tips visits every stored block once.
LEMMA FromTipsVisits ==
  ASSUME IInv, ShapeInv, Quiet, TipsExact
  PROVE  /\ FromTips \in Seq(store) /\ Once(FromTips) /\ Range(FromTips) = store
         /\ IsFiniteSet(store)
<1> DEFINE U == DOMAIN blocks
           R == Range(FromTips)
<1>1. IsFiniteSet(store) /\ store \subseteq U
  <2>1. store \in SUBSET DOMAIN blocks
    BY DEF IInv, StoreInv, GdStored, StoreTypeOK
  <2>2. IsFiniteSet(DOMAIN blocks)
    BY DEF ShapeInv
  <2> QED
    BY <2>1, <2>2, FS_Subset
<1>2. \A h \in store : blocks[h].parents \in Seq(U)
  <2>1. blocks[Genesis].parents = <<>> /\ <<>> \in Seq(U)
    BY DEF ShapeInv
  <2>2. \A h \in U \ {Genesis} : blocks[h].parents \in Seq(U)
    BY DEF ShapeInv, ListOf
  <2> HIDE DEF U
  <2> QED
    BY <1>1, <2>1, <2>2
<1>3. tips \in Seq(U)
  <2>1. tips \in Seq(store)
    BY DEF IInv, StoreTypeOK
  <2> QED
    BY <1>1, <2>1
<1>4. Walkable(U)
  BY <1>1, <1>2 DEF Walkable, Pushed
<1> HIDE DEF U
<1>5. /\ FromTips \in Seq(store) /\ Once(FromTips)
      /\ \A x \in Range(tips) : x \in store => x \in R
      /\ \A h \in R : \A p \in Range(blocks[h].parents) : p \in store => p \in R
  BY <1>3, <1>4, WalkVisits DEF FromTips, Pushed
<1>6. R \subseteq store
  BY <1>5 DEF Range
<1> HIDE DEF R
<1>7. ASSUME store \ R # {} PROVE FALSE
  <2> DEFINE X == store \ R
             f == [x \in X |-> blocks[x].score]
  <2>1. \A x \in X : f[x] = blocks[x].score /\ f[x] \in Nat
    <3>1. store \subseteq DOMAIN gd
      BY DEF IInv, StoreInv, GdStored
    <3> QED
      BY <3>1, EntryFacts
  <2>2. IsFiniteSet(X) /\ X # {}
    <3>1. X \in SUBSET store
      OBVIOUS
    <3> HIDE DEF X
    <3>2. IsFiniteSet(X)
      BY <1>1, <3>1, FS_Subset
    <3> QED
      BY <1>7, <3>2 DEF X
  <2> HIDE DEF f
  <2>3. PICK h \in X : \A x \in X : f[x] <= f[h]
    <3> HIDE DEF X
    <3> QED
      BY <2>1, <2>2, GreatestBy
  <2>4. ASSUME NEW c \in store, h \in Range(blocks[c].parents) PROVE FALSE
    <3>1. /\ blocks[c].score \in Nat /\ blocks[h].score \in Nat
          /\ blocks[h].score < blocks[c].score
      BY <2>4, ParentScored
    <3>2. c \notin X
      BY <2>1, <2>3, <3>1
    <3>3. c \in R
      BY <2>4, <3>2
    <3> QED
      BY <1>5, <2>3, <2>4, <3>3
  <2>5. h \in Range(tips)
    BY <2>3, <2>4 DEF TipsExact
  <2> QED
    BY <1>5, <2>3, <2>5
<1> QED
  BY <1>1, <1>5, <1>6, <1>7 DEF R

\* Of a walk that lists every block once, the positions that match are as many
\* as the blocks.
LEMMA MatchesCount ==
  ASSUME NEW walk \in Seq(store), Once(walk), Range(walk) = store, IsFiniteSet(store), NEW a
  PROVE  /\ Cardinality(Matches(walk, a)) = Cardinality({h \in store : Involves(h, a)})
         /\ Len(walk) = Cardinality(store)
<1> DEFINE M == Matches(walk, a)
           A == {h \in store : Involves(h, a)}
           L == Len(walk)
           D == 1..L
<1>1. L \in Nat /\ DOMAIN walk = 1..L
  OBVIOUS
<1>2. \A i, j \in 1..L : walk[i] = walk[j] => i = j
  BY <1>1 DEF Once
<1>3. \A h : h \in store <=> \E i \in 1..L : walk[i] = h
  BY <1>1 DEF Range
<1>4. M \subseteq 1..L /\ \A i \in 1..L : i \in M <=> Involves(walk[i], a)
  BY <1>1 DEF Matches
<1>5. IsFiniteSet(D) /\ Cardinality(D) = L /\ IsFiniteSet(M)
  <2>1. IsFiniteSet(D) /\ Cardinality(D) = L
    BY <1>1, FS_Interval
  <2>2. M \in SUBSET D
    BY <1>4
  <2> HIDE DEF M, D
  <2> QED
    BY <2>1, <2>2, FS_Subset
<1> HIDE DEF M, L
<1>6. ExistsBijection(M, A)
  <2> DEFINE b == [i \in M |-> walk[i]]
  <2>1. b \in [M -> A] /\ \A x \in A : \E i \in M : b[i] = x
    BY <1>3, <1>4
  <2>2. \A i, j \in M : b[i] = b[j] => i = j
    BY <1>2, <1>4
  <2> HIDE DEF b, A
  <2>3. b \in Bijection(M, A)
    BY <2>1, <2>2 DEF Bijection, Injection, Surjection, IsInjective
  <2> QED
    BY <2>3 DEF ExistsBijection
<1>7. ExistsBijection(D, store)
  <2> DEFINE b == [i \in D |-> walk[i]]
  <2>1. b \in [D -> store] /\ \A x \in store : \E i \in D : b[i] = x
    BY <1>3
  <2>2. \A i, j \in D : b[i] = b[j] => i = j
    BY <1>2
  <2> HIDE DEF b, D
  <2>3. b \in Bijection(D, store)
    BY <2>1, <2>2 DEF Bijection, Injection, Surjection, IsInjective
  <2> QED
    BY <2>3 DEF ExistsBijection
<1>8. Cardinality(M) = Cardinality(A)
  <2> HIDE DEF A
  <2> QED
    BY <1>5, <1>6, FS_Bijection
<1>9. L = Cardinality(store)
  <2> HIDE DEF D
  <2> QED
    BY <1>5, <1>7, FS_Bijection
<1> QED
  BY <1>8, <1>9 DEF M, L

\* The order of the rows is strict.
LEMMA ScoreOrders ==
  ASSUME NEW walk, NEW S, S \subseteq Nat, \A i \in S : blocks[walk[i]].score \in Nat
  PROVE  /\ Orders(ByScore(walk, S), S)
         /\ \A i \in S : <<i, i>> \notin ByScore(walk, S)
         /\ \A i, j \in S : <<i, j>> \in ByScore(walk, S)
              => i # j /\ blocks[walk[i]].score <= blocks[walk[j]].score
<1> DEFINE f == [i \in S |-> blocks[walk[i]].score]
           B == ByScore(walk, S)
<1>1. \A i \in S : f[i] = blocks[walk[i]].score /\ f[i] \in Nat /\ i \in Nat
  OBVIOUS
<1>2. \A i, j \in S : <<i, j>> \in B <=> f[i] < f[j] \/ (f[i] = f[j] /\ i < j)
  BY DEF ByScore
<1> HIDE DEF f, B
<1>3. ASSUME NEW x \in S, NEW y \in S, NEW z \in S, <<x, y>> \in B, <<y, z>> \in B
      PROVE  <<x, z>> \in B
  BY <1>1, <1>2, <1>3
<1>4. ASSUME NEW x \in S, NEW y \in S, x # y PROVE <<x, y>> \in B \/ <<y, x>> \in B
  BY <1>1, <1>2, <1>4
<1>5. \A i \in S : <<i, i>> \notin B
  BY <1>1, <1>2
<1>6. \A i, j \in S : <<i, j>> \in B => i # j /\ f[i] <= f[j]
  BY <1>1, <1>2
<1>7. Orders(B, S)
  BY <1>3, <1>4 DEF Orders
<1> QED
  BY <1>1, <1>5, <1>6, <1>7 DEF B

\* The history of an address lists the blocks found, lowest score first.
LEMMA HistoryRows ==
  ASSUME NEW S, IsFiniteSet(S), NEW walk, S \subseteq Nat,
         \A i \in S : blocks[walk[i]].score \in Nat
  PROVE  \A n, m \in 1..Cardinality(S) :
           LET B == ByScore(walk, S)
           IN  /\ Nth(S, B, n) \in S /\ Nth(S, B, m) \in S
               /\ n < m => /\ Nth(S, B, n) # Nth(S, B, m)
                           /\ blocks[walk[Nth(S, B, n)]].score <= blocks[walk[Nth(S, B, m)]].score
<1> DEFINE B == ByScore(walk, S)
           at(n) == Nth(S, B, n)
<1>1. /\ Orders(B, S)
      /\ \A i \in S : <<i, i>> \notin B
      /\ \A i, j \in S : <<i, j>> \in B => i # j /\ blocks[walk[i]].score <= blocks[walk[j]].score
  BY ScoreOrders
<1> HIDE DEF B
<1>2. \A n \in 1..Cardinality(S) : \E i \in S : Cardinality(Ahead(i, B, S)) = n - 1
  BY <1>1, RankExists
<1>3. \A n \in 1..Cardinality(S) : at(n) \in S /\ Cardinality(Ahead(at(n), B, S)) = n - 1
  BY <1>2 DEF Nth, Ahead
<1>4. Cardinality(S) \in Nat
  BY FS_CardinalityType
<1> HIDE DEF at
<1>5. ASSUME NEW n \in 1..Cardinality(S), NEW m \in 1..Cardinality(S), n < m
      PROVE  <<at(n), at(m)>> \in B
  <2>1. at(n) \in S /\ at(m) \in S
    BY <1>3
  <2>2. Cardinality(Ahead(at(n), B, S)) < Cardinality(Ahead(at(m), B, S))
    BY <1>3, <1>4, <1>5
  <2> QED
    BY <1>1, <2>1, <2>2, FewerIsAhead
<1>6. \A n, m \in 1..Cardinality(S) :
        /\ at(n) \in S /\ at(m) \in S
        /\ n < m => at(n) # at(m) /\ blocks[walk[at(n)]].score <= blocks[walk[at(m)]].score
  BY <1>1, <1>3, <1>5
<1> QED
  BY <1>6 DEF at, B

\* The history of an address is complete and in order.
LEMMA HistoryAnswers ==
  ASSUME ExplorerAssumption, IInv, ShapeInv, KinInv, Quiet, TipsExact,
         Cardinality(store) <= MAX_SCANNED, NEW a
  PROVE  LET rows == GetAddressBlocks(a)
             all  == {h \in store : Involves(h, a)}
         IN  /\ {rows[n].hash : n \in DOMAIN rows} \subseteq all
             /\ Len(rows) = Min({MAX_MATCHED, Cardinality(all)})
             /\ \A n, m \in DOMAIN rows : n < m =>
                  rows[m].hash \notin blocks[rows[n].hash].past \cup {rows[n].hash}
<1> DEFINE walk == FromTips
           S    == Matched(walk, a)
           B    == ByScore(walk, S)
           at(n) == Nth(S, B, n)
           rows == GetAddressBlocks(a)
           all  == {h \in store : Involves(h, a)}
           k    == Cardinality(S)
<1>1. walk \in Seq(store) /\ Once(walk) /\ Range(walk) = store /\ IsFiniteSet(store)
  BY FromTipsVisits
<1>2. Cardinality(Matches(walk, a)) = Cardinality(all) /\ Len(walk) = Cardinality(store)
  <2> HIDE DEF walk
  <2> QED
    BY <1>1, MatchesCount
<1>3. /\ S \in SUBSET Matches(walk, a) /\ Matches(walk, a) \in SUBSET (1..Len(walk))
      /\ IsFiniteSet(S) /\ k = Min({MAX_MATCHED, Cardinality(all)})
  <2>1. Len(walk) <= MAX_SCANNED
    BY <1>2
  <2> HIDE DEF walk, all
  <2> QED
    BY <1>1, <1>2, <2>1, MatchedCount
<1>4. \A i \in S : i \in Nat /\ i \in 1..Len(walk) /\ walk[i] \in store /\ Involves(walk[i], a)
  BY <1>1, <1>3 DEF Matches
<1>5. \A h \in store : blocks[h].score \in Nat
                       /\ \A q \in blocks[h].past : blocks[q].score < blocks[h].score
  BY PastScored
<1>6. \A n, m \in 1..k : /\ at(n) \in S /\ at(m) \in S
                         /\ n < m => /\ at(n) # at(m)
                                     /\ blocks[walk[at(n)]].score <= blocks[walk[at(m)]].score
  <2>1. S \subseteq Nat /\ \A i \in S : blocks[walk[i]].score \in Nat
    BY <1>4, <1>5
  <2> HIDE DEF walk, S
  <2> QED
    BY <1>3, <2>1, HistoryRows
<1>7. k \in Nat
  <2> HIDE DEF S
  <2> QED
    BY <1>3, FS_CardinalityType
<1>8. /\ DOMAIN rows = 1..k
      /\ Len(rows) = k
      /\ \A n \in 1..k : rows[n].hash = walk[at(n)]
  <2> DEFINE row(n) == walk[Nth(S, B, n)]
             r == [n \in 1..k |-> [hash |-> row(n), selected |-> row(n) \in Chain,
                                   confirmations |-> Confirmations(row(n))]]
  <2>1. rows = r
    BY Zenon DEF GetAddressBlocks
  <2> HIDE DEF rows, S, B, walk, k
  <2>2. DOMAIN r = 1..k /\ \A n \in 1..k : r[n].hash = row(n)
    OBVIOUS
  <2> HIDE DEF r
  <2>3. Len(rows) = k
    BY <1>7, <2>1, <2>2 DEF r
  <2> QED
    BY <2>1, <2>2, <2>3
<1> HIDE DEF rows, at, S, B, walk, k
<1>9. \A n \in 1..k : rows[n].hash \in all
  BY <1>4, <1>6, <1>8
<1>10. ASSUME NEW n \in 1..k, NEW m \in 1..k, n < m
       PROVE  rows[m].hash \notin blocks[rows[n].hash].past \cup {rows[n].hash}
  <2> DEFINE x == walk[at(n)]
             y == walk[at(m)]
  <2>1. rows[n].hash = x /\ rows[m].hash = y
    BY <1>8
  <2>2. /\ at(n) \in S /\ at(m) \in S /\ at(n) # at(m)
        /\ blocks[x].score <= blocks[y].score
    BY <1>6, <1>10
  <2>3. x \in store /\ y \in store /\ at(n) \in DOMAIN walk /\ at(m) \in DOMAIN walk
    BY <1>1, <1>4, <2>2
  <2>4. x # y
    BY <1>1, <2>2, <2>3 DEF Once
  <2> HIDE DEF x, y
  <2>5. y \notin blocks[x].past
    <3>1. blocks[x].score \in Nat /\ blocks[y].score \in Nat
      BY <1>5, <2>3
    <3>2. ~(blocks[y].score < blocks[x].score)
      BY <2>2, <3>1
    <3> QED
      BY <1>5, <2>3, <3>2
  <2> QED
    BY <2>1, <2>4, <2>5
<1>11. {rows[n].hash : n \in DOMAIN rows} \subseteq all
  BY <1>8, <1>9
<1> HIDE DEF all
<1>12. Len(rows) = Min({MAX_MATCHED, Cardinality(all)})
  BY <1>3, <1>8
<1> QED
  BY <1>8, <1>10, <1>11, <1>12 DEF rows, all

\* "A wallet always sees its full history": until a crash, whatever branches a
\* node has stored, the history of an address lists every stored block that
\* involves it, once, up to the cap, and no block before an ancestor.
THEOREM HistoryIsComplete ==
  ASSUME OneThread
  PROVE  Spec => [](crashes = 0 => HistoryComplete)
<1> DEFINE Ok == crashes = 0 => TipsExact
           Safe == crashes = 0 => HistoryComplete
<1>1. IInv /\ ShapeInv /\ KinInv /\ Ok => Safe
  BY ExplorerAssumption, HistoryAnswers, Zenon DEF HistoryComplete
<1> HIDE DEF Ok, Safe
<1>2. Spec => []Ok
  BY TipsAreExact DEF Ok
<1>3. IInv /\ ShapeInv /\ [Next]_vars => ShapeInv'
  BY NextShape
<1>4. Spec => []ShapeInv
  BY <1>3, InitShape, StoreInvariant, PTL DEF Spec
<1>5. Spec => []Safe
  BY <1>1, <1>2, <1>4, KinAlways, PTL
<1> QED
  BY <1>5 DEF Safe

----------------------------------------------------------------------------
(* What has taken effect is shown                                          *)

\* In the block that stands for the common prefix, as in every other block, only
\* the first transaction may be a coinbase.
GenesisHeaded == \A i \in DOMAIN GenesisTxs : GenesisTxs[i].coinbase => i = 1

\* The first of some positions of a walk.
LEMMA FirstIsVisited ==
  ASSUME NEW S, NEW walk \in Seq(S), NEW hits, hits \subseteq DOMAIN walk, hits # {}
  PROVE  \E n \in hits : FirstVisited(walk, hits) = walk[n]
<1>1. hits \subseteq Nat
  OBVIOUS
<1>2. PICK m \in hits : \A n \in hits : m <= n
  BY <1>1, LeastNat
<1>3. Min(hits) \in hits
  BY <1>2 DEF Min
<1> QED
  BY <1>3 DEF FirstVisited

\* The walk from the selected tip visits its chain and all that chain has merged.
LEMMA FromTipVisits ==
  ASSUME IInv, ShapeInv
  PROVE  /\ SelectedTip \in store /\ SelectedTip \in DOMAIN gd
         /\ FromTip \in Seq(store)
         /\ Path(gd, SelectedTip) \cup PathMerges(gd, SelectedTip) \subseteq Range(FromTip)
<1> DEFINE U == DOMAIN blocks
           R == Range(FromTip)
           tip == SelectedTip
<1>1. store \subseteq U /\ store \subseteq DOMAIN gd /\ IsFiniteSet(store)
  <2>1. store \in SUBSET DOMAIN blocks /\ store \subseteq DOMAIN gd
    BY DEF IInv, StoreInv, GdStored, StoreTypeOK
  <2>2. IsFiniteSet(DOMAIN blocks)
    BY DEF ShapeInv
  <2> QED
    BY <2>1, <2>2, FS_Subset
<1>2. \A h \in store : blocks[h].parents \in Seq(U)
  <2>1. blocks[Genesis].parents = <<>> /\ <<>> \in Seq(U)
    BY DEF ShapeInv
  <2>2. \A h \in U \ {Genesis} : blocks[h].parents \in Seq(U)
    BY DEF ShapeInv, ListOf
  <2> HIDE DEF U
  <2> QED
    BY <1>1, <2>1, <2>2
<1>3. tip \in store
  BY TipIsStored DEF SelectedTip
<1>4. Walkable(U)
  BY <1>1, <1>2 DEF Walkable, Pushed
<1> HIDE DEF U, tip
<1>5. <<tip>> \in Seq(U) /\ Range(<<tip>>) = {tip}
  BY <1>1, <1>3 DEF Range
<1>6. FromTip = Walk(<<tip>>)
  BY DEF FromTip, tip
<1>7. /\ FromTip \in Seq(store) /\ tip \in R
      /\ \A h \in R : \A p \in Range(blocks[h].parents) : p \in store => p \in R
  BY <1>3, <1>4, <1>5, <1>6, WalkVisits DEF Pushed
<1> HIDE DEF R
<1> DEFINE P == {y \in DOMAIN gd : y \in R => Path(gd, y) \cup PathMerges(gd, y) \subseteq R}
<1>8. GdTree(gd, Genesis) /\ gd[Genesis].blues = {}
  BY EntriesAreTree, GenesisEntry DEF GenesisData
<1>9. Genesis \in P
  <2>1. Path(gd, Genesis) = {Genesis}
    BY <1>8, PathRoot
  <2>2. PathMerges(gd, Genesis) = {}
    BY <1>8, <2>1 DEF PathMerges
  <2> QED
    BY <1>8, <2>1, <2>2 DEF GdTree
<1>10. ASSUME NEW h \in DOMAIN gd \ {Genesis}, gd[h].selected \in P PROVE h \in P
  <2> DEFINE s == gd[h].selected
  <2>1. /\ Path(gd, h) = {h} \cup Path(gd, s)
        /\ PathMerges(gd, h) = gd[h].blues \cup PathMerges(gd, s)
    BY <1>8, PathStep, MergesStep
  <2>2. /\ s \in Range(blocks[h].parents) /\ gd[h].blues \subseteq Range(blocks[h].parents)
        /\ s \in store /\ gd[h].blues \subseteq store
    BY ParentsChosen, EntryFacts
  <2>3. SUFFICES ASSUME h \in R PROVE Path(gd, h) \cup PathMerges(gd, h) \subseteq R
    OBVIOUS
  <2>4. s \in R /\ gd[h].blues \subseteq R
    BY <1>7, <2>2, <2>3
  <2> QED
    BY <1>10, <2>1, <2>3, <2>4
<1> HIDE DEF P
<1>11. DOMAIN gd \subseteq P
  BY <1>8, <1>9, <1>10, TreeInduction
<1>12. tip \in DOMAIN gd /\ Path(gd, tip) \cup PathMerges(gd, tip) \subseteq R
  BY <1>1, <1>3, <1>7, <1>11 DEF P
<1> QED
  BY <1>3, <1>7, <1>12 DEF tip, R

\* No stored block is higher than the selected tip.
LEMMA TipIsHighest ==
  ASSUME IInv, ShapeInv, Quiet, TipsExact
  PROVE  /\ Height \in Nat
         /\ \A h \in store : blocks[h].score \in Nat /\ blocks[h].score <= Height
<1> DEFINE f == [x \in store |-> blocks[x].score]
           T == Range(tips)
<1>1. /\ IsFiniteSet(store) /\ store \subseteq DOMAIN gd /\ store \subseteq Nat
      /\ Genesis \in store
  <2>1. store \in SUBSET DOMAIN blocks /\ store \subseteq DOMAIN gd /\ Genesis \in store
    BY DEF IInv, StoreInv, GdStored, StoreTypeOK, NetInv
  <2>2. IsFiniteSet(DOMAIN blocks)
    BY DEF ShapeInv
  <2>3. DOMAIN blocks \subseteq Nat
    BY HashAssumption DEF IInv, StoreTypeOK
  <2> QED
    BY <2>1, <2>2, <2>3, FS_Subset
<1>2. \A x \in store : f[x] = blocks[x].score /\ f[x] \in Nat
  BY <1>1, EntryFacts
<1> HIDE DEF f
<1>3. PICK h \in store : \A x \in store : f[x] <= f[h]
  BY <1>1, <1>2, GreatestBy
<1>4. ASSUME NEW c \in store, h \in Range(blocks[c].parents) PROVE FALSE
  <2>1. /\ blocks[c].score \in Nat /\ blocks[h].score \in Nat
        /\ blocks[h].score < blocks[c].score
    BY <1>4, ParentScored
  <2> QED
    BY <1>2, <1>3, <2>1
<1>5. h \in T
  BY <1>3, <1>4 DEF TipsExact
<1>6. T \cap headers = T /\ T \subseteq store
  BY TipIsStored
<1>7. IsFiniteSet(T) /\ T \subseteq Nat
  BY <1>1, <1>6, FS_Subset
<1>8. \A t \in T : blocks[t].score \in Nat /\ blocks[t].work \in Nat
  BY <1>1, <1>6, EntryFacts
<1>9. SelectedTip = BestTip(blocks, T)
  BY <1>6 DEF SelectedTip
<1> HIDE DEF T
<1>10. SelectedTip \in T /\ \A t \in T : blocks[t].score <= blocks[SelectedTip].score
  BY <1>5, <1>7, <1>8, <1>9, BestTipExists
<1>11. f[h] <= f[SelectedTip] /\ SelectedTip \in store /\ Height = f[SelectedTip]
  BY <1>2, <1>5, <1>6, <1>10 DEF Height
<1>12. \A x \in store : f[x] <= f[SelectedTip]
  BY <1>2, <1>3, <1>11
<1> QED
  BY <1>2, <1>11, <1>12

\* A transaction that has taken effect is found, no higher than the tip.
LEMMA TransactionShown ==
  ASSUME IInv, ShapeInv, KinInv, BlocksTyped, Quiet, TipsExact, NEW tx \in ChainTxs
  PROVE  \E d \in GetTransactionDetail(tx.id) :
           d.confirmations + d.height = Height + 1 /\ GetBlockDetail(d.height) # Zero
<1> DEFINE walk == FromTip
           id == tx.id
           hits == {n \in DOMAIN walk : \E x \in TxsOf(walk[n]) : x.id = id}
<1>1. /\ walk \in Seq(store) /\ Chain \cup Merged \subseteq Range(walk)
      /\ SelectedTip \in DOMAIN gd
  BY FromTipVisits DEF Chain, Merged, Path, PathMerges
<1>2. PICK h \in Chain \cup Merged : tx \in TxsOf(h)
  <2>1. CASE \E h \in Chain : tx \in Range(blocks[h].txs)
    BY <2>1 DEF TxsOf
  <2>2. CASE \E m \in Merged \ {Genesis} : tx = Head(blocks[m].txs)
    <3>1. PICK m \in Merged \ {Genesis} : tx = Head(blocks[m].txs)
      BY <2>2
    <3>2. m \in store /\ m \in DOMAIN gd
      BY <1>1, <3>1 DEF Range, IInv, StoreInv, GdStored
    <3>3. blocks[m].txs \in Seq(TxType) /\ m \in DOMAIN blocks
      BY <3>2, EntryFacts DEF BlocksTyped
    <3>4. 1 \in DOMAIN blocks[m].txs
      BY <3>1, <3>3 DEF KinInv, HeadOK
    <3>5. Head(blocks[m].txs) = blocks[m].txs[1]
      BY <3>3, <3>4
    <3>6. tx \in TxsOf(m)
      BY <3>1, <3>4, <3>5 DEF TxsOf, Range
    <3> QED
      BY <3>1, <3>6
  <2> QED
    BY <2>1, <2>2 DEF ChainTxs
<1> HIDE DEF walk
<1>3. hits # {} /\ hits \subseteq DOMAIN walk
  <2>1. PICK n \in DOMAIN walk : walk[n] = h
    BY <1>1, <1>2 DEF Range
  <2> QED
    BY <1>2, <2>1
<1>4. PICK n \in hits : FirstVisited(walk, hits) = walk[n]
  <2> HIDE DEF hits
  <2> QED
    BY <1>1, <1>3, FirstIsVisited
<1>5. PICK b \in store : b = walk[n] /\ n \in DOMAIN walk
  BY <1>1, <1>4
<1>6. GetTransaction(id) = b
  BY <1>4, <1>5 DEF GetTransaction, walk
<1>7. Zero \notin store
  BY HashAssumption DEF Zero, IInv, StoreTypeOK
<1>8. /\ Height \in Nat /\ blocks[b].score \in Nat /\ blocks[b].score <= Height
  BY <1>5, TipIsHighest
<1>9. GetBlockDetail(blocks[b].score) # Zero
  <2> DEFINE S == {k \in DOMAIN walk : blocks[walk[k]].score = blocks[b].score}
  <2>1. S # {} /\ S \subseteq DOMAIN walk
    BY <1>5
  <2>2. GetBlockDetail(blocks[b].score) = FirstVisited(walk, S)
    BY DEF GetBlockDetail, walk
  <2> HIDE DEF S
  <2>3. PICK k \in S : FirstVisited(walk, S) = walk[k]
    BY <1>1, <2>1, FirstIsVisited
  <2>4. walk[k] \in store
    BY <1>1, <2>1
  <2> QED
    BY <1>7, <2>2, <2>3, <2>4
<1>10. \E d \in GetTransactionDetail(id) : d.height = blocks[b].score /\ d.confirmations = Confirmations(b)
  <2>1. b # Zero
    BY <1>5, <1>7
  <2> QED
    BY <1>6, <2>1, Zenon DEF GetTransactionDetail
<1>11. Confirmations(b) = Height - blocks[b].score + 1
  BY <1>8 DEF Confirmations
<1>12. PICK d \in GetTransactionDetail(id) : d.height = blocks[b].score /\ d.confirmations = Confirmations(b)
  BY <1>10
<1>13. d.confirmations + d.height = Height + 1
  BY <1>8, <1>11, <1>12
<1> QED
  BY <1>9, <1>12, <1>13

\* The transactions of a walk, and the outputs that pay an address, are as many
\* as their positions, and amounts are naturals.
LEMMA PaidOnTyped ==
  ASSUME IInv, BlocksTyped, NEW walk \in Seq(store), NEW a
  PROVE  /\ IsFiniteSet(PaidOn(walk, a)) /\ IsFiniteSet(MinedOn(walk, a))
         /\ \A q \in PaidOn(walk, a) : TxAt(walk, q).outputs[q[3]].amount \in Nat
<1> DEFINE D == DOMAIN walk
           B == [n \in D |-> {n} \X DOMAIN blocks[walk[n]].txs]
           X == TxsOn(walk)
           K == [p \in X |-> {<<p[1], p[2], i>> : i \in Paid(TxAt(walk, p), a)}]
<1>1. IsFiniteSet(D) /\ \A n \in D : walk[n] \in store
  <2>1. D = 1..Len(walk) /\ Len(walk) \in Nat
    OBVIOUS
  <2> QED
    BY <2>1, FS_Interval
<1>2. \A n \in D : blocks[walk[n]].txs \in Seq(TxType)
  BY <1>1 DEF BlocksTyped, IInv, StoreInv, GdStored
<1>3. X = UNION {B[n] : n \in D}
  BY DEF TxsOn
<1>4. \A n \in D : IsFiniteSet(B[n])
  <2>1. TAKE n \in D
  <2>2. PICK s \in Seq(TxType) : s = blocks[walk[n]].txs
    BY <1>2
  <2>3. DOMAIN s = 1..Len(s) /\ Len(s) \in Nat
    OBVIOUS
  <2>5. IsFiniteSet(DOMAIN s)
    BY <2>3, FS_Interval
  <2>6. IsFiniteSet({n})
    BY FS_Singleton
  <2>4. IsFiniteSet({n} \X DOMAIN s)
    BY <2>5, <2>6, FS_Product
  <2> QED
    BY <2>2, <2>4
<1>5. IsFiniteSet(X)
  <2> HIDE DEF B, D, X
  <2>1. IsFiniteSet({B[n] : n \in D})
    BY <1>1, FiniteImage
  <2>2. \A T \in {B[n] : n \in D} : IsFiniteSet(T)
    BY <1>4
  <2> QED
    BY <1>3, <2>1, <2>2, FS_UNION
<1>6. ASSUME NEW p \in X
      PROVE  /\ TxAt(walk, p) \in TxType
             /\ \A i : TxAt(walk, <<p[1], p[2], i>>) = TxAt(walk, p)
  <2>1. PICK n \in D : \E i \in DOMAIN blocks[walk[n]].txs : p = <<n, i>>
    BY <1>3
  <2>0. PICK i \in DOMAIN blocks[walk[n]].txs : p = <<n, i>>
    BY <2>1
  <2>2. TxAt(walk, p) = blocks[walk[n]].txs[i]
    BY <2>0 DEF TxAt
  <2>3. TxAt(walk, p) \in TxType
    BY <1>2, <2>2
  <2> QED
    BY <2>3 DEF TxAt
<1>7. \A p \in X : \A i \in Paid(TxAt(walk, p), a) :
        i \in DOMAIN TxAt(walk, p).outputs /\ TxAt(walk, p).outputs[i].amount \in Nat
  <2>1. SUFFICES ASSUME NEW x \in TxType, NEW i \in Paid(x, a)
                 PROVE  i \in DOMAIN x.outputs /\ x.outputs[i].amount \in Nat
    BY <1>6
  <2>2. i \in DOMAIN x.outputs /\ x.outputs \in Seq(OutputType)
    BY DEF Paid, StandardOutputs, TxType
  <2>3. x.outputs[i] \in OutputType
    BY <2>2
  <2> QED
    BY <2>2, <2>3 DEF OutputType
<1>8. \A p \in X : IsFiniteSet(K[p])
  <2>1. TAKE p \in X
  <2>2. PICK x \in TxType : x = TxAt(walk, p)
    BY <1>6
  <2>3. x.outputs \in Seq(OutputType) /\ Paid(x, a) \in SUBSET DOMAIN x.outputs
    BY DEF TxType, Paid, StandardOutputs
  <2>4. DOMAIN x.outputs = 1..Len(x.outputs) /\ Len(x.outputs) \in Nat
    BY <2>3
  <2>5. IsFiniteSet(DOMAIN x.outputs)
    BY <2>4, FS_Interval
  <2>6. IsFiniteSet(Paid(x, a))
    BY <2>3, <2>5, FS_Subset
  <2> DEFINE c == [i \in Paid(x, a) |-> <<p[1], p[2], i>>]
  <2>7. K[p] = {c[i] : i \in Paid(x, a)}
    BY <2>2
  <2> HIDE DEF c, K
  <2> QED
    BY <2>6, <2>7, FiniteImage
<1>9. PaidOn(walk, a) = UNION {K[p] : p \in X}
  BY DEF PaidOn
<1>10. IsFiniteSet(PaidOn(walk, a))
  <2> HIDE DEF K, X
  <2>1. IsFiniteSet({K[p] : p \in X})
    BY <1>5, FiniteImage
  <2>2. \A T \in {K[p] : p \in X} : IsFiniteSet(T)
    BY <1>8
  <2> QED
    BY <1>9, <2>1, <2>2, FS_UNION
<1>11. IsFiniteSet(MinedOn(walk, a))
  <2>1. MinedOn(walk, a) \in SUBSET D
    BY DEF MinedOn
  <2> QED
    BY <1>1, <2>1, FS_Subset
<1>12. ASSUME NEW q \in PaidOn(walk, a) PROVE TxAt(walk, q).outputs[q[3]].amount \in Nat
  <2>1. PICK p \in X : \E i \in Paid(TxAt(walk, p), a) : q = <<p[1], p[2], i>>
    BY <1>9
  <2>2. PICK i \in Paid(TxAt(walk, p), a) : q = <<p[1], p[2], i>>
    BY <2>1
  <2>3. TxAt(walk, q) = TxAt(walk, p) /\ q[3] = i
    BY <1>6, <2>2
  <2> QED
    BY <1>7, <2>2, <2>3
<1> QED
  BY <1>10, <1>11, <1>12

\* Output q of a walk is what coin op of the ledger was made by.
CoinAt(walk, q, op) ==
  /\ q[1] \in DOMAIN walk /\ q[2] \in DOMAIN blocks[walk[q[1]]].txs
  /\ q[3] \in StandardOutputs(TxAt(walk, q))
  /\ op = <<TxAt(walk, q).id, q[3]>>
  /\ led.utxo[op].amount = TxAt(walk, q).outputs[q[3]].amount
  /\ led.utxo[op].owner = TxAt(walk, q).outputs[q[3]].owner
  /\ led.utxo[op].coinbase = TxAt(walk, q).coinbase

\* On a walk over the selected chain and what it has merged, each coin of the
\* ledger has its output, and that of a coinbase is of the first transaction.
LEMMA CoinsOnWalk ==
  ASSUME GenesisHeaded, KinInv, ChainKnown, NEW walk \in Seq(store),
         Path(gd, SelectedTip) \cup PathMerges(gd, SelectedTip) \subseteq Range(walk),
         NEW op \in DOMAIN led.utxo
  PROVE  \E n \in Nat, i \in Nat, k \in Nat :
           CoinAt(walk, <<n, i, k>>, op) /\ (led.utxo[op].coinbase => i = 1)
<1> DEFINE tip == SelectedTip
           E == Effects(blocks, gd, tip)
<1>1. /\ Staged(blocks, gd, Genesis, store) /\ gd[Genesis].blues = {}
      /\ tip \in DOMAIN gd /\ led = Replay(tip, blocks, gd, store)
      /\ ChainValid(blocks, gd, Genesis, store, tip)
  BY DEF ChainKnown, Staged, LedgerAt
<1> HIDE DEF tip
<1>2. Sourced(led.utxo, blocks, E)
  BY <1>1, LedgerSourced
<1>3. PICK e \in E : Made(led.utxo, TxOf(blocks, e), blocks[e[1]].score, op)
  BY <1>2 DEF Sourced
<1>4. PICK h, i :
        /\ e = <<h, i>> /\ i \in Nat
        /\ \/ h \in Path(gd, tip) /\ i \in DOMAIN blocks[h].txs
           \/ h \in PathMerges(gd, tip) /\ i = 1
  <2>1. CASE e \in Path(gd, tip) \X Nat /\ e[2] \in DOMAIN blocks[e[1]].txs
    <3>1. PICK h \in Path(gd, tip) : \E i \in Nat : e = <<h, i>>
      BY <2>1
    <3>2. PICK i \in Nat : e = <<h, i>>
      BY <3>1
    <3> QED
      BY <2>1, <3>1, <3>2
  <2>2. CASE e \in PathMerges(gd, tip) \X {1}
    <3>1. PICK h \in PathMerges(gd, tip) : e = <<h, 1>>
      BY <2>2
    <3> QED
      BY <3>1
  <2> QED
    BY <2>1, <2>2 DEF Effects
<1>5. PICK n \in DOMAIN walk : walk[n] = h
  BY <1>4 DEF Range, tip
<1>6. h \in DOMAIN gd /\ n \in Nat
  BY <1>1, <1>5 DEF Staged
<1>7. i \in DOMAIN blocks[h].txs
  BY <1>1, <1>4, <1>6 DEF Staged
<1>8. PICK x : x = blocks[h].txs[i]
  OBVIOUS
<1>9. op \in OutPoints(x) /\ led.utxo[op] = Entries(x, blocks[h].score)[op]
  BY <1>3, <1>4, <1>8 DEF Made, TxOf
<1>10. PICK k \in StandardOutputs(x) : op = <<x.id, k>>
  BY <1>9 DEF OutPoints
<1>11. /\ led.utxo[op].amount = x.outputs[k].amount
       /\ led.utxo[op].owner = x.outputs[k].owner
       /\ led.utxo[op].coinbase = x.coinbase
  BY <1>9, <1>10 DEF Entries
<1>12. TxAt(walk, <<n, i, k>>) = x
  BY <1>5, <1>8 DEF TxAt
<1>13. CoinAt(walk, <<n, i, k>>, op)
  BY <1>5, <1>7, <1>10, <1>11, <1>12 DEF CoinAt
<1>14. x.coinbase => i = 1
  <2>1. CASE h = Genesis
    <3>1. x = GenesisTxs[i] /\ i \in DOMAIN GenesisTxs
      BY <1>7, <1>8, <2>1 DEF KinInv, GenesisBlock
    <3> QED
      BY <3>1 DEF GenesisHeaded
  <2>2. CASE h # Genesis /\ h \in Path(gd, tip)
    <3>1. ValidateTransactions(Replay(gd[h].selected, blocks, gd, store), blocks[h])
      BY <1>1, <2>2 DEF ChainValid
    <3>2. blocks[h].txs[i].coinbase <=> i = 1
      BY <1>7, <3>1 DEF ValidateTransactions
    <3> QED
      BY <1>8, <3>2
  <2> QED
    BY <1>4, <2>1, <2>2
<1>15. k \in Nat
  <2>1. x \in TxType
    <3>1. blocks[h].txs \in Seq(TxType)
      BY <1>1, <1>6 DEF Staged, Typed, IsBlock
    <3> QED
      BY <1>7, <1>8, <3>1
  <2>2. k \in DOMAIN x.outputs /\ x.outputs \in Seq(OutputType)
    BY <1>10, <2>1 DEF StandardOutputs, TxType
  <2> QED
    BY <2>2
<1>16. CoinAt(walk, <<n, i, k>>, op) /\ (led.utxo[op].coinbase => i = 1)
  BY <1>11, <1>13, <1>14
<1> QED
  BY <1>4, <1>6, <1>15, <1>16, Zenon

\* An output of a walk that is a coin of an address is one that pays it.
LEMMA CoinIsPaid ==
  ASSUME NEW walk, NEW n, NEW i, NEW k, NEW op, NEW a,
         CoinAt(walk, <<n, i, k>>, op), led.utxo[op].owner = a
  PROVE  <<n, i, k>> \in PaidOn(walk, a) /\ k \in Paid(TxAt(walk, <<n, i, k>>), a)
<1>1. /\ n \in DOMAIN walk /\ i \in DOMAIN blocks[walk[n]].txs
      /\ TxAt(walk, <<n, i, k>>) = TxAt(walk, <<n, i>>)
      /\ k \in Paid(TxAt(walk, <<n, i>>), a)
  BY DEF CoinAt, Paid, TxAt
<1>2. <<n, i>> \in TxsOn(walk)
  BY <1>1 DEF TxsOn
<1>3. PICK p : p = <<n, i>>
  OBVIOUS
<1>4. <<n, i, k>> \in {<<p[1], p[2], j>> : j \in Paid(TxAt(walk, p), a)}
  BY <1>1, <1>3
<1> QED
  BY <1>1, <1>2, <1>3, <1>4 DEF PaidOn

\* An address is shown to have received what it owns.
LEMMA BalanceShown ==
  ASSUME IInv, BlocksTyped, led \in LedgerType, NEW walk \in Seq(store), NEW a,
         \A op \in DOMAIN led.utxo : \E n \in Nat, i \in Nat, k \in Nat : CoinAt(walk, <<n, i, k>>, op)
  PROVE  Balance(a) <= Received(walk, a, PaidOn(walk, a))
<1> DEFINE C == CoinsOf(a)
           Q == PaidOn(walk, a)
           f == [op \in C |-> led.utxo[op].amount]
           g == [q \in Q |-> TxAt(walk, q).outputs[q[3]].amount]
           At(q, op) == q \in Q /\ CoinAt(walk, q, op)
           b == [op \in C |-> CHOOSE q : At(q, op)]
<1>1. IsFiniteSet(C) /\ \A op \in C : f[op] \in Nat
  <2>1. led.utxo \in UtxoType
    BY DEF LedgerType
  <2>2. C \in SUBSET DOMAIN led.utxo
    BY DEF CoinsOf
  <2>3. IsFiniteSet(DOMAIN led.utxo) /\ \A op \in DOMAIN led.utxo : led.utxo[op] \in EntryType
    BY <2>1, UtxoElim
  <2> HIDE DEF C
  <2>4. IsFiniteSet(C)
    BY <2>2, <2>3, FS_Subset
  <2>5. \A op \in C : led.utxo[op].amount \in Nat
    BY <2>2, <2>3 DEF EntryType
  <2> QED
    BY <2>4, <2>5
<1>2. IsFiniteSet(Q) /\ \A q \in Q : g[q] \in Nat
  BY PaidOnTyped
<1>3. ASSUME NEW op \in C PROVE At(b[op], op)
  <2>1. op \in DOMAIN led.utxo /\ led.utxo[op].owner = a
    BY DEF CoinsOf
  <2>2. PICK n \in Nat, i \in Nat, k \in Nat : CoinAt(walk, <<n, i, k>>, op)
    BY <2>1
  <2>3. <<n, i, k>> \in Q
    BY <2>1, <2>2, CoinIsPaid
  <2>4. \E q : At(q, op)
    BY <2>2, <2>3
  <2> HIDE DEF At, C
  <2> QED
    BY <2>4
<1>4. \A x, y \in C : b[x] = b[y] => x = y
  <2>1. SUFFICES ASSUME NEW x \in C, NEW y \in C, b[x] = b[y] PROVE x = y
    OBVIOUS
  <2>2. CoinAt(walk, b[x], x) /\ CoinAt(walk, b[y], y)
    BY <1>3
  <2> HIDE DEF b, C
  <2> QED
    BY <2>1, <2>2 DEF CoinAt
<1>5. \A x \in C : f[x] \in Nat /\ g[b[x]] = f[x]
  <2>1. TAKE x \in C
  <2>2. b[x] \in Q /\ CoinAt(walk, b[x], x)
    BY <1>3
  <2> HIDE DEF b, C, Q
  <2>3. led.utxo[x].amount = TxAt(walk, b[x]).outputs[b[x][3]].amount
    BY <2>2 DEF CoinAt
  <2> QED
    BY <1>1, <2>2, <2>3
<1>6. {b[x] : x \in C} \subseteq Q
  BY <1>3
<1>7. Balance(a) = SumFunctionOnSet(f, C) /\ Received(walk, a, Q) = SumFunctionOnSet(g, Q)
  <2>1. DOMAIN f = C /\ DOMAIN g = Q
    BY Zenon
  <2>2. Balance(a) = SumFunctionOnSet(f, DOMAIN f)
    BY Zenon DEF Balance, SumFunction
  <2>3. Received(walk, a, Q) = SumFunctionOnSet(g, DOMAIN g)
    BY Zenon DEF Received, SumFunction
  <2> QED
    BY <2>1, <2>2, <2>3, Zenon
<1> HIDE DEF b, f, g, C, Q, At
<1>8. SumFunctionOnSet(g, {b[x] : x \in C}) = SumFunctionOnSet(f, C)
  <2>1. PICK S : S = C
    OBVIOUS
  <2>2. IsFiniteSet(S)
    BY <1>1, <2>1
  <2>3. \A x, y \in S : b[x] = b[y] => x = y
    BY <1>4, <2>1
  <2>4. \A x \in S : f[x] \in Nat /\ g[b[x]] = f[x]
    BY <1>5, <2>1
  <2>5. SumFunctionOnSet(g, {b[x] : x \in S}) = SumFunctionOnSet(f, S)
    BY <2>2, <2>3, <2>4, SumImage
  <2> QED
    BY <2>1, <2>5
<1>9. SumFunctionOnSet(g, {b[x] : x \in C}) <= SumFunctionOnSet(g, Q)
  BY <1>2, <1>6, SumSubset
<1> QED
  BY <1>7, <1>8, <1>9 DEF Q

\* And to have mined as many blocks as it owns coinbases.
LEMMA MinedShown ==
  ASSUME IInv, BlocksTyped, NEW walk \in Seq(store), NEW a,
         \A op \in DOMAIN led.utxo : \E n \in Nat, i \in Nat, k \in Nat :
           CoinAt(walk, <<n, i, k>>, op) /\ (led.utxo[op].coinbase => i = 1)
  PROVE  Cardinality({op[1] : op \in {o \in CoinsOf(a) : led.utxo[o].coinbase}})
           <= Cardinality(MinedOn(walk, a))
<1> DEFINE C == {o \in CoinsOf(a) : led.utxo[o].coinbase}
           I == {op[1] : op \in C}
           M == MinedOn(walk, a)
           At(n, id) == n \in M /\ TxAt(walk, <<n, 1>>).id = id
           b == [id \in I |-> CHOOSE n : At(n, id)]
<1>1. ASSUME NEW id \in I PROVE \E n : At(n, id)
  <2>1. PICK op \in CoinsOf(a) : led.utxo[op].coinbase /\ op[1] = id
    OBVIOUS
  <2>2. op \in DOMAIN led.utxo /\ led.utxo[op].owner = a
    BY <2>1 DEF CoinsOf
  <2>3. PICK n \in Nat, i \in Nat, k \in Nat :
          CoinAt(walk, <<n, i, k>>, op) /\ (led.utxo[op].coinbase => i = 1)
    BY <2>2
  <2>4. i = 1 /\ CoinAt(walk, <<n, 1, k>>, op)
    BY <2>1, <2>3
  <2>5. k \in Paid(TxAt(walk, <<n, 1, k>>), a)
    BY <2>2, <2>4, CoinIsPaid
  <2>6. TxAt(walk, <<n, 1, k>>) = TxAt(walk, <<n, 1>>)
    BY DEF TxAt
  <2>7. /\ n \in DOMAIN walk /\ op = <<TxAt(walk, <<n, 1>>).id, k>>
        /\ led.utxo[op].coinbase = TxAt(walk, <<n, 1>>).coinbase
    BY <2>4, <2>6 DEF CoinAt
  <2>8. n \in M
    BY <2>1, <2>5, <2>6, <2>7 DEF MinedOn
  <2>9. TxAt(walk, <<n, 1>>).id = id
    BY <2>1, <2>7
  <2> QED
    BY <2>8, <2>9
<1> HIDE DEF At, I
<1>2. \A id \in I : At(b[id], id)
  BY <1>1
<1> HIDE DEF b
<1>3. IsFiniteSet(M)
  BY PaidOnTyped
<1>4. \A id \in I : b[id] \in M
  BY <1>2 DEF At
<1>5. \A x, y \in I : b[x] = b[y] => x = y
  BY <1>2 DEF At
<1>6. b = [id \in I |-> b[id]]
  BY DEF b
<1> HIDE DEF M
<1>7. b \in Injection(I, M)
  BY <1>4, <1>5, <1>6 DEF Injection, IsInjective
<1>8. Cardinality(I) <= Cardinality(M)
  BY <1>3, <1>7, FS_Injection, Zenon
<1> QED
  BY <1>8 DEF I, M

\* "What has taken effect is shown": until a crash, whatever branches a node has
\* stored and however it has reorganized, each transaction of the replayed chain
\* is found in a block no higher than the selected tip; and no address owns more
\* than it is shown to have received, or more coinbases than it is shown to have
\* mined blocks.
THEOREM ExplorerShowsAll ==
  ASSUME OneThread, GenesisHeaded
  PROVE  Spec /\ []IdsUnique => [](crashes = 0 => ExplorerCovers)
<1> DEFINE Ok == crashes = 0 => TipsExact
           Safe == crashes = 0 => ExplorerCovers
           Inv == IInv /\ IdsUnique /\ (crashes = 0 => Uncrashed)
<1>1. Inv /\ Ok => Safe
  <2>1. SUFFICES ASSUME IInv, IdsUnique, Uncrashed, crashes = 0, TipsExact, Quiet, ~failed
                 PROVE  /\ \A tx \in ChainTxs : \E d \in GetTransactionDetail(tx.id) :
                             d.confirmations + d.height = Height + 1 /\ GetBlockDetail(d.height) # Zero
                        /\ \A a \in Addresses :
                             LET d == GetAddressDetail(a) IN
                               /\ d.confirmed_balance <= d.total_received
                               /\ d.mined_blocks >= Cardinality({op[1] : op \in {o \in CoinsOf(a) : led.utxo[o].coinbase}})
    BY DEF ExplorerCovers
  <2>2. ChainKnown /\ ShapeInv /\ KinInv /\ BlocksTyped
    BY <2>1, UncrashedChain DEF Uncrashed, IdsUnique
  <2>3. ASSUME NEW tx \in ChainTxs
        PROVE  \E d \in GetTransactionDetail(tx.id) :
                 d.confirmations + d.height = Height + 1 /\ GetBlockDetail(d.height) # Zero
    BY <2>1, <2>2, TransactionShown
  <2>4. /\ FromTip \in Seq(store)
        /\ Path(gd, SelectedTip) \cup PathMerges(gd, SelectedTip) \subseteq Range(FromTip)
    BY <2>1, <2>2, FromTipVisits
  <2>5. PICK walk \in Seq(store) : walk = FromTip
    BY <2>4
  <2>6. \A op \in DOMAIN led.utxo : \E n \in Nat, i \in Nat, k \in Nat :
          CoinAt(walk, <<n, i, k>>, op) /\ (led.utxo[op].coinbase => i = 1)
    BY <2>2, <2>4, <2>5, CoinsOnWalk
  <2>7. led \in LedgerType
    <3>1. SelectedTip \in DOMAIN gd /\ led = Replay(SelectedTip, blocks, gd, store)
          /\ Staged(blocks, gd, Genesis, store) /\ gd[Genesis].blues = {}
      BY <2>2 DEF ChainKnown, LedgerAt, Staged
    <3> QED
      BY <3>1, LedgerSourced
  <2>8. ASSUME NEW a
        PROVE  /\ Balance(a) <= Received(walk, a, PaidOn(walk, a))
               /\ Cardinality({op[1] : op \in {o \in CoinsOf(a) : led.utxo[o].coinbase}})
                    <= Cardinality(MinedOn(walk, a))
    BY <2>1, <2>2, <2>6, <2>7, BalanceShown, MinedShown
  <2>9. ASSUME NEW a
        PROVE  LET d == GetAddressDetail(a)
               IN  /\ d.confirmed_balance = Balance(a)
                   /\ d.total_received = Received(walk, a, PaidOn(walk, a))
                   /\ d.mined_blocks = Cardinality(MinedOn(walk, a))
    BY <2>5, Zenon DEF GetAddressDetail
  <2>10. ASSUME NEW a
         PROVE  LET d == GetAddressDetail(a)
                IN  /\ d.confirmed_balance <= d.total_received
                    /\ d.mined_blocks >= Cardinality({op[1] : op \in {o \in CoinsOf(a) : led.utxo[o].coinbase}})
    <3>1. PICK d : d = GetAddressDetail(a)
      OBVIOUS
    <3>2. PICK n : n = Cardinality({op[1] : op \in {o \in CoinsOf(a) : led.utxo[o].coinbase}})
      OBVIOUS
    <3>3. d.confirmed_balance <= d.total_received /\ n <= d.mined_blocks
      BY <2>8, <2>9, <3>1, <3>2
    <3>4. d.mined_blocks >= n
      BY <3>3
    <3> QED
      BY <3>1, <3>2, <3>3, <3>4
  <2> QED
    BY <2>3, <2>10
<1> HIDE DEF Ok, Safe, Inv
<1>2. Spec => []Ok
  BY TipsAreExact DEF Ok
<1>3. Spec /\ []IdsUnique => []Inv
  BY UncrashedInvariant DEF Inv
<1>4. Spec /\ []IdsUnique => []Safe
  BY <1>1, <1>2, <1>3, PTL
<1> QED
  BY <1>4 DEF Safe
=============================================================================
