--------------------------- MODULE MempoolProofs ----------------------------
(***************************************************************************)
(* Theorems about the mempool while one thread at a time adds: for every   *)
(* set of transactions and removing threads, every size, and every         *)
(* interleaving of the accesses to the three maps.                         *)
(***************************************************************************)
EXTENDS Mempool, FiniteSetTheorems, TLAPS

Labels == {"free", "track", "insert", "index", "remove", "unindex", "unspend"}

Calls == [at : Labels, tx : Transactions \cup {{}},
          todo : SUBSET {tx.id : tx \in Transactions}]

\* The thread has a transaction in its hands whose outputs are marked although
\* it is not a member: not yet, or no longer.
Holders == {t \in Threads : call[t].at \in {"insert", "unindex", "unspend"}}

MempoolTypeOK ==
  /\ entries \subseteq Transactions /\ IsFiniteSet(entries)
  /\ call \in [Threads -> Calls]
  /\ \A t \in Threads :
       /\ call[t].at \notin {"free", "remove"} => call[t].tx \in Transactions
       /\ call[t].at \in {"track", "insert", "index"} => t \in Adders

\* What an adding thread has checked stays so: the others only remove.
CheckedInv ==
  \A t \in Threads : call[t].at \in {"track", "insert"} =>
    ~HasId(call[t].tx.id) /\ Cardinality(entries) < MaxSize

UnmarkedInv ==
  \A t \in Threads : call[t].at = "track" => call[t].tx.ins \cap spent = {}

\* The marked outputs have one owner each, a member or a thread.
DisjointInv ==
  /\ \A tx, other \in entries : tx # other => tx.ins \cap other.ins = {}
  /\ \A t \in Holders, tx \in entries : call[t].tx.ins \cap tx.ins = {}
  /\ \A t, u \in Holders : t # u => call[t].tx.ins \cap call[u].tx.ins = {}

Marked == UNION {tx.ins : tx \in entries}
Held == UNION {call[t].tx.ins : t \in Holders}

MarkedInv == spent = Marked \cup Held

\* The inductive invariant of the mempool.
MempoolIInv ==
  /\ MempoolTypeOK /\ CheckedInv /\ UnmarkedInv /\ DisjointInv /\ MarkedInv

\* One thread adds.
OneAdder == \A s, t \in Adders : s = t

\* The union of one set more.
LEMMA UnionAdd ==
  ASSUME NEW S, NEW x
  PROVE  UNION (S \cup {x}) = (UNION S) \cup x
OBVIOUS

\* The start.
LEMMA MempoolInitial ==
  MempoolInit => MempoolIInv
<1>1. SUFFICES ASSUME MempoolInit PROVE MempoolIInv
  OBVIOUS
<1>2. Free \in Calls /\ Free.at = "free"
  BY DEF Free, Calls, Labels
<1>3. \A t \in Threads : call[t].at = "free"
  BY <1>1, <1>2 DEF MempoolInit
<1>4. MempoolTypeOK
  BY <1>1, <1>2, <1>3, FS_EmptySet DEF MempoolInit, MempoolTypeOK
<1>5. Holders = {}
  BY <1>3 DEF Holders
<1>6. CheckedInv /\ UnmarkedInv /\ DisjointInv /\ MarkedInv
  BY <1>1, <1>3, <1>5 DEF MempoolInit, CheckedInv, UnmarkedInv, DisjointInv, MarkedInv,
                                Marked, Held
<1> QED
  BY <1>4, <1>6 DEF MempoolIInv

\* A step that leaves members and marks alone and after which the thread has
\* nothing in its hands, as before.
LEMMA QuietKeeps ==
  ASSUME MempoolIInv, NEW t \in Threads, NEW c \in Calls, t \notin Holders,
         UNCHANGED <<entries, spent>>, call' = [call EXCEPT ![t] = c],
         c.at \in {"free", "remove"}
  PROVE  MempoolIInv'
<1>1. call'[t] = c /\ \A u \in Threads \ {t} : call'[u] = call[u]
  BY DEF MempoolIInv, MempoolTypeOK
<1>2. MempoolTypeOK'
  BY <1>1 DEF MempoolIInv, MempoolTypeOK
<1>3. Holders' = Holders /\ \A u \in Holders : call'[u] = call[u]
  BY <1>1 DEF Holders
<1>4. CheckedInv' /\ UnmarkedInv'
  BY <1>1 DEF MempoolIInv, CheckedInv, UnmarkedInv, HasId
<1>5. DisjointInv'
  BY <1>3 DEF MempoolIInv, DisjointInv
<1>6. {call'[u].tx.ins : u \in Holders} = {call[u].tx.ins : u \in Holders}
  BY <1>3
<1>7. MarkedInv'
  BY <1>3, <1>6 DEF MempoolIInv, MarkedInv, Marked, Held
<1> QED
  BY <1>2, <1>4, <1>5, <1>7 DEF MempoolIInv

\* add_transaction after its checks.
LEMMA AddKeeps ==
  ASSUME MempoolIInv, NEW t \in Adders, NEW tx \in Transactions, AddTransaction(t, tx)
  PROVE  MempoolIInv'
<1> DEFINE c == [at |-> "track", tx |-> tx, todo |-> {}]
<1>1. /\ t \in Threads /\ call[t].at = "free" /\ CanAdd(tx)
      /\ call' = [call EXCEPT ![t] = c] /\ UNCHANGED <<entries, index, spent>>
  BY MempoolAssumption DEF AddTransaction
<1>2. c \in Calls /\ c.at = "track" /\ c.tx = tx
  BY DEF Calls, Labels
<1> HIDE DEF c
<1>3. call'[t] = c /\ \A u \in Threads \ {t} : call'[u] = call[u]
  BY <1>1 DEF MempoolIInv, MempoolTypeOK
<1>4. MempoolTypeOK'
  BY <1>1, <1>2, <1>3 DEF MempoolIInv, MempoolTypeOK
<1>5. Holders' = Holders /\ \A u \in Holders : call'[u] = call[u]
  BY <1>1, <1>2, <1>3 DEF Holders
<1>6. CheckedInv' /\ UnmarkedInv'
  BY <1>1, <1>2, <1>3 DEF MempoolIInv, CheckedInv, UnmarkedInv, HasId, CanAdd
<1>7. DisjointInv'
  BY <1>1, <1>5 DEF MempoolIInv, DisjointInv
<1>8. {call'[u].tx.ins : u \in Holders} = {call[u].tx.ins : u \in Holders}
  BY <1>5
<1>9. MarkedInv'
  BY <1>1, <1>5, <1>8 DEF MempoolIInv, MarkedInv, Marked, Held
<1> QED
  BY <1>4, <1>6, <1>7, <1>9 DEF MempoolIInv

\* The outputs are marked: they were free, so nobody else owns them.
LEMMA TrackKeeps ==
  ASSUME MempoolIInv, OneAdder, NEW t \in Threads, Track(t)
  PROVE  MempoolIInv'
<1> DEFINE x == call[t].tx
           c == [call[t] EXCEPT !.at = "insert"]
<1>1. /\ call[t].at = "track" /\ spent' = spent \cup x.ins
      /\ call' = [call EXCEPT ![t] = c] /\ UNCHANGED <<entries, index>>
  BY DEF Track
<1>2. /\ call[t] \in Calls /\ x \in Transactions /\ t \in Adders
      /\ x.ins \cap spent = {}
  BY <1>1 DEF MempoolIInv, MempoolTypeOK, UnmarkedInv
<1>3. c \in Calls /\ c.at = "insert" /\ c.tx = x
  BY <1>2 DEF Calls, Labels
<1> HIDE DEF c, x
<1>4. call'[t] = c /\ \A u \in Threads \ {t} : call'[u] = call[u]
  BY <1>1 DEF MempoolIInv, MempoolTypeOK
<1>5. MempoolTypeOK'
  BY <1>1, <1>2, <1>3, <1>4 DEF MempoolIInv, MempoolTypeOK
<1>6. CheckedInv'
  BY <1>1, <1>3, <1>4 DEF MempoolIInv, CheckedInv, HasId, x
<1>7. UnmarkedInv'
  <2>1. \A u \in Threads : call'[u].at # "track"
    BY <1>1, <1>2, <1>3, <1>4 DEF MempoolIInv, MempoolTypeOK, OneAdder
  <2> QED
    BY <2>1 DEF UnmarkedInv
<1>8. /\ Holders' = Holders \cup {t} /\ t \notin Holders
      /\ \A u \in Holders : call'[u] = call[u]
  BY <1>1, <1>3, <1>4 DEF Holders
<1>9. /\ \A tx \in entries : tx.ins \subseteq spent
      /\ \A u \in Holders : call[u].tx.ins \subseteq spent
  <2>1. spent = Marked \cup Held
    BY DEF MempoolIInv, MarkedInv
  <2>2. /\ \A tx \in entries : tx.ins \subseteq Marked
        /\ \A u \in Holders : call[u].tx.ins \subseteq Held
    BY DEF Marked, Held
  <2> QED
    BY <2>1, <2>2
<1>10. DisjointInv'
  BY <1>1, <1>2, <1>3, <1>4, <1>8, <1>9 DEF MempoolIInv, DisjointInv
<1>11. {call'[u].tx.ins : u \in Holders'} = {call[u].tx.ins : u \in Holders} \cup {x.ins}
  BY <1>3, <1>4, <1>8
<1>12. MarkedInv'
  <2>1. Held' = Held \cup x.ins
    BY <1>11, UnionAdd DEF Held
  <2>2. Marked' = Marked
    BY <1>1 DEF Marked
  <2> QED
    BY <1>1, <2>1, <2>2 DEF MempoolIInv, MarkedInv
<1> QED
  BY <1>5, <1>6, <1>7, <1>10, <1>12 DEF MempoolIInv

\* What Insert does to the members: one more, that no other has the txid of.
LEMMA InsertFacts ==
  ASSUME MempoolIInv, NEW t \in Threads, Insert(t)
  PROVE  /\ entries' = entries \cup {call[t].tx} /\ call[t].tx \notin entries
         /\ Cardinality(entries) < MaxSize /\ t \in Holders
         /\ \A tx \in entries : call[t].tx.ins \cap tx.ins = {}
<1>1. call[t].at = "insert" /\ ~HasId(call[t].tx.id) /\ Cardinality(entries) < MaxSize
  BY DEF Insert, MempoolIInv, CheckedInv
<1>2. {tx \in entries : tx.id # call[t].tx.id} = entries /\ call[t].tx \notin entries
  BY <1>1 DEF HasId
<1>3. t \in Holders
  BY <1>1 DEF Holders
<1>4. \A tx \in entries : call[t].tx.ins \cap tx.ins = {}
  BY <1>3 DEF MempoolIInv, DisjointInv
<1> QED
  BY <1>1, <1>2, <1>3, <1>4 DEF Insert

\* The transaction becomes a member and goes out of the thread's hands.
LEMMA InsertKeeps ==
  ASSUME MempoolIInv, OneAdder, NEW t \in Threads, Insert(t)
  PROVE  MempoolIInv'
<1> DEFINE x == call[t].tx
           c == [call[t] EXCEPT !.at = "index"]
<1>1. /\ call[t].at = "insert" /\ call' = [call EXCEPT ![t] = c] /\ UNCHANGED <<index, spent>>
      /\ entries' = entries \cup {x} /\ x \notin entries /\ t \in Holders
      /\ \A tx \in entries : x.ins \cap tx.ins = {}
  BY InsertFacts DEF Insert
<1>2. call[t] \in Calls /\ x \in Transactions /\ t \in Adders /\ IsFiniteSet(entries')
  BY <1>1, FS_AddElement DEF MempoolIInv, MempoolTypeOK
<1>3. c \in Calls /\ c.at = "index" /\ c.tx = x
  BY <1>2 DEF Calls, Labels
<1> HIDE DEF c, x
<1>4. call'[t] = c /\ \A u \in Threads \ {t} : call'[u] = call[u]
  BY <1>1 DEF MempoolIInv, MempoolTypeOK
<1>5. MempoolTypeOK'
  BY <1>1, <1>2, <1>3, <1>4 DEF MempoolIInv, MempoolTypeOK
<1>6. CheckedInv' /\ UnmarkedInv'
  <2>1. \A u \in Threads : call'[u].at \notin {"track", "insert"}
    BY <1>1, <1>2, <1>3, <1>4 DEF MempoolIInv, MempoolTypeOK, OneAdder
  <2> QED
    BY <2>1 DEF CheckedInv, UnmarkedInv
<1>7. /\ Holders' = Holders \ {t} /\ \A u \in Holders' : call'[u] = call[u]
  BY <1>1, <1>3, <1>4 DEF Holders
<1>8. DisjointInv'
  BY <1>1, <1>7 DEF MempoolIInv, DisjointInv, x
<1>9. {call[u].tx.ins : u \in Holders} = {call'[u].tx.ins : u \in Holders'} \cup {x.ins}
  BY <1>1, <1>7 DEF x
<1>10. {tx.ins : tx \in entries'} = {tx.ins : tx \in entries} \cup {x.ins}
  BY <1>1
<1>11. MarkedInv'
  <2>1. Held = Held' \cup x.ins
    BY <1>9, UnionAdd DEF Held
  <2>2. Marked' = Marked \cup x.ins
    BY <1>10, UnionAdd DEF Marked
  <2> QED
    BY <1>1, <2>1, <2>2 DEF MempoolIInv, MarkedInv
<1> QED
  BY <1>5, <1>6, <1>8, <1>11 DEF MempoolIInv

\* A member goes into the hands of the removing thread, its outputs with it.
LEMMA TakeKeeps ==
  ASSUME MempoolIInv, NEW t \in Threads, NEW x \in entries, TakeEntry(t, x)
  PROVE  MempoolIInv'
<1> DEFINE c == [at |-> "unindex", tx |-> x, todo |-> call[t].todo \ {x.id}]
<1>1. /\ call[t].at = "remove" /\ entries' = entries \ {x}
      /\ call' = [call EXCEPT ![t] = c] /\ UNCHANGED <<index, spent>>
  BY DEF TakeEntry
<1>2. call[t] \in Calls /\ x \in Transactions
  BY DEF MempoolIInv, MempoolTypeOK
<1>3. c \in Calls /\ c.at = "unindex" /\ c.tx = x
  BY <1>2 DEF Calls, Labels
<1> HIDE DEF c
<1>4. call'[t] = c /\ \A u \in Threads \ {t} : call'[u] = call[u]
  BY <1>1 DEF MempoolIInv, MempoolTypeOK
<1>5. IsFiniteSet(entries') /\ Cardinality(entries') = Cardinality(entries) - 1
      /\ Cardinality(entries) \in Nat
  BY <1>1, FS_RemoveElement, FS_CardinalityType DEF MempoolIInv, MempoolTypeOK
<1>6. MempoolTypeOK'
  BY <1>1, <1>2, <1>3, <1>4, <1>5 DEF MempoolIInv, MempoolTypeOK
<1>7. CheckedInv' /\ UnmarkedInv'
  <2>1. Cardinality(entries) < MaxSize => Cardinality(entries') < MaxSize
    BY <1>5, MempoolAssumption
  <2> QED
    BY <1>1, <1>3, <1>4, <2>1 DEF MempoolIInv, CheckedInv, UnmarkedInv, HasId
<1>8. /\ Holders' = Holders \cup {t} /\ t \notin Holders
      /\ \A u \in Holders : call'[u] = call[u]
  BY <1>1, <1>3, <1>4 DEF Holders
<1>9. DisjointInv'
  BY <1>1, <1>3, <1>4, <1>8 DEF MempoolIInv, DisjointInv
<1>10. {call'[u].tx.ins : u \in Holders'} = {call[u].tx.ins : u \in Holders} \cup {x.ins}
  BY <1>3, <1>4, <1>8
<1>11. {tx.ins : tx \in entries} = {tx.ins : tx \in entries'} \cup {x.ins}
  BY <1>1
<1>12. MarkedInv'
  <2>1. Held' = Held \cup x.ins
    BY <1>10, UnionAdd DEF Held
  <2>2. Marked = Marked' \cup x.ins
    BY <1>11, UnionAdd DEF Marked
  <2> QED
    BY <1>1, <2>1, <2>2 DEF MempoolIInv, MarkedInv
<1> QED
  BY <1>6, <1>7, <1>9, <1>12 DEF MempoolIInv

\* The index is cleaned; the thread still has the transaction.
LEMMA UnindexKeeps ==
  ASSUME MempoolIInv, NEW t \in Threads, Unindex(t)
  PROVE  MempoolIInv'
<1> DEFINE c == [call[t] EXCEPT !.at = "unspend"]
<1>1. /\ call[t].at = "unindex" /\ call' = [call EXCEPT ![t] = c]
      /\ UNCHANGED <<entries, spent>>
  BY DEF Unindex
<1>2. call[t] \in Calls /\ call[t].tx \in Transactions
  BY <1>1 DEF MempoolIInv, MempoolTypeOK
<1>3. c \in Calls /\ c.at = "unspend" /\ c.tx = call[t].tx
  BY <1>2 DEF Calls, Labels
<1> HIDE DEF c
<1>4. call'[t] = c /\ \A u \in Threads \ {t} : call'[u] = call[u]
  BY <1>1 DEF MempoolIInv, MempoolTypeOK
<1>5. MempoolTypeOK'
  BY <1>1, <1>2, <1>3, <1>4 DEF MempoolIInv, MempoolTypeOK
<1>6. CheckedInv' /\ UnmarkedInv'
  BY <1>1, <1>3, <1>4 DEF MempoolIInv, CheckedInv, UnmarkedInv, HasId
<1>7. Holders' = Holders /\ \A u \in Holders : call'[u].tx = call[u].tx
  BY <1>1, <1>3, <1>4 DEF Holders
<1>8. DisjointInv'
  BY <1>1, <1>7 DEF MempoolIInv, DisjointInv
<1>9. {call'[u].tx.ins : u \in Holders} = {call[u].tx.ins : u \in Holders}
  BY <1>7
<1>10. MarkedInv'
  BY <1>1, <1>7, <1>9 DEF MempoolIInv, MarkedInv, Marked, Held
<1> QED
  BY <1>5, <1>6, <1>8, <1>10 DEF MempoolIInv

\* The thread releases the outputs of the transaction in its hands: nobody
\* else owns one of them.
LEMMA UnspendKeeps ==
  ASSUME MempoolIInv, NEW t \in Threads, Unspend(t)
  PROVE  MempoolIInv'
<1> DEFINE x == call[t].tx
           c == [call[t] EXCEPT !.at = "remove", !.tx = {}]
<1>1. /\ call[t].at = "unspend" /\ call' = [call EXCEPT ![t] = c]
      /\ spent' = spent \ x.ins /\ UNCHANGED entries
  BY DEF Unspend, Released
<1>2. call[t] \in Calls
  BY DEF MempoolIInv, MempoolTypeOK
<1>3. c \in Calls /\ c.at = "remove"
  BY <1>2 DEF Calls, Labels
<1> HIDE DEF c, x
<1>4. call'[t] = c /\ \A u \in Threads \ {t} : call'[u] = call[u]
  BY <1>1 DEF MempoolIInv, MempoolTypeOK
<1>5. MempoolTypeOK'
  BY <1>1, <1>3, <1>4 DEF MempoolIInv, MempoolTypeOK
<1>6. CheckedInv' /\ UnmarkedInv'
  BY <1>1, <1>3, <1>4 DEF MempoolIInv, CheckedInv, UnmarkedInv, HasId
<1>7. /\ Holders' = Holders \ {t} /\ t \in Holders
      /\ \A u \in Holders' : call'[u] = call[u]
  BY <1>1, <1>3, <1>4 DEF Holders
<1>8. DisjointInv'
  BY <1>1, <1>7 DEF MempoolIInv, DisjointInv
<1>9. {call[u].tx.ins : u \in Holders} = {call'[u].tx.ins : u \in Holders'} \cup {x.ins}
  BY <1>7 DEF x
<1>10. /\ \A tx \in entries : tx.ins \cap x.ins = {}
       /\ \A u \in Holders' : call'[u].tx.ins \cap x.ins = {}
  BY <1>7 DEF MempoolIInv, DisjointInv, x
<1>11. MarkedInv'
  <2>1. Held = Held' \cup x.ins
    BY <1>9, UnionAdd DEF Held
  <2>2. Marked' = Marked
    BY <1>1 DEF Marked
  <2>3. Marked \cap x.ins = {} /\ Held' \cap x.ins = {}
    BY <1>10 DEF Marked, Held
  <2> QED
    BY <1>1, <2>1, <2>2, <2>3 DEF MempoolIInv, MarkedInv
<1> QED
  BY <1>5, <1>6, <1>8, <1>11 DEF MempoolIInv

\* The invariant is inductive.
LEMMA MempoolInductive ==
  ASSUME OneAdder, MempoolIInv, [MempoolNext]_mempoolVars
  PROVE  MempoolIInv'
<1>1. CASE UNCHANGED mempoolVars
  BY <1>1 DEF mempoolVars, MempoolIInv, MempoolTypeOK, CheckedInv, UnmarkedInv, DisjointInv,
              MarkedInv, Marked, Held, HasId, Holders
<1>2. Free \in Calls /\ Free.at = "free"
  BY DEF Free, Calls, Labels
<1>3. ASSUME NEW t \in Adders, NEW tx \in Transactions, AddTransaction(t, tx)
      PROVE  MempoolIInv'
  BY <1>3, AddKeeps
<1>4. ASSUME NEW t \in Threads, NEW ids \in SUBSET {tx.id : tx \in Transactions},
             RemoveAll(t, ids)
      PROVE  MempoolIInv'
  <2> DEFINE c == [at |-> "remove", tx |-> {}, todo |-> ids]
  <2>1. c \in Calls /\ c.at = "remove"
    BY DEF Calls, Labels
  <2>2. /\ call' = [call EXCEPT ![t] = c] /\ UNCHANGED <<entries, spent>>
        /\ t \notin Holders
    BY <1>4 DEF RemoveAll, Holders
  <2> HIDE DEF c
  <2> QED
    BY <2>1, <2>2, QuietKeeps
<1>5. ASSUME NEW t \in Threads, Index(t) \/ RemovedAll(t)
      PROVE  MempoolIInv'
  <2>1. /\ call' = [call EXCEPT ![t] = Free] /\ UNCHANGED <<entries, spent>>
        /\ t \notin Holders
    BY <1>5 DEF Index, RemovedAll, Holders
  <2> QED
    BY <1>2, <2>1, QuietKeeps
<1>6. ASSUME NEW t \in Threads, NEW id \in call[t].todo, SkipEntry(t, id)
      PROVE  MempoolIInv'
  <2> DEFINE c == [call[t] EXCEPT !.todo = @ \ {id}]
  <2>1. call[t] \in Calls /\ call[t].at = "remove"
    BY <1>6 DEF SkipEntry, MempoolIInv, MempoolTypeOK
  <2>2. c \in Calls /\ c.at = "remove"
    BY <2>1 DEF Calls
  <2>3. /\ call' = [call EXCEPT ![t] = c] /\ UNCHANGED <<entries, spent>>
        /\ t \notin Holders
    BY <1>6 DEF SkipEntry, Holders
  <2> HIDE DEF c
  <2> QED
    BY <2>2, <2>3, QuietKeeps
<1>7. ASSUME NEW t \in Threads, Proceed(t) PROVE MempoolIInv'
  BY <1>5, <1>6, <1>7, TrackKeeps, InsertKeeps, TakeKeeps, UnindexKeeps, UnspendKeeps
     DEF Proceed
<1> QED
  BY <1>1, <1>3, <1>4, <1>7 DEF MempoolNext

\* The mempool with one adder keeps its invariant.
THEOREM MempoolInvariant ==
  ASSUME OneAdder
  PROVE  MempoolSpec => []MempoolIInv
<1>1. MempoolIInv /\ [MempoolNext]_mempoolVars => MempoolIInv'
  BY MempoolInductive
<1> QED
  BY <1>1, MempoolInitial, PTL DEF MempoolSpec

\* remove_transaction, in any number of threads and against one that adds,
\* leaves no output blocked and releases none that a member spends.
THEOREM OutputsAreReleased ==
  ASSUME OneAdder
  PROVE  MempoolSpec => []SpentReleased
<1>1. MempoolIInv => SpentReleased
  <2>1. SUFFICES ASSUME MempoolIInv, \A t \in Threads : call[t].at = "free"
                 PROVE  spent = UNION {tx.ins : tx \in entries}
    BY DEF SpentReleased
  <2>2. Holders = {}
    BY <2>1 DEF Holders
  <2> QED
    BY <2>1, <2>2 DEF MempoolIInv, MarkedInv, Marked, Held
<1> QED
  BY <1>1, MempoolInvariant, PTL

\* Every step is one of the set's or leaves it alone.
LEMMA StepsAreTheSets ==
  ASSUME MempoolIInv, [MempoolNext]_mempoolVars
  PROVE  [Set!AddMember \/ Set!DropMember]_entries
<1>1. CASE UNCHANGED entries
  BY <1>1
<1>2. ASSUME NEW t \in Threads, Insert(t) PROVE Set!AddMember
  <2>1. /\ entries' = entries \cup {call[t].tx} /\ call[t].tx \notin entries
        /\ Cardinality(entries) < MaxSize
        /\ \A tx \in entries : call[t].tx.ins \cap tx.ins = {}
    BY <1>2, InsertFacts
  <2>2. call[t].tx \in entries' \ entries
    BY <2>1
  <2>3. Set!Fits(call[t].tx)
    BY <2>1 DEF Set!Fits
  <2>4. Set!Cardinality(entries) = Cardinality(entries)
    BY DEF Cardinality, Set!Cardinality
  <2> QED
    BY <2>1, <2>2, <2>3, <2>4 DEF Set!AddMember
<1>3. ASSUME NEW t \in Threads, NEW tx \in entries, TakeEntry(t, tx) PROVE Set!DropMember
  BY <1>3 DEF TakeEntry, Set!DropMember
<1>4. ASSUME NEW t \in Adders, NEW tx \in Transactions, AddTransaction(t, tx)
      PROVE  UNCHANGED entries
  BY <1>4 DEF AddTransaction
<1>5. ASSUME NEW t \in Threads, NEW ids \in SUBSET {tx.id : tx \in Transactions},
             RemoveAll(t, ids)
      PROVE  UNCHANGED entries
  BY <1>5 DEF RemoveAll
<1>6. ASSUME NEW t \in Threads, Proceed(t)
      PROVE  UNCHANGED entries \/ Set!AddMember \/ Set!DropMember
  <2>1. CASE Track(t) \/ Index(t) \/ Unindex(t) \/ Unspend(t) \/ RemovedAll(t)
    BY <2>1 DEF Track, Index, Unindex, Unspend, RemovedAll
  <2>2. CASE \E id \in call[t].todo : SkipEntry(t, id)
    BY <2>2 DEF SkipEntry
  <2> QED
    BY <1>2, <1>3, <1>6, <2>1, <2>2 DEF Proceed
<1>7. CASE UNCHANGED mempoolVars
  BY <1>1, <1>7 DEF mempoolVars
<1> QED
  BY <1>1, <1>4, <1>5, <1>6, <1>7 DEF MempoolNext

\* add_transaction and remove_transaction over the three maps implement a
\* bounded set of transactions without a double spend.
THEOREM MempoolImplementsSet ==
  ASSUME OneAdder
  PROVE  MempoolSpec => ImplementsSet
<1>1. MempoolInit => Set!SetInit
  BY DEF MempoolInit, Set!SetInit
<1>2. MempoolIInv /\ [MempoolNext]_mempoolVars => [Set!AddMember \/ Set!DropMember]_entries
  BY StepsAreTheSets
<1> QED
  BY <1>1, <1>2, MempoolInvariant, PTL DEF MempoolSpec, ImplementsSet, Set!SetSpec
=============================================================================
