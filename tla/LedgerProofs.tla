---------------------------- MODULE LedgerProofs ----------------------------
(***************************************************************************)
(* Theorems about the UTXO set, for every ledger, block and schedule.      *)
(***************************************************************************)
EXTENDS Reorg, FoldProofs

----------------------------------------------------------------------------
(* Emission                                                                *)

\* The schedules: no length of an epoch is zero.
Scheds == [initial : Nat, interval : Nat \ {0}, max : Nat]

\* The reward of an epoch is a natural.
LEMMA EpochRewardNat ==
  ASSUME NEW s \in Scheds, NEW epoch \in Nat
  PROVE  EpochReward(s, epoch) \in Nat
<1> DEFINE F == [p \in Nat \X (1..epoch) |-> p[1] \div 2]
           Table(g) == g = [e \in 0..epoch |-> IF e = 0 THEN s.initial ELSE g[e - 1] \div 2]
<1>1. s.initial \in Nat
  BY DEF Scheds
<1>2. IsStep(Nat, epoch, F)
  BY DEF IsStep
<1>3. PICK f : IsRecursion(Nat, s.initial, epoch, F, f)
  <2> HIDE DEF F
  <2> QED
    BY <1>1, <1>2, RecursionExists
<1>4. \A n \in 1..epoch : f[n] = f[n - 1] \div 2
  <2>1. TAKE n \in 1..epoch
  <2>2. <<f[n - 1], n>> \in Nat \X (1..epoch)
    BY <1>3 DEF IsRecursion
  <2> QED
    BY <1>3, <2>2 DEF IsRecursion
<1>5. Table(f)
  BY <1>3, <1>4 DEF IsRecursion
<1>6. PICK g : g = (CHOOSE h : Table(h))
  OBVIOUS
<1>7. Table(g)
  BY <1>5, <1>6
<1>8. EpochReward(s, epoch) = g[epoch]
  BY <1>6 DEF EpochReward
<1> DEFINE T == {n \in Nat : n <= epoch => g[n] \in Nat}
<1>9. 0 \in T
  BY <1>1, <1>7
<1>10. ASSUME NEW n \in Nat, n \in T PROVE n + 1 \in T
  <2>1. SUFFICES ASSUME n + 1 <= epoch PROVE g[n + 1] \in Nat
    OBVIOUS
  <2>2. g[n + 1] = g[n] \div 2 /\ g[n] \in Nat
    BY <1>7, <1>10, <2>1
  <2> QED
    BY <2>2
<1> HIDE DEF T, Table
<1>11. Nat \subseteq T
  BY <1>9, <1>10, SetInduction
<1> QED
  BY <1>8, <1>11 DEF T

\* One more block adds one block to the epoch it is in.
LEMMA OneMoreBlock ==
  ASSUME NEW s \in Scheds, NEW h \in Nat, NEW e \in Nat
  PROVE  /\ EpochBlocks(s, h, e) \in Nat
         /\ EpochBlocks(s, h + 1, e) =
              EpochBlocks(s, h, e) + (IF h \div s.interval = e THEN 1 ELSE 0)
<1> DEFINE I == s.interval
           q == h \div I
           m == e * I
<1>1. I \in Nat /\ I > 0 /\ q \in Nat /\ m \in Nat
  BY DEF Scheds
<1>2. q * I <= h /\ h < q * I + I
  BY <1>1
<1>3. /\ EpochBlocks(s, h, e) =
           (IF h - m <= 0 THEN 0 ELSE IF h - m < I THEN h - m ELSE I)
      /\ EpochBlocks(s, h + 1, e) =
           (IF (h + 1) - m <= 0 THEN 0 ELSE IF (h + 1) - m < I THEN (h + 1) - m ELSE I)
  BY DEF EpochBlocks
<1>4. CASE e < q
  <2>1. m + I <= q * I
    <3> HIDE DEF q, I
    <3>1. e + 1 <= q /\ m + I = (e + 1) * I
      BY <1>1, <1>4
    <3>2. \A a, b \in Nat : a <= b => a * I <= b * I
      BY <1>1
    <3> QED
      BY <1>1, <3>1, <3>2
  <2> HIDE DEF m, q, I
  <2>2. q # e /\ q * I \in Nat
    BY <1>1, <1>4
  <2> QED
    BY <1>1, <1>2, <1>3, <2>1, <2>2 DEF q, I
<1>5. CASE e = q
  <2>1. m = q * I
    BY <1>5
  <2> HIDE DEF m, q, I
  <2>2. h - m \in 0..(I - 1)
    BY <1>1, <1>2, <2>1
  <2>3. EpochBlocks(s, h, e) = h - m /\ EpochBlocks(s, h + 1, e) = (h - m) + 1
    BY <1>1, <1>3, <2>2
  <2> QED
    BY <1>5, <2>2, <2>3 DEF q, I
<1>6. CASE e > q
  <2>1. q * I + I <= m
    <3> HIDE DEF q, I
    <3>1. q + 1 <= e /\ q * I + I = (q + 1) * I
      BY <1>1, <1>6
    <3>2. \A a, b \in Nat : a <= b => a * I <= b * I
      BY <1>1
    <3> QED
      BY <1>1, <3>1, <3>2
  <2> HIDE DEF m, q, I
  <2>2. q # e /\ q * I \in Nat
    BY <1>1, <1>6
  <2> QED
    BY <1>1, <1>2, <1>3, <2>1, <2>2 DEF q, I
<1> QED
  BY <1>1, <1>4, <1>5, <1>6

----------------------------------------------------------------------------

\* The table by which EmittedBefore is defined.
EmittedTable(s, h, g) ==
  g = [e \in 0..MAX_HALVINGS |->
         IF e = 0 THEN 0 ELSE g[e - 1] + EpochBlocks(s, h, e - 1) * EpochReward(s, e - 1)]

\* The table that defines EmittedBefore exists.
LEMMA EmittedTableExists ==
  ASSUME NEW s \in Scheds, NEW h \in Nat
  PROVE  \E g : /\ EmittedTable(s, h, g) /\ EmittedBefore(s, h) = g[MAX_HALVINGS]
                /\ g[0] = 0
                /\ \A n \in 1..MAX_HALVINGS :
                     g[n] = g[n - 1] + EpochBlocks(s, h, n - 1) * EpochReward(s, n - 1)
<1> DEFINE N == MAX_HALVINGS
           Pay(n) == EpochBlocks(s, h, n - 1) * EpochReward(s, n - 1)
           F == [p \in Nat \X (1..N) |-> p[1] + Pay(p[2])]
<1>1. N \in Nat
  BY HalvingsAssumption
<1>2. \A n \in 1..N : Pay(n) \in Nat
  <2>1. TAKE n \in 1..N
  <2>2. n - 1 \in Nat
    BY <1>1
  <2>3. EpochBlocks(s, h, n - 1) \in Nat /\ EpochReward(s, n - 1) \in Nat
    BY <2>2, OneMoreBlock, EpochRewardNat
  <2> QED
    BY <2>3
<1> HIDE DEF Pay, N
<1>3. IsStep(Nat, N, F)
  BY <1>2 DEF IsStep
<1>4. PICK f : IsRecursion(Nat, 0, N, F, f)
  <2>1. 0 \in Nat
    OBVIOUS
  <2> HIDE DEF F
  <2> QED
    BY <1>1, <1>3, <2>1, RecursionExists
<1>5. \A n \in 1..N : f[n] = f[n - 1] + Pay(n)
  <2>1. TAKE n \in 1..N
  <2>2. <<f[n - 1], n>> \in Nat \X (1..N)
    BY <1>1, <1>4 DEF IsRecursion
  <2> QED
    BY <1>4, <2>2 DEF IsRecursion
<1>6. f = [e \in 0..N |-> IF e = 0 THEN 0 ELSE f[e - 1] + Pay(e)]
  BY <1>1, <1>4, <1>5 DEF IsRecursion
<1>7. EmittedTable(s, h, f)
  BY <1>6 DEF EmittedTable, Pay, N
<1>8. PICK g : g = (CHOOSE t : EmittedTable(s, h, t))
  OBVIOUS
<1>9. EmittedTable(s, h, g)
  BY <1>7, <1>8
<1>10. EmittedBefore(s, h) = g[MAX_HALVINGS]
  BY <1>8 DEF EmittedBefore, EmittedTable
<1>11. g = [e \in 0..N |-> IF e = 0 THEN 0 ELSE g[e - 1] + Pay(e)]
  BY <1>9 DEF EmittedTable, Pay, N
<1>12. g[0] = 0
  BY <1>1, <1>11
<1>13. \A n \in 1..N : g[n] = g[n - 1] + Pay(n)
  BY <1>1, <1>11
<1> QED
  BY <1>9, <1>10, <1>12, <1>13 DEF Pay, N

\* One more block emits the reward of its epoch, and nothing after the last.
LEMMA EmittedStep ==
  ASSUME NEW s \in Scheds, NEW h \in Nat
  PROVE  /\ EmittedBefore(s, h) \in Nat
         /\ EmittedBefore(s, h + 1) = EmittedBefore(s, h)
              + (IF h \div s.interval < MAX_HALVINGS
                 THEN EpochReward(s, h \div s.interval) ELSE 0)
<1> DEFINE q == h \div s.interval
           N == MAX_HALVINGS
           R == EpochReward(s, q)
<1>1. N \in Nat /\ q \in Nat /\ h + 1 \in Nat
  BY HalvingsAssumption DEF Scheds
<1>2. R \in Nat
  <2> HIDE DEF q
  <2> QED
    BY <1>1, EpochRewardNat
<1>3. PICK f : /\ EmittedBefore(s, h) = f[N] /\ f[0] = 0
               /\ \A n \in 1..N : f[n] = f[n - 1] + EpochBlocks(s, h, n - 1) * EpochReward(s, n - 1)
  BY EmittedTableExists
<1>4. PICK g : /\ EmittedBefore(s, h + 1) = g[N] /\ g[0] = 0
               /\ \A n \in 1..N : g[n] = g[n - 1] + EpochBlocks(s, h + 1, n - 1) * EpochReward(s, n - 1)
  BY <1>1, EmittedTableExists
<1> DEFINE T == {n \in Nat : n <= N => /\ f[n] \in Nat
                                       /\ g[n] = f[n] + (IF q < n THEN R ELSE 0)}
<1>5. 0 \in T
  BY <1>1, <1>3, <1>4
<1>6. ASSUME NEW n \in Nat, n \in T PROVE n + 1 \in T
  <2>1. SUFFICES ASSUME n + 1 <= N
                 PROVE  /\ f[n + 1] \in Nat
                        /\ g[n + 1] = f[n + 1] + (IF q < n + 1 THEN R ELSE 0)
    OBVIOUS
  <2> DEFINE b == EpochBlocks(s, h, n)
             c == EpochBlocks(s, h + 1, n)
             r == EpochReward(s, n)
  <2>2. n + 1 \in 1..N /\ (n + 1) - 1 = n
    BY <1>1, <2>1
  <2>3. f[n + 1] = f[n] + b * r /\ g[n + 1] = g[n] + c * r
    BY <1>3, <1>4, <2>2
  <2>4. b \in Nat /\ r \in Nat /\ c = b + (IF q = n THEN 1 ELSE 0)
    BY OneMoreBlock, EpochRewardNat
  <2>5. f[n] \in Nat /\ g[n] = f[n] + (IF q < n THEN R ELSE 0)
    BY <1>6, <2>1, <1>1
  <2>6. q = n => R = r
    OBVIOUS
  <2> HIDE DEF b, c, r, q, R
  <2>7. b * r \in Nat /\ c * r = b * r + (IF q = n THEN r ELSE 0)
    BY <2>4
  <2> DEFINE x == b * r
             y == c * r
  <2>8. x \in Nat /\ y = x + (IF q = n THEN r ELSE 0) /\ f[n + 1] = f[n] + x /\ g[n + 1] = g[n] + y
    BY <2>3, <2>7
  <2> HIDE DEF x, y
  <2> QED
    BY <1>1, <1>2, <2>4, <2>5, <2>6, <2>8
<1> HIDE DEF T, q, R, N
<1>7. Nat \subseteq T
  BY <1>5, <1>6, SetInduction
<1>8. f[N] \in Nat /\ g[N] = f[N] + (IF q < N THEN R ELSE 0)
  BY <1>1, <1>7 DEF T
<1> QED
  BY <1>3, <1>4, <1>8 DEF q, R, N

\* The reward of block_reward is what total_emitted_at_height grows by.
LEMMA RewardIsGrowth ==
  ASSUME NEW s \in Scheds, NEW h \in Nat
  PROVE  /\ TotalEmittedAtHeight(s, h) \in Nat
         /\ TotalEmittedAtHeight(s, h) <= s.max
         /\ BlockReward(s, h) \in Nat
         /\ TotalEmittedAtHeight(s, h + 1) = TotalEmittedAtHeight(s, h) + BlockReward(s, h)
<1> DEFINE q == h \div s.interval
           R == EpochReward(s, q)
           E == EmittedBefore(s, h)
           M == s.max
           P == q < MAX_HALVINGS
<1>1. q \in Nat /\ M \in Nat /\ MAX_HALVINGS \in Nat
  BY HalvingsAssumption DEF Scheds
<1>2. R \in Nat
  <2> HIDE DEF q
  <2> QED
    BY <1>1, EpochRewardNat
<1>3. E \in Nat /\ EmittedBefore(s, h + 1) = E + (IF P THEN R ELSE 0)
  BY EmittedStep
<1>4. TotalEmittedAtHeight(s, h) = IF E < M THEN E ELSE M
  BY DEF TotalEmittedAtHeight
<1>5. TotalEmittedAtHeight(s, h + 1) =
        IF E + (IF P THEN R ELSE 0) < M THEN E + (IF P THEN R ELSE 0) ELSE M
  BY <1>3 DEF TotalEmittedAtHeight
<1>6. BlockReward(s, h) =
        IF ~P THEN 0
        ELSE IF R < M - TotalEmittedAtHeight(s, h) THEN R ELSE M - TotalEmittedAtHeight(s, h)
  BY <1>1 DEF BlockReward
<1> HIDE DEF q, R, E, M, P
<1>7. CASE P
  BY <1>1, <1>2, <1>3, <1>4, <1>5, <1>6, <1>7 DEF M
<1>8. CASE ~P
  BY <1>1, <1>2, <1>3, <1>4, <1>5, <1>6, <1>8 DEF M
<1> QED
  BY <1>7, <1>8

\* Before the first block nothing has been emitted.
LEMMA NothingEmitted ==
  ASSUME NEW s \in Scheds
  PROVE  TotalEmittedAtHeight(s, 0) = 0
<1> DEFINE N == MAX_HALVINGS
<1>1. N \in Nat
  BY HalvingsAssumption
<1>2. PICK f : /\ EmittedBefore(s, 0) = f[N] /\ f[0] = 0
               /\ \A n \in 1..N : f[n] = f[n - 1] + EpochBlocks(s, 0, n - 1) * EpochReward(s, n - 1)
  BY EmittedTableExists
<1>3. \A e \in Nat : EpochBlocks(s, 0, e) = 0
  <2>1. TAKE e \in Nat
  <2>2. e * s.interval \in Nat
    BY DEF Scheds
  <2> QED
    BY <2>2 DEF EpochBlocks
<1> DEFINE T == {n \in Nat : n <= N => f[n] = 0}
<1>4. 0 \in T
  BY <1>2
<1>5. ASSUME NEW n \in Nat, n \in T PROVE n + 1 \in T
  <2>1. SUFFICES ASSUME n + 1 <= N PROVE f[n + 1] = 0
    OBVIOUS
  <2>2. n + 1 \in 1..N /\ (n + 1) - 1 = n
    BY <1>1, <2>1
  <2>3. f[n + 1] = f[n] + EpochBlocks(s, 0, n) * EpochReward(s, n)
    BY <1>2, <2>2
  <2>4. EpochBlocks(s, 0, n) = 0 /\ EpochReward(s, n) \in Nat /\ f[n] = 0
    BY <1>1, <1>3, <1>5, <2>1, EpochRewardNat
  <2> QED
    BY <2>3, <2>4
<1> HIDE DEF T, N
<1>6. Nat \subseteq T
  BY <1>4, <1>5, SetInduction
<1>7. EmittedBefore(s, 0) = 0
  BY <1>1, <1>2, <1>6 DEF T
<1> QED
  BY <1>7 DEF TotalEmittedAtHeight, Scheds

----------------------------------------------------------------------------
(* Types                                                                   *)

CONSTANTS
  TxIds,   \* transaction ids
  Owners   \* addresses

OutPointType == TxIds \X Nat

EntryType == [amount : Nat, owner : Owners, height : Nat, coinbase : BOOLEAN]

InputType == [op : OutPointType, key : Owners]

OutputType == [burn : BOOLEAN, owner : Owners, amount : Nat]

TxType == [id : TxIds, coinbase : BOOLEAN, signed : BOOLEAN,
           inputs : Seq(InputType), outputs : Seq(OutputType)]

FiniteOutPoints == {S \in SUBSET OutPointType : IsFiniteSet(S)}

UtxoType == UNION {[S -> EntryType] : S \in FiniteOutPoints}

LedgerType == [utxo : UtxoType, burned : Nat]

----------------------------------------------------------------------------
(* Utxo sets                                                               *)

\* What it is to be a UTXO set.
LEMMA UtxoElim ==
  ASSUME NEW u \in UtxoType
  PROVE  /\ u = [op \in DOMAIN u |-> u[op]]
         /\ DOMAIN u \subseteq OutPointType /\ IsFiniteSet(DOMAIN u)
         /\ \A op \in DOMAIN u : u[op] \in EntryType
<1>1. PICK S \in FiniteOutPoints : u \in [S -> EntryType]
  BY DEF UtxoType
<1> QED
  BY <1>1 DEF FiniteOutPoints

\* A finite function from outpoints to entries is one.
LEMMA UtxoIntro ==
  ASSUME NEW S, S \subseteq OutPointType, IsFiniteSet(S), NEW u \in [S -> EntryType]
  PROVE  u \in UtxoType
BY DEF UtxoType, FiniteOutPoints

\* Removing entries leaves a UTXO set.
LEMMA WithoutType ==
  ASSUME NEW u \in UtxoType, NEW ops
  PROVE  /\ Without(u, ops) \in UtxoType
         /\ DOMAIN Without(u, ops) = DOMAIN u \ ops
         /\ \A op \in DOMAIN u \ ops : Without(u, ops)[op] = u[op]
<1>1. /\ DOMAIN Without(u, ops) = DOMAIN u \ ops
      /\ Without(u, ops) = [op \in DOMAIN u \ ops |-> u[op]]
  BY DEF Without, Restrict
<1>2. IsFiniteSet(DOMAIN u \ ops) /\ DOMAIN u \ ops \subseteq OutPointType
  BY UtxoElim, FS_Subset
<1>3. Without(u, ops) \in [DOMAIN u \ ops -> EntryType]
  BY <1>1, UtxoElim
<1> QED
  BY <1>1, <1>2, <1>3, UtxoIntro

\* Putting entries over others gives a UTXO set.
LEMMA OverType ==
  ASSUME NEW u \in UtxoType, NEW v \in UtxoType
  PROVE  /\ Over(u, v) \in UtxoType
         /\ DOMAIN Over(u, v) = DOMAIN u \cup DOMAIN v
         /\ \A op \in DOMAIN u : Over(u, v)[op] = u[op]
         /\ \A op \in DOMAIN v \ DOMAIN u : Over(u, v)[op] = v[op]
<1>1. /\ DOMAIN Over(u, v) = DOMAIN u \cup DOMAIN v
      /\ \A op \in DOMAIN u : Over(u, v)[op] = u[op]
      /\ \A op \in DOMAIN v \ DOMAIN u : Over(u, v)[op] = v[op]
  BY DEF Over
<1>2. /\ IsFiniteSet(DOMAIN u \cup DOMAIN v) /\ DOMAIN u \cup DOMAIN v \subseteq OutPointType
  BY UtxoElim, FS_Union
<1>3. Over(u, v) \in [DOMAIN u \cup DOMAIN v -> EntryType]
  BY <1>1, UtxoElim DEF Over
<1> QED
  BY <1>1, <1>2, <1>3, UtxoIntro

\* Two UTXO sets with the same entries are equal.
LEMMA UtxoEqual ==
  ASSUME NEW u \in UtxoType, NEW v \in UtxoType, DOMAIN u = DOMAIN v,
         \A op \in DOMAIN u : u[op] = v[op]
  PROVE  u = v
<1>1. u = [op \in DOMAIN u |-> u[op]] /\ v = [op \in DOMAIN v |-> v[op]]
  BY UtxoElim
<1> QED
  BY <1>1

----------------------------------------------------------------------------
(* One transaction                                                         *)

\* What the fields of a transaction are.
LEMMA TxFields ==
  ASSUME NEW tx \in TxType
  PROVE  /\ tx.id \in TxIds
         /\ tx.inputs \in Seq(InputType) /\ tx.outputs \in Seq(OutputType)
         /\ Len(tx.inputs) \in Nat /\ DOMAIN tx.inputs = 1..Len(tx.inputs)
         /\ Len(tx.outputs) \in Nat /\ DOMAIN tx.outputs = 1..Len(tx.outputs)
         /\ \A i \in DOMAIN tx.inputs : tx.inputs[i].op \in OutPointType
         /\ \A i \in DOMAIN tx.outputs : /\ tx.outputs[i].amount \in Nat
                                         /\ tx.outputs[i].owner \in Owners
<1>1. /\ tx.id \in TxIds /\ tx.inputs \in Seq(InputType) /\ tx.outputs \in Seq(OutputType)
  BY DEF TxType
<1>2. \A i \in DOMAIN tx.inputs : tx.inputs[i] \in InputType
  BY <1>1
<1>3. \A i \in DOMAIN tx.outputs : tx.outputs[i] \in OutputType
  BY <1>1
<1> QED
  BY <1>1, <1>2, <1>3 DEF InputType, OutputType

\* The outputs of a transaction are a UTXO set.
LEMMA EntriesType ==
  ASSUME NEW tx \in TxType, NEW height \in Nat
  PROVE  /\ Entries(tx, height) \in UtxoType
         /\ DOMAIN Entries(tx, height) = OutPoints(tx)
         /\ StandardOutputs(tx) \subseteq DOMAIN tx.outputs /\ IsFiniteSet(StandardOutputs(tx))
         /\ \A i \in StandardOutputs(tx) :
              Entries(tx, height)[<<tx.id, i>>].amount = tx.outputs[i].amount
<1>1. StandardOutputs(tx) \subseteq DOMAIN tx.outputs /\ IsFiniteSet(StandardOutputs(tx))
  <2>1. IsFiniteSet(DOMAIN tx.outputs)
    BY TxFields, FS_Interval
  <2> QED
    BY <2>1, FS_Subset DEF StandardOutputs
<1>2. OutPoints(tx) \subseteq OutPointType
  BY <1>1, TxFields DEF OutPoints, OutPointType
<1>3. IsFiniteSet(OutPoints(tx))
  <2> DEFINE b == [i \in StandardOutputs(tx) |-> <<tx.id, i>>]
  <2>1. OutPoints(tx) = {b[i] : i \in StandardOutputs(tx)}
    BY DEF OutPoints
  <2> HIDE DEF b
  <2> QED
    BY <1>1, <2>1, FiniteImage
<1>4. Entries(tx, height) \in [OutPoints(tx) -> EntryType]
  <2>1. ASSUME NEW op \in OutPoints(tx)
        PROVE  [amount   |-> tx.outputs[op[2]].amount, owner    |-> tx.outputs[op[2]].owner,
                height   |-> height, coinbase |-> tx.coinbase] \in EntryType
    <3>1. op[2] \in DOMAIN tx.outputs
      BY <1>1 DEF OutPoints
    <3>2. tx.coinbase \in BOOLEAN
      BY DEF TxType
    <3> QED
      BY <3>1, <3>2, TxFields DEF EntryType
  <2> QED
    BY <2>1 DEF Entries
<1>5. \A i \in StandardOutputs(tx) :
              Entries(tx, height)[<<tx.id, i>>].amount = tx.outputs[i].amount
  <2>1. TAKE i \in StandardOutputs(tx)
  <2>2. <<tx.id, i>> \in OutPoints(tx)
    BY DEF OutPoints
  <2>3. <<tx.id, i>>[2] = i
    OBVIOUS
  <2> QED
    BY <2>2, <2>3 DEF Entries
<1> QED
  BY <1>1, <1>2, <1>3, <1>4, <1>5, UtxoIntro

\* Input i is not there when its turn comes.
MissingAt(u, tx, i) ==
  \/ tx.inputs[i].op \notin DOMAIN u
  \/ \E j \in 1..(i-1) : tx.inputs[j].op = tx.inputs[i].op

\* There is a first missing input, or none.
LEMMA FirstMissingFound ==
  ASSUME NEW u, NEW tx \in TxType
  PROVE  LET m == FirstMissing(u, tx)
         IN  /\ m \in 1..(Len(tx.inputs) + 1)
             /\ m <= Len(tx.inputs) => MissingAt(u, tx, m)
             /\ \A k \in 1..(m - 1) : ~MissingAt(u, tx, k)
<1> DEFINE n == Len(tx.inputs)
           T == {i \in 1..(n + 1) : i <= n => MissingAt(u, tx, i)}
           P(i) == /\ i <= n => \/ tx.inputs[i].op \notin DOMAIN u
                                \/ \E j \in 1..(i-1) : tx.inputs[j].op = tx.inputs[i].op
                   /\ \A k \in 1..(i-1) : /\ tx.inputs[k].op \in DOMAIN u
                                          /\ \A j \in 1..(k-1) : tx.inputs[j].op # tx.inputs[k].op
<1>1. n \in Nat
  BY TxFields
<1>2. n + 1 \in T /\ T \subseteq Nat
  BY <1>1
<1>3. PICK m \in T : \A i \in T : m <= i
  <2> HIDE DEF T
  <2> QED
    BY <1>2, LeastNat
<1>4. \A k \in 1..(m - 1) : k \notin T /\ k \in 1..(n + 1) /\ k <= n
  <2> HIDE DEF MissingAt
  <2> QED
    BY <1>1, <1>3
<1>5. m \in 1..(n + 1) /\ P(m)
  BY <1>1, <1>3, <1>4 DEF MissingAt
<1>6. FirstMissing(u, tx) = CHOOSE i \in 1..(n + 1) : P(i)
  BY DEF FirstMissing
<1> HIDE DEF P
<1>7. FirstMissing(u, tx) \in 1..(n + 1) /\ P(FirstMissing(u, tx))
  BY <1>5, <1>6
<1> QED
  BY <1>7 DEF P, MissingAt

\* The inputs that apply_transaction takes: the ones before a missing input,
\* each there and none twice.
LEMMA TakenType ==
  ASSUME NEW u \in UtxoType, NEW tx \in TxType
  PROVE  LET t == Taken(u, tx)
         IN  /\ t \in Seq(EntryType) /\ Len(t) \in Nat /\ DOMAIN t = 1..Len(t)
             /\ DOMAIN t \subseteq DOMAIN tx.inputs
             /\ \A i \in DOMAIN t : t[i] = u[tx.inputs[i].op] /\ ~MissingAt(u, tx, i)
             /\ tx.coinbase => t = <<>>
             /\ ~tx.coinbase => Len(t) = FirstMissing(u, tx) - 1
<1>1. CASE tx.coinbase
  <2>1. Taken(u, tx) = <<>>
    BY <1>1 DEF Taken
  <2> QED
    BY <1>1, <2>1
<1>2. CASE ~tx.coinbase
  <2> DEFINE m == FirstMissing(u, tx)
             t == [i \in 1..(m - 1) |-> u[tx.inputs[i].op]]
  <2>1. Taken(u, tx) = t
    BY <1>2 DEF Taken
  <2>2. /\ m \in 1..(Len(tx.inputs) + 1) /\ Len(tx.inputs) \in Nat
        /\ DOMAIN tx.inputs = 1..Len(tx.inputs)
        /\ \A i \in 1..(m - 1) : ~MissingAt(u, tx, i)
    BY FirstMissingFound, TxFields
  <2> HIDE DEF m
  <2>3. \A i \in 1..(m - 1) : u[tx.inputs[i].op] \in EntryType
    BY <2>2, UtxoElim DEF MissingAt
  <2>4. t \in Seq(EntryType) /\ Len(t) = m - 1 /\ DOMAIN t = 1..(m - 1)
    BY <2>2, <2>3
  <2>5. \A i \in 1..(m - 1) : t[i] = u[tx.inputs[i].op]
    OBVIOUS
  <2> HIDE DEF t
  <2> QED
    BY <1>2, <2>1, <2>2, <2>4, <2>5 DEF m
<1> QED
  BY <1>1, <1>2

\* What is burned is a natural.
LEMMA BurnNat ==
  ASSUME NEW tx \in TxType
  PROVE  TotalBurn(tx) \in Nat /\ TotalOutput(tx) \in Nat
<1> DEFINE f == [i \in DOMAIN tx.outputs |-> IF tx.outputs[i].burn THEN tx.outputs[i].amount ELSE 0]
           g == [i \in DOMAIN tx.outputs |-> tx.outputs[i].amount]
<1>1. IsFiniteSet(DOMAIN tx.outputs)
  BY TxFields, FS_Interval
<1>2. DOMAIN f = DOMAIN tx.outputs /\ DOMAIN g = DOMAIN tx.outputs
  OBVIOUS
<1>3. \A i \in DOMAIN tx.outputs : f[i] \in Nat /\ g[i] \in Nat
  BY TxFields
<1>4. TotalBurn(tx) = SumFunctionOnSet(f, DOMAIN tx.outputs)
  BY <1>2 DEF TotalBurn, SumFunction
<1>5. TotalOutput(tx) = SumFunctionOnSet(g, DOMAIN tx.outputs)
  BY <1>2 DEF TotalOutput, SumFunction
<1> HIDE DEF f, g
<1> QED
  BY <1>1, <1>3, <1>4, <1>5, SumNat

ApplyResult == [ok : BOOLEAN, led : LedgerType, undo : Seq(EntryType)]

TakenOps(tx, taken) == {tx.inputs[i].op : i \in DOMAIN taken}

\* apply_transaction answers with a ledger; what it does when it succeeds.
LEMMA ApplyType ==
  ASSUME NEW led \in LedgerType, NEW tx \in TxType, NEW height \in Nat
  PROVE  LET r == ApplyTransaction(led, tx, height)
             t == Taken(led.utxo, tx)
             rest == Without(led.utxo, TakenOps(tx, t))
         IN  /\ r \in ApplyResult
             /\ r.ok <=> (tx.coinbase \/ Len(t) = Len(tx.inputs))
             /\ r.ok => /\ r.led = [utxo |-> Over(Entries(tx, height), rest),
                                    burned |-> led.burned + TotalBurn(tx)]
                        /\ r.undo = t
             /\ ~r.ok => r.led = [utxo |-> rest, burned |-> led.burned]
<1> DEFINE t == Taken(led.utxo, tx)
           rest == Without(led.utxo, TakenOps(tx, t))
           fails == ~tx.coinbase /\ Len(t) < Len(tx.inputs)
           full == [utxo |-> Over(Entries(tx, height), rest),
                    burned |-> led.burned + TotalBurn(tx)]
           r == ApplyTransaction(led, tx, height)
<1>1. led.utxo \in UtxoType /\ led.burned \in Nat /\ led = [utxo |-> led.utxo, burned |-> led.burned]
  BY DEF LedgerType
<1>2. t \in Seq(EntryType) /\ Len(t) \in Nat /\ Len(t) <= Len(tx.inputs)
  BY <1>1, TakenType, TxFields
<1>3. rest \in UtxoType
  BY <1>1, WithoutType
<1>4. full \in LedgerType
  <2>1. Entries(tx, height) \in UtxoType
    BY EntriesType
  <2> HIDE DEF rest
  <2>2. Over(Entries(tx, height), rest) \in UtxoType
    BY <1>3, <2>1, OverType
  <2>3. led.burned + TotalBurn(tx) \in Nat
    BY <1>1, BurnNat
  <2> QED
    BY <2>2, <2>3 DEF LedgerType
<1>5. [led EXCEPT !.utxo = rest] = [utxo |-> rest, burned |-> led.burned]
  BY <1>1
<1>6. r = IF fails THEN [ok |-> FALSE, led |-> [led EXCEPT !.utxo = rest], undo |-> <<>>]
          ELSE [ok |-> TRUE, led |-> full, undo |-> t]
  BY DEF ApplyTransaction, TakeAndCreate, TakenOps
<1>7. [utxo |-> rest, burned |-> led.burned] \in LedgerType
  BY <1>1, <1>3 DEF LedgerType
<1> HIDE DEF t, rest, full, r
<1>8. fails <=> ~(tx.coinbase \/ Len(t) = Len(tx.inputs))
  BY <1>2, TxFields
<1> HIDE DEF fails
<1>9. CASE fails
  <2>1. r = [ok |-> FALSE, led |-> [utxo |-> rest, burned |-> led.burned], undo |-> <<>>]
    BY <1>5, <1>6, <1>9
  <2>2. r \in ApplyResult /\ ~r.ok /\ r.led = [utxo |-> rest, burned |-> led.burned]
    BY <1>7, <2>1 DEF ApplyResult
  <2> QED
    BY <1>8, <1>9, <2>2 DEF r, t, rest
<1>10. CASE ~fails
  <2>1. r = [ok |-> TRUE, led |-> full, undo |-> t]
    BY <1>6, <1>10
  <2>2. r \in ApplyResult /\ r.ok /\ r.led = full /\ r.undo = t
    BY <1>2, <1>4, <2>1 DEF ApplyResult
  <2> QED
    BY <1>8, <1>10, <2>2 DEF r, t, rest, full
<1> QED
  BY <1>9, <1>10

\* No output of the transaction is in the UTXO set yet.
Fresh(tx, u) == OutPoints(tx) \cap DOMAIN u = {}

\* disconnect_block undoes a transaction exactly: with the entries that
\* apply_transaction has returned, the ledger is what it was.
LEMMA UndoRestores ==
  ASSUME NEW led \in LedgerType, NEW tx \in TxType, NEW height \in Nat,
         Fresh(tx, led.utxo), ApplyTransaction(led, tx, height).ok
  PROVE  UndoTransaction(ApplyTransaction(led, tx, height).led, tx,
                         ApplyTransaction(led, tx, height).undo) = led
<1> DEFINE u == led.utxo
           t == Taken(u, tx)
           ops == TakenOps(tx, t)
           rest == Without(u, ops)
           new == Entries(tx, height)
           after == Over(new, rest)
           burn == TotalBurn(tx)
           back == [op \in ops |-> t[CHOOSE i \in DOMAIN t : tx.inputs[i].op = op]]
<1>1. /\ u \in UtxoType /\ led.burned \in Nat /\ burn \in Nat
      /\ led = [utxo |-> u, burned |-> led.burned]
  BY BurnNat DEF LedgerType
<1>2. /\ ApplyTransaction(led, tx, height).led = [utxo |-> after, burned |-> led.burned + burn]
      /\ ApplyTransaction(led, tx, height).undo = t
  BY ApplyType
<1>3. /\ DOMAIN t \subseteq DOMAIN tx.inputs
      /\ \A i \in DOMAIN t : /\ t[i] = u[tx.inputs[i].op]
                             /\ tx.inputs[i].op \in DOMAIN u
  BY <1>1, TakenType DEF MissingAt
<1>4. rest \in UtxoType /\ DOMAIN rest = DOMAIN u \ ops /\ \A op \in DOMAIN rest : rest[op] = u[op]
  <2> HIDE DEF u, ops
  <2>1. rest \in UtxoType /\ DOMAIN rest = DOMAIN u \ ops
    BY <1>1, WithoutType
  <2>2. \A op \in DOMAIN u \ ops : rest[op] = u[op]
    BY <1>1, WithoutType
  <2> HIDE DEF rest
  <2> QED
    BY <2>1, <2>2
<1>5. new \in UtxoType /\ DOMAIN new = OutPoints(tx)
  BY EntriesType
<1>6. after \in UtxoType /\ DOMAIN after = OutPoints(tx) \cup (DOMAIN u \ ops)
      /\ \A op \in DOMAIN rest \ OutPoints(tx) : after[op] = u[op]
  <2> HIDE DEF new, rest, u, ops
  <2>1. after \in UtxoType /\ DOMAIN after = DOMAIN new \cup DOMAIN rest
        /\ \A op \in DOMAIN rest \ DOMAIN new : after[op] = rest[op]
    BY <1>4, <1>5, OverType
  <2> HIDE DEF after
  <2> QED
    BY <1>4, <1>5, <2>1
<1>7. ops \subseteq DOMAIN u
  BY <1>3 DEF TakenOps
<1>8. \A op \in ops : back[op] = u[op]
  <2>1. TAKE op \in ops
  <2>2. \E i \in DOMAIN t : tx.inputs[i].op = op
    BY DEF TakenOps
  <2>3. PICK i \in DOMAIN t : i = CHOOSE j \in DOMAIN t : tx.inputs[j].op = op
    BY <2>2
  <2>4. tx.inputs[i].op = op
    BY <2>2, <2>3
  <2>5. back[op] = t[i]
    BY <2>3
  <2> QED
    BY <1>3, <2>4, <2>5
<1>9. back \in UtxoType /\ DOMAIN back = ops
  <2>1. DOMAIN back = ops
    OBVIOUS
  <2>2. \A op \in ops : back[op] \in EntryType
    BY <1>1, <1>7, <1>8, UtxoElim
  <2>3. IsFiniteSet(ops) /\ ops \subseteq OutPointType
    BY <1>1, <1>7, UtxoElim, FS_Subset
  <2>4. back \in [ops -> EntryType]
    <3>1. back = [op \in ops |-> back[op]]
      OBVIOUS
    <3> HIDE DEF back, ops
    <3> QED
      BY <2>2, <3>1
  <2> HIDE DEF back, ops
  <2> QED
    BY <2>1, <2>3, <2>4, UtxoIntro
<1> DEFINE less == Without(after, OutPoints(tx))
<1>10. less \in UtxoType /\ DOMAIN less = DOMAIN u \ ops /\ \A op \in DOMAIN less : less[op] = u[op]
  <2>1. less \in UtxoType /\ DOMAIN less = DOMAIN after \ OutPoints(tx)
        /\ \A op \in DOMAIN after \ OutPoints(tx) : less[op] = after[op]
    <3> HIDE DEF after
    <3> QED
      BY <1>6, WithoutType
  <2>2. OutPoints(tx) \cap DOMAIN u = {}
    BY DEF Fresh
  <2> HIDE DEF less, after, rest, u, ops
  <2> QED
    BY <1>4, <1>6, <2>1, <2>2
<1> DEFINE result == Over(back, less)
<1>11. /\ result \in UtxoType /\ DOMAIN result = ops \cup (DOMAIN u \ ops)
       /\ \A op \in ops : result[op] = u[op]
       /\ \A op \in DOMAIN u \ ops : result[op] = u[op]
  <2> HIDE DEF less, back, ops, u
  <2>1. /\ result \in UtxoType /\ DOMAIN result = DOMAIN back \cup DOMAIN less
        /\ \A op \in DOMAIN back : result[op] = back[op]
        /\ \A op \in DOMAIN less \ DOMAIN back : result[op] = less[op]
    BY <1>9, <1>10, OverType
  <2> HIDE DEF result
  <2> QED
    BY <1>8, <1>9, <1>10, <2>1
<1>12. result = u
  <2> HIDE DEF result, u, ops
  <2>1. DOMAIN result = DOMAIN u /\ \A op \in DOMAIN u : result[op] = u[op]
    BY <1>7, <1>11
  <2> QED
    BY <1>1, <1>11, <2>1, UtxoEqual
<1>13. UndoTransaction([utxo |-> after, burned |-> led.burned + burn], tx, t)
         = [utxo |-> result, burned |-> IF burn < led.burned + burn
                                        THEN (led.burned + burn) - burn ELSE 0]
  BY DEF UndoTransaction, TakenOps
<1>14. (IF burn < led.burned + burn THEN (led.burned + burn) - burn ELSE 0) = led.burned
  <2> HIDE DEF burn
  <2> QED
    BY <1>1
<1> QED
  BY <1>1, <1>2, <1>12, <1>13, <1>14

----------------------------------------------------------------------------
(* A whole block                                                           *)

IsBlock(block) == block.txs \in Seq(TxType) /\ block.score \in Nat

UndoType == [txs : Seq(Seq(EntryType)), merges : SUBSET OutPointType]

AppliedType == [ok : BOOLEAN, led : LedgerType, undo : UndoType]

\* The table of the fold of apply_block.
BlockTable(led, block, g) ==
  g = [p \in SUBSET DOMAIN block.txs |->
         IF p = {} THEN NothingApplied(led)
         ELSE ApplyNext(g[p \ {Max(p)}], block.txs[Max(p)], block.score)]

\* apply_block is the entry of the whole block in that table.
LEMMA BlockIsChosen ==
  ASSUME NEW led, NEW block
  PROVE  ApplyBlock(led, block) = (CHOOSE g : BlockTable(led, block, g))[DOMAIN block.txs]
BY DEF ApplyBlock, FoldLeft, MapThenFoldSet, BlockTable

\* One more transaction leaves a result.
LEMMA ApplyNextType ==
  ASSUME NEW acc \in AppliedType, NEW tx \in TxType, NEW height \in Nat
  PROVE  ApplyNext(acc, tx, height) \in AppliedType
<1> DEFINE r == ApplyTransaction(acc.led, tx, height)
           old == acc.undo.txs
<1>1. acc.led \in LedgerType /\ old \in Seq(Seq(EntryType))
  BY DEF AppliedType, UndoType
<1>2. r \in ApplyResult
  BY <1>1, ApplyType
<1>3. r.ok \in BOOLEAN /\ r.led \in LedgerType /\ r.undo \in Seq(EntryType)
  BY <1>2 DEF ApplyResult
<1> HIDE DEF r, old
<1>4. Append(old, r.undo) \in Seq(Seq(EntryType))
  <2> DEFINE Y == Seq(EntryType)
  <2>1. r.undo \in Y /\ old \in Seq(Y)
    BY <1>1, <1>3
  <2> HIDE DEF Y
  <2>2. Append(old, r.undo) \in Seq(Y)
    BY <2>1
  <2> QED
    BY <2>2 DEF Y
<1>5. [txs |-> Append(old, r.undo), merges |-> {}] \in UndoType
  BY <1>4 DEF UndoType
<1>6. AfterTransaction(acc, r) =
        [ok |-> r.ok, led |-> r.led, undo |-> [txs |-> Append(old, r.undo), merges |-> {}]]
  BY DEF AfterTransaction, old
<1>7. AfterTransaction(acc, r) \in AppliedType
  BY <1>3, <1>5, <1>6 DEF AppliedType
<1> QED
  BY <1>7 DEF ApplyNext, r

\* Nothing applied is a result.
LEMMA NothingType ==
  ASSUME NEW led \in LedgerType
  PROVE  NothingApplied(led) \in AppliedType
<1>1. <<>> \in Seq(Seq(EntryType))
  OBVIOUS
<1>2. [txs |-> <<>>, merges |-> {}] \in UndoType
  BY <1>1 DEF UndoType
<1>3. [ok |-> TRUE, led |-> led, undo |-> [txs |-> <<>>, merges |-> {}]] \in AppliedType
  BY <1>2 DEF AppliedType
<1> QED
  BY <1>3 DEF NothingApplied, AppliedType, UndoType

\* The table exists.
LEMMA BlockTableExists ==
  ASSUME NEW led \in LedgerType, NEW block, IsBlock(block)
  PROVE  \E g : BlockTable(led, block, g)
<1> DEFINE s == block.txs
           D == DOMAIN s
           P == [p \in SUBSET D |-> Max(p)]
           X == AppliedType
           F == [x \in X \X D |-> ApplyNext(x[1], s[x[2]], block.score)]
<1>1. D = 1..Len(s) /\ Len(s) \in Nat /\ IsFiniteSet(D) /\ block.score \in Nat
      /\ \A i \in D : s[i] \in TxType
  <2>1. s \in Seq(TxType) /\ block.score \in Nat
    BY DEF IsBlock
  <2> HIDE DEF s
  <2>2. D = 1..Len(s) /\ Len(s) \in Nat /\ \A i \in D : s[i] \in TxType
    BY <2>1
  <2> QED
    BY <2>1, <2>2, FS_Interval
<1>2. IsPicker(D, P)
  BY <1>1, MaxOfSet DEF IsPicker
<1>3. IsFoldStep(X, D, F)
  <2> HIDE DEF X, D, s
  <2>1. \A x \in X \X D : ApplyNext(x[1], s[x[2]], block.score) \in X
    BY <1>1, ApplyNextType DEF X
  <2> QED
    BY <2>1 DEF IsFoldStep
<1>4. NothingApplied(led) \in X
  BY NothingType
<1>5. PICK g : IsFoldTable(X, NothingApplied(led), D, P, F, g)
  <2> HIDE DEF X, D, P, F
  <2> QED
    BY <1>1, <1>2, <1>3, <1>4, FoldTableExists
<1>6. \A p \in SUBSET D :
        g[p] = IF p = {} THEN NothingApplied(led)
               ELSE ApplyNext(g[p \ {Max(p)}], s[Max(p)], block.score)
  <2>1. TAKE p \in SUBSET D
  <2>2. CASE p = {}
    BY <1>5, <2>2 DEF IsFoldTable
  <2>3. CASE p # {}
    <3>1. Max(p) \in D /\ P[p] = Max(p)
      BY <1>2, <2>3 DEF IsPicker
    <3>2. g[p \ {Max(p)}] \in X
      BY <1>5, <3>1 DEF IsFoldTable
    <3>3. g[p] = F[<<g[p \ {Max(p)}], Max(p)>>]
      <4> HIDE DEF F, P
      <4> QED
        BY <1>5, <2>3, <3>1 DEF IsFoldTable
    <3> HIDE DEF X, D, s
    <3> QED
      BY <2>3, <3>1, <3>2, <3>3
  <2> QED
    BY <2>2, <2>3
<1>7. BlockTable(led, block, g)
  BY <1>5, <1>6 DEF BlockTable, IsFoldTable
<1> QED
  BY <1>7

\* apply_block, transaction by transaction: a[k] is what it has after k.
IsBlockRun(led, block, a) ==
  /\ a[0] = NothingApplied(led)
  /\ \A k \in 1..Len(block.txs) : a[k] = ApplyNext(a[k - 1], block.txs[k], block.score)
  /\ \A k \in 0..Len(block.txs) : a[k] \in AppliedType

\* There is such a run, and it ends with what apply_block returns.
LEMMA BlockRunExists ==
  ASSUME NEW led \in LedgerType, NEW block, IsBlock(block)
  PROVE  \E a : IsBlockRun(led, block, a) /\ ApplyBlock(led, block) = a[Len(block.txs)]
<1> DEFINE s == block.txs
           n == Len(s)
<1>1. n \in Nat /\ DOMAIN s = 1..n /\ block.score \in Nat /\ \A i \in 1..n : s[i] \in TxType
  BY DEF IsBlock
<1>2. PICK g : g = (CHOOSE t : BlockTable(led, block, t))
  OBVIOUS
<1>3. BlockTable(led, block, g)
  BY <1>2, BlockTableExists
<1>4. \A p \in SUBSET (1..n) :
        g[p] = IF p = {} THEN NothingApplied(led)
               ELSE ApplyNext(g[p \ {Max(p)}], s[Max(p)], block.score)
  BY <1>1, <1>3 DEF BlockTable
<1> HIDE DEF s, n
<1>5. ASSUME NEW k \in 1..n
      PROVE  g[1..k] = ApplyNext(g[1..(k - 1)], s[k], block.score)
  <2>1. 1..k \in SUBSET (1..n) /\ 1..k # {} /\ k \in Nat /\ k > 0
    BY <1>1
  <2>2. Max(1..k) = k /\ (1..k) \ {k} = 1..(k - 1)
    BY <2>1, MaxOfPrefix
  <2>3. g[1..k] = ApplyNext(g[(1..k) \ {Max(1..k)}], s[Max(1..k)], block.score)
    BY <1>4, <2>1
  <2> QED
    BY <2>2, <2>3
<1>6. g[1..0] = NothingApplied(led)
  <2>1. 1..0 = {} /\ 1..0 \in SUBSET (1..n)
    OBVIOUS
  <2> QED
    BY <1>4, <2>1
<1> DEFINE a == [k \in 0..n |-> g[1..k]]
<1>7. a[0] = NothingApplied(led) /\ a[n] = g[1..n]
  BY <1>1, <1>6
<1>8. \A k \in 1..n : a[k] = ApplyNext(a[k - 1], s[k], block.score)
  <2>1. TAKE k \in 1..n
  <2>2. a[k] = g[1..k] /\ a[k - 1] = g[1..(k - 1)]
    BY <1>1
  <2> HIDE DEF a
  <2> QED
    BY <1>5, <2>2
<1> HIDE DEF a
<1> DEFINE T == {k \in Nat : k <= n => a[k] \in AppliedType}
<1>9. 0 \in T
  BY <1>7, NothingType
<1>10. ASSUME NEW k \in Nat, k \in T PROVE k + 1 \in T
  <2>1. SUFFICES ASSUME k + 1 <= n PROVE a[k + 1] \in AppliedType
    OBVIOUS
  <2>2. a[k] \in AppliedType /\ k + 1 \in 1..n /\ (k + 1) - 1 = k
    BY <1>1, <1>10, <2>1
  <2>3. a[k + 1] = ApplyNext(a[k], s[k + 1], block.score)
    BY <1>8, <2>2
  <2> QED
    BY <1>1, <2>2, <2>3, ApplyNextType
<1> HIDE DEF T
<1>11. Nat \subseteq T
  BY <1>9, <1>10, SetInduction
<1>12. \A k \in 0..n : a[k] \in AppliedType
  BY <1>1, <1>11 DEF T
<1>13. ApplyBlock(led, block) = a[n]
  BY <1>1, <1>2, <1>7, BlockIsChosen DEF s
<1> QED
  BY <1>7, <1>8, <1>12, <1>13 DEF IsBlockRun, s, n

\* apply_block keeps the ledger a ledger, whether it succeeds or not.
LEMMA ApplyBlockType ==
  ASSUME NEW led \in LedgerType, NEW block, IsBlock(block)
  PROVE  ApplyBlock(led, block) \in AppliedType
<1>1. PICK a : IsBlockRun(led, block, a) /\ ApplyBlock(led, block) = a[Len(block.txs)]
  BY BlockRunExists
<1>2. Len(block.txs) \in 0..Len(block.txs)
  BY DEF IsBlock
<1> QED
  BY <1>1, <1>2 DEF IsBlockRun

\* A block that has been applied was applied in every step.
LEMMA RunSteps ==
  ASSUME NEW led \in LedgerType, NEW block, IsBlock(block), NEW a, IsBlockRun(led, block, a),
         a[Len(block.txs)].ok
  PROVE  /\ \A k \in 0..Len(block.txs) : a[k].ok
         /\ \A k \in 1..Len(block.txs) :
              LET r == ApplyTransaction(a[k - 1].led, block.txs[k], block.score)
              IN  /\ r.ok /\ a[k].led = r.led
                  /\ a[k].undo = [txs |-> Append(a[k - 1].undo.txs, r.undo), merges |-> {}]
<1> DEFINE n == Len(block.txs)
           T == {j \in Nat : j <= n => a[n - j].ok}
<1>1. n \in Nat
  BY DEF IsBlock
<1>2. 0 \in T
  BY <1>1
<1>3. ASSUME NEW j \in Nat, j \in T PROVE j + 1 \in T
  <2>1. SUFFICES ASSUME j + 1 <= n PROVE a[n - (j + 1)].ok
    OBVIOUS
  <2>2. n - j \in 1..n /\ (n - j) - 1 = n - (j + 1) /\ a[n - j].ok
    BY <1>1, <1>3, <2>1
  <2>3. a[n - j] = ApplyNext(a[(n - j) - 1], block.txs[n - j], block.score)
    BY <2>2 DEF IsBlockRun
  <2>4. ASSUME ~a[(n - j) - 1].ok PROVE FALSE
    <3>1. a[n - j] = a[(n - j) - 1]
      BY <2>3, <2>4 DEF ApplyNext
    <3> QED
      BY <2>2, <2>4, <3>1
  <2> QED
    BY <2>2, <2>4
<1> HIDE DEF T
<1>4. Nat \subseteq T
  BY <1>2, <1>3, SetInduction
<1>5. ASSUME NEW k \in 0..n PROVE a[k].ok
  <2>1. n - k \in Nat /\ n - k <= n /\ n - (n - k) = k
    BY <1>1
  <2>2. n - k \in T
    BY <1>4, <2>1
  <2> QED
    BY <2>1, <2>2 DEF T
<1>6. ASSUME NEW k \in 1..n
      PROVE  LET r == ApplyTransaction(a[k - 1].led, block.txs[k], block.score)
             IN  /\ r.ok /\ a[k].led = r.led
                 /\ a[k].undo = [txs |-> Append(a[k - 1].undo.txs, r.undo), merges |-> {}]
  <2> DEFINE r == ApplyTransaction(a[k - 1].led, block.txs[k], block.score)
  <2>1. a[k].ok /\ a[k - 1].ok
    BY <1>1, <1>5
  <2>2. a[k] = ApplyNext(a[k - 1], block.txs[k], block.score)
    BY DEF IsBlockRun
  <2> HIDE DEF r
  <2>3. a[k] = AfterTransaction(a[k - 1], r)
    BY <2>1, <2>2 DEF ApplyNext, r
  <2>4. a[k].ok = r.ok /\ a[k].led = r.led
        /\ a[k].undo = [txs |-> Append(a[k - 1].undo.txs, r.undo), merges |-> {}]
    BY <2>3 DEF AfterTransaction
  <2> QED
    BY <2>1, <2>4 DEF r
<1> QED
  BY <1>5, <1>6

\* The undo data lists what each transaction took.
LEMMA RunUndo ==
  ASSUME NEW led \in LedgerType, NEW block, IsBlock(block), NEW a, IsBlockRun(led, block, a),
         a[Len(block.txs)].ok
  PROVE  LET n == Len(block.txs)
             undo == a[n].undo
         IN  /\ undo.txs \in Seq(Seq(EntryType)) /\ Len(undo.txs) = n /\ undo.merges = {}
             /\ \A i \in 1..n :
                  undo.txs[i] = ApplyTransaction(a[i - 1].led, block.txs[i], block.score).undo
<1> DEFINE n == Len(block.txs)
           R(i) == ApplyTransaction(a[i - 1].led, block.txs[i], block.score).undo
           Good(k) == /\ Len(a[k].undo.txs) = k /\ a[k].undo.merges = {}
                      /\ \A i \in 1..k : a[k].undo.txs[i] = R(i)
           T == {k \in Nat : k <= n => Good(k)}
<1>1. n \in Nat
  BY DEF IsBlock
<1>2. ASSUME NEW k \in 0..n PROVE a[k].undo.txs \in Seq(Seq(EntryType))
  BY <1>2 DEF IsBlockRun, AppliedType, UndoType
<1>3. a[0].undo = [txs |-> <<>>, merges |-> {}]
  BY DEF IsBlockRun, NothingApplied
<1>4. 0 \in T
  <2>1. Len(a[0].undo.txs) = 0 /\ a[0].undo.merges = {}
    BY <1>3
  <2> QED
    BY <2>1
<1>5. ASSUME NEW k \in Nat, k \in T PROVE k + 1 \in T
  <2>1. SUFFICES ASSUME k + 1 <= n PROVE Good(k + 1)
    OBVIOUS
  <2> DEFINE old == a[k].undo.txs
             x == R(k + 1)
             new == a[k + 1].undo.txs
  <2>2. k + 1 \in 1..n /\ (k + 1) - 1 = k /\ k \in 0..n /\ Good(k)
    BY <1>1, <1>5, <2>1
  <2>3. a[k + 1].undo = [txs |-> Append(a[(k + 1) - 1].undo.txs, x), merges |-> {}]
    <3>1. ASSUME NEW m \in 1..n
          PROVE  a[m].undo = [txs |-> Append(a[m - 1].undo.txs, R(m)), merges |-> {}]
      BY RunSteps, SMTT(30)
    <3> HIDE DEF R
    <3> QED
      BY <2>2, <3>1
  <2>4. new = Append(old, x) /\ a[k + 1].undo.merges = {}
    <3> HIDE DEF x
    <3> QED
      BY <2>2, <2>3, SMTT(30)
  <2>5. old \in Seq(Seq(EntryType)) /\ Len(old) = k /\ \A i \in 1..k : old[i] = R(i)
    <3>1. old \in Seq(Seq(EntryType))
      BY <1>2, <2>2
    <3> HIDE DEF R
    <3> QED
      BY <2>2, <3>1
  <2> HIDE DEF old, x, new, R
  <2>6. Len(new) = k + 1 /\ new[k + 1] = x /\ \A i \in 1..k : new[i] = old[i]
    <3> DEFINE Y == Seq(EntryType)
    <3>1. old \in Seq(Y)
      BY <2>5
    <3> HIDE DEF Y
    <3> QED
      BY <2>4, <2>5, <3>1
  <2>7. \A i \in 1..(k + 1) : i \in 1..k \/ i = k + 1
    OBVIOUS
  <2>8. \A i \in 1..(k + 1) : new[i] = R(i)
    BY <2>5, <2>6, <2>7 DEF x
  <2> QED
    BY <2>4, <2>6, <2>8 DEF new
<1> HIDE DEF T
<1>6. Nat \subseteq T
  BY <1>4, <1>5, SetInduction
<1>7. Good(n)
  BY <1>1, <1>6 DEF T
<1> QED
  BY <1>1, <1>2, <1>7

----------------------------------------------------------------------------
(* Disconnecting a block                                                   *)

\* Undo data that fits a block: for each transaction, entries for its inputs.
FitsBlock(block, undo) ==
  /\ undo.txs \in Seq(Seq(EntryType)) /\ Len(undo.txs) = Len(block.txs)
  /\ \A i \in 1..Len(block.txs) : DOMAIN undo.txs[i] \subseteq DOMAIN block.txs[i].inputs

\* Undoing a transaction leaves a ledger.
LEMMA UndoLedgerType ==
  ASSUME NEW led \in LedgerType, NEW tx \in TxType,
         NEW spent \in Seq(EntryType), DOMAIN spent \subseteq DOMAIN tx.inputs
  PROVE  UndoTransaction(led, tx, spent) \in LedgerType
<1> DEFINE ops == {tx.inputs[i].op : i \in DOMAIN spent}
           back == [op \in ops |-> spent[CHOOSE i \in DOMAIN spent : tx.inputs[i].op = op]]
           less == Without(led.utxo, OutPoints(tx))
           burn == TotalBurn(tx)
<1>1. led.utxo \in UtxoType /\ led.burned \in Nat /\ burn \in Nat
  BY BurnNat DEF LedgerType
<1>2. ops \subseteq OutPointType
  BY TxFields
<1>3. IsFiniteSet(ops)
  <2> DEFINE b == [i \in DOMAIN spent |-> tx.inputs[i].op]
  <2>1. ops = {b[i] : i \in DOMAIN spent}
    OBVIOUS
  <2>2. IsFiniteSet(DOMAIN spent)
    BY FS_Interval
  <2> HIDE DEF b, ops
  <2> QED
    BY <2>1, <2>2, FiniteImage
<1>4. \A op \in ops : spent[CHOOSE i \in DOMAIN spent : tx.inputs[i].op = op] \in EntryType
  <2>1. TAKE op \in ops
  <2>2. \E i \in DOMAIN spent : tx.inputs[i].op = op
    OBVIOUS
  <2>3. PICK i \in DOMAIN spent : i = CHOOSE j \in DOMAIN spent : tx.inputs[j].op = op
    BY <2>2
  <2>4. spent[i] \in EntryType
    OBVIOUS
  <2> QED
    BY <2>3, <2>4
<1>5. back \in [ops -> EntryType]
  <2> HIDE DEF ops
  <2> QED
    BY <1>4
<1>6. back \in UtxoType
  <2> HIDE DEF back, ops
  <2> QED
    BY <1>2, <1>3, <1>5, UtxoIntro
<1>7. less \in UtxoType
  BY <1>1, WithoutType
<1>8. Over(back, less) \in UtxoType
  <2> HIDE DEF back, less
  <2> QED
    BY <1>6, <1>7, OverType
<1>9. (IF burn < led.burned THEN led.burned - burn ELSE 0) \in Nat
  <2> HIDE DEF burn
  <2> QED
    BY <1>1
<1>10. UndoTransaction(led, tx, spent) =
         [utxo |-> Over(back, less), burned |-> IF burn < led.burned THEN led.burned - burn ELSE 0]
  BY DEF UndoTransaction
<1> HIDE DEF back, less, burn
<1> QED
  BY <1>8, <1>9, <1>10 DEF LedgerType

\* The table of the fold of disconnect_block.
UndoTable(led, block, undo, g) ==
  g = [p \in SUBSET DOMAIN [i \in DOMAIN block.txs |-> i] |->
         IF p = {} THEN led
         ELSE UndoTransaction(g[p \ {Min(p)}],
                              block.txs[[i \in DOMAIN block.txs |-> i][Min(p)]],
                              undo.txs[[i \in DOMAIN block.txs |-> i][Min(p)]])]

\* What all transactions undone leave.
AllUndone(led, block, undo) ==
  FoldRightDomain(LAMBDA i, acc : UndoTransaction(acc, block.txs[i], undo.txs[i]),
                  block.txs, led)

\* It is the entry of the whole block in the table.
LEMMA UndoneIsChosen ==
  ASSUME NEW led, NEW block, NEW undo
  PROVE  AllUndone(led, block, undo) =
           (CHOOSE g : UndoTable(led, block, undo, g))[DOMAIN [i \in DOMAIN block.txs |-> i]]
BY DEF AllUndone, FoldRightDomain, FoldRight, MapThenFoldSet, UndoTable

\* The table exists.
LEMMA UndoTableExists ==
  ASSUME NEW led \in LedgerType, NEW block, IsBlock(block), NEW undo, FitsBlock(block, undo)
  PROVE  \E g : UndoTable(led, block, undo, g)
<1> DEFINE s == block.txs
           D == DOMAIN s
           P == [p \in SUBSET D |-> Min(p)]
           X == LedgerType
           F == [x \in X \X D |-> UndoTransaction(x[1], s[x[2]], undo.txs[x[2]])]
           q == [i \in D |-> i]
<1>1. /\ D = 1..Len(s) /\ Len(s) \in Nat /\ IsFiniteSet(D)
      /\ \A i \in D : s[i] \in TxType
  <2>1. s \in Seq(TxType)
    BY DEF IsBlock
  <2> HIDE DEF s
  <2>2. D = 1..Len(s) /\ Len(s) \in Nat /\ \A i \in D : s[i] \in TxType
    BY <2>1
  <2> QED
    BY <2>2, FS_Interval
<1>2. \A i \in D : undo.txs[i] \in Seq(EntryType) /\ DOMAIN undo.txs[i] \subseteq DOMAIN s[i].inputs
  <2> DEFINE Y == Seq(EntryType)
  <2>1. undo.txs \in Seq(Y) /\ Len(undo.txs) = Len(s)
    BY DEF FitsBlock
  <2> HIDE DEF Y
  <2>2. \A i \in D : undo.txs[i] \in Y
    BY <1>1, <2>1
  <2>3. \A i \in D : DOMAIN undo.txs[i] \subseteq DOMAIN s[i].inputs
    BY <1>1 DEF FitsBlock
  <2> QED
    BY <2>2, <2>3 DEF Y
<1>3. IsPicker(D, P)
  <2>1. ASSUME NEW p \in SUBSET D, p # {} PROVE P[p] \in p
    BY <1>1, <2>1, MinOfSet
  <2> QED
    BY <2>1 DEF IsPicker
<1>4. IsFoldStep(X, D, F)
  <2> HIDE DEF X, D, s
  <2>1. \A x \in X \X D : UndoTransaction(x[1], s[x[2]], undo.txs[x[2]]) \in X
    BY <1>1, <1>2, UndoLedgerType DEF X
  <2> QED
    BY <2>1 DEF IsFoldStep
<1>5. PICK g : IsFoldTable(X, led, D, P, F, g)
  <2> HIDE DEF X, D, P, F
  <2>1. led \in X
    BY DEF X
  <2> QED
    BY <1>1, <1>3, <1>4, <2>1, FoldTableExists
<1>6. \A p \in SUBSET D :
        g[p] = IF p = {} THEN led
               ELSE UndoTransaction(g[p \ {Min(p)}], s[q[Min(p)]], undo.txs[q[Min(p)]])
  <2>1. TAKE p \in SUBSET D
  <2>2. CASE p = {}
    BY <1>5, <2>2 DEF IsFoldTable
  <2>3. CASE p # {}
    <3>1. Min(p) \in D /\ P[p] = Min(p)
      BY <1>3, <2>3 DEF IsPicker
    <3>2. g[p \ {Min(p)}] \in X
      BY <1>5, <3>1 DEF IsFoldTable
    <3>3. g[p] = F[<<g[p \ {Min(p)}], Min(p)>>]
      <4> HIDE DEF F, P
      <4> QED
        BY <1>5, <2>3, <3>1 DEF IsFoldTable
    <3>4. q[Min(p)] = Min(p)
      BY <3>1
    <3> HIDE DEF X, D, s, q
    <3>5. g[p] = UndoTransaction(g[p \ {Min(p)}], s[Min(p)], undo.txs[Min(p)])
      BY <3>1, <3>2, <3>3
    <3> QED
      BY <2>3, <3>4, <3>5
  <2> QED
    BY <2>2, <2>3
<1>7. DOMAIN q = D /\ DOMAIN g = SUBSET D
  BY <1>5 DEF IsFoldTable
<1>8. g = [p \in SUBSET DOMAIN q |-> g[p]]
  BY <1>5, <1>7 DEF IsFoldTable
<1>9. UndoTable(led, block, undo, g)
  BY <1>6, <1>7, <1>8 DEF UndoTable
<1> QED
  BY <1>9

\* disconnect_block, from the last transaction to the first: d[k] is what is
\* left when the transactions k and later are undone.
IsUndoRun(led, block, undo, d) ==
  /\ d[Len(block.txs) + 1] = led
  /\ \A k \in 1..Len(block.txs) : d[k] = UndoTransaction(d[k + 1], block.txs[k], undo.txs[k])

\* There is such a run, and it ends with what the fold returns.
LEMMA UndoRunExists ==
  ASSUME NEW led \in LedgerType, NEW block, IsBlock(block), NEW undo, FitsBlock(block, undo)
  PROVE  \E d : IsUndoRun(led, block, undo, d) /\ AllUndone(led, block, undo) = d[1]
<1> DEFINE s == block.txs
           n == Len(s)
           q == [i \in DOMAIN s |-> i]
<1>1. n \in Nat /\ DOMAIN s = 1..n /\ DOMAIN q = 1..n /\ \A i \in 1..n : q[i] = i
  BY DEF IsBlock
<1>2. PICK g : g = (CHOOSE t : UndoTable(led, block, undo, t))
  OBVIOUS
<1>3. UndoTable(led, block, undo, g)
  BY <1>2, UndoTableExists
<1>4. \A p \in SUBSET (DOMAIN q) :
        g[p] = IF p = {} THEN led
               ELSE UndoTransaction(g[p \ {Min(p)}], s[q[Min(p)]], undo.txs[q[Min(p)]])
  BY <1>3 DEF UndoTable
<1>5. AllUndone(led, block, undo) = g[DOMAIN q]
  BY <1>2, UndoneIsChosen
<1> HIDE DEF s, n, q
<1>6. ASSUME NEW k \in 1..n
      PROVE  g[k..n] = UndoTransaction(g[(k + 1)..n], s[k], undo.txs[k])
  <2>1. k..n \in SUBSET (1..n) /\ k \in k..n
    BY <1>1
  <2>2. Min(k..n) = k
    <3>1. Min(k..n) \in k..n /\ \A i \in k..n : Min(k..n) <= i
      BY <1>1, <2>1, MinOfSet
    <3> QED
      BY <1>1, <2>1, <3>1
  <2>3. (k..n) \ {k} = (k + 1)..n
    BY <1>1
  <2>4. g[k..n] = UndoTransaction(g[(k..n) \ {Min(k..n)}], s[q[Min(k..n)]], undo.txs[q[Min(k..n)]])
    BY <1>1, <1>4, <2>1
  <2>5. q[k] = k
    BY <1>1
  <2> QED
    BY <2>2, <2>3, <2>4, <2>5
<1>7. g[(n + 1)..n] = led
  <2>1. (n + 1)..n = {}
    BY <1>1
  <2>2. {} \in SUBSET (DOMAIN q)
    OBVIOUS
  <2> QED
    BY <1>4, <2>1, <2>2
<1> DEFINE d == [k \in 1..(n + 1) |-> g[k..n]]
<1>8. d[n + 1] = led /\ d[1] = g[1..n]
  BY <1>1, <1>7
<1>9. \A k \in 1..n : d[k] = UndoTransaction(d[k + 1], s[k], undo.txs[k])
  <2>1. TAKE k \in 1..n
  <2>2. d[k] = g[k..n] /\ d[k + 1] = g[(k + 1)..n]
    BY <1>1
  <2> HIDE DEF d
  <2> QED
    BY <1>6, <2>2
<1> HIDE DEF d
<1>10. IsUndoRun(led, block, undo, d)
  BY <1>8, <1>9 DEF IsUndoRun, s, n
<1> QED
  BY <1>1, <1>5, <1>8, <1>10

\* No output of a transaction of the block is unspent yet, and no two
\* transactions of it have an output in common.
FreshBlock(block, u) ==
  /\ \A i \in DOMAIN block.txs : Fresh(block.txs[i], u)
  /\ \A i, j \in DOMAIN block.txs :
       i # j => OutPoints(block.txs[i]) \cap OutPoints(block.txs[j]) = {}

\* The typed steps of a run.
LEMMA RunTypes ==
  ASSUME NEW led \in LedgerType, NEW block, IsBlock(block), NEW a, IsBlockRun(led, block, a)
  PROVE  /\ Len(block.txs) \in Nat /\ DOMAIN block.txs = 1..Len(block.txs) /\ block.score \in Nat
         /\ a[0].led = led
         /\ \A k \in 0..Len(block.txs) : a[k].led \in LedgerType /\ a[k].led.utxo \in UtxoType
         /\ \A k \in 1..Len(block.txs) : block.txs[k] \in TxType /\ k - 1 \in 0..Len(block.txs)
<1>1. /\ Len(block.txs) \in Nat /\ DOMAIN block.txs = 1..Len(block.txs) /\ block.score \in Nat
      /\ \A k \in 1..Len(block.txs) : block.txs[k] \in TxType
  BY DEF IsBlock
<1>2. \A k \in 0..Len(block.txs) : a[k].led \in LedgerType
  BY DEF IsBlockRun, AppliedType
<1>3. \A k \in 0..Len(block.txs) : a[k].led.utxo \in UtxoType
  BY <1>2 DEF LedgerType
<1>4. a[0].led = led
  BY DEF IsBlockRun, NothingApplied
<1> QED
  BY <1>1, <1>2, <1>3, <1>4

\* A transaction adds no other entries than its outputs.
LEMMA RunAdds ==
  ASSUME NEW led \in LedgerType, NEW block, IsBlock(block), NEW a, IsBlockRun(led, block, a),
         a[Len(block.txs)].ok
  PROVE  \A k \in 1..Len(block.txs) :
           DOMAIN a[k].led.utxo \subseteq DOMAIN a[k - 1].led.utxo \cup OutPoints(block.txs[k])
<1>1. SUFFICES ASSUME NEW k \in 1..Len(block.txs)
               PROVE  DOMAIN a[k].led.utxo \subseteq
                        DOMAIN a[k - 1].led.utxo \cup OutPoints(block.txs[k])
  OBVIOUS
<1> DEFINE tx == block.txs[k]
           l == a[k - 1].led
           r == ApplyTransaction(l, tx, block.score)
           rest == Without(l.utxo, TakenOps(tx, Taken(l.utxo, tx)))
           new == Entries(tx, block.score)
<1>2. l \in LedgerType /\ tx \in TxType /\ l.utxo \in UtxoType /\ block.score \in Nat
  BY RunTypes
<1>3. r.ok /\ a[k].led = r.led
  <2>1. \A m \in 1..Len(block.txs) :
          /\ ApplyTransaction(a[m - 1].led, block.txs[m], block.score).ok
          /\ a[m].led = ApplyTransaction(a[m - 1].led, block.txs[m], block.score).led
    BY RunSteps
  <2> QED
    BY <2>1
<1> HIDE DEF l, tx
<1>4. r.led = [utxo |-> Over(new, rest), burned |-> l.burned + TotalBurn(tx)]
  BY <1>2, <1>3, ApplyType
<1>5. a[k].led.utxo = Over(new, rest)
  BY <1>3, <1>4
<1>6. rest \in UtxoType /\ DOMAIN rest \subseteq DOMAIN l.utxo
  <2> DEFINE ops == TakenOps(tx, Taken(l.utxo, tx))
             v == l.utxo
  <2>1. v \in UtxoType /\ rest = Without(v, ops)
    BY <1>2
  <2> HIDE DEF v, ops, rest
  <2>2. rest \in UtxoType /\ DOMAIN rest = DOMAIN v \ ops
    BY <2>1, WithoutType
  <2> QED
    BY <2>2 DEF v
<1>7. new \in UtxoType /\ DOMAIN new = OutPoints(tx)
  BY <1>2, EntriesType
<1> HIDE DEF new, rest
<1>8. DOMAIN Over(new, rest) = OutPoints(tx) \cup DOMAIN rest
  BY <1>6, <1>7, OverType
<1>9. DOMAIN a[k].led.utxo \subseteq DOMAIN l.utxo \cup OutPoints(tx)
  BY <1>5, <1>6, <1>8
<1> QED
  BY <1>9 DEF l, tx

\* While a fresh block is applied, each of its transactions is fresh when its
\* turn comes.
LEMMA FreshInTurn ==
  ASSUME NEW led \in LedgerType, NEW block, IsBlock(block), FreshBlock(block, led.utxo),
         NEW a, IsBlockRun(led, block, a), a[Len(block.txs)].ok
  PROVE  \A k \in 1..Len(block.txs) : Fresh(block.txs[k], a[k - 1].led.utxo)
<1> DEFINE n == Len(block.txs)
           U(k) == DOMAIN a[k].led.utxo
           O(k) == OutPoints(block.txs[k])
           T == {k \in Nat : k <= n =>
                   \A op \in U(k) : op \in DOMAIN led.utxo \/ \E i \in 1..k : op \in O(i)}
<1>1. n \in Nat /\ DOMAIN block.txs = 1..n /\ U(0) = DOMAIN led.utxo
  BY RunTypes
<1>2. \A k \in 1..n : U(k) \subseteq U(k - 1) \cup O(k)
  BY RunAdds
<1>3. \A k \in 1..n : O(k) \cap DOMAIN led.utxo = {}
  BY <1>1 DEF FreshBlock, Fresh
<1>4. \A i, k \in 1..n : i # k => O(i) \cap O(k) = {}
  BY <1>1 DEF FreshBlock
<1> HIDE DEF n, U, O
<1>5. 0 \in T
  BY <1>1
<1>6. ASSUME NEW k \in Nat, k \in T PROVE k + 1 \in T
  <2>1. SUFFICES ASSUME k + 1 <= n, NEW op \in U(k + 1)
                 PROVE  op \in DOMAIN led.utxo \/ \E i \in 1..(k + 1) : op \in O(i)
    OBVIOUS
  <2>2. k + 1 \in 1..n /\ (k + 1) - 1 = k /\ k <= n
    BY <1>1, <2>1
  <2>3. op \in U(k) \/ op \in O(k + 1)
    BY <1>2, <2>1, <2>2
  <2>4. op \in U(k) => op \in DOMAIN led.utxo \/ \E i \in 1..k : op \in O(i)
    BY <1>6, <2>2
  <2>5. \A i \in 1..k : i \in 1..(k + 1)
    OBVIOUS
  <2>6. k + 1 \in 1..(k + 1)
    OBVIOUS
  <2> QED
    BY <2>3, <2>4, <2>5, <2>6
<1> HIDE DEF T
<1>7. Nat \subseteq T
  BY <1>5, <1>6, SetInduction
<1>8. ASSUME NEW k \in 1..n PROVE O(k) \cap U(k - 1) = {}
  <2>1. k - 1 \in T /\ k - 1 <= n
    BY <1>1, <1>7
  <2>2. \A op \in U(k - 1) : op \in DOMAIN led.utxo \/ \E i \in 1..(k - 1) : op \in O(i)
    BY <2>1 DEF T
  <2>3. \A i \in 1..(k - 1) : i \in 1..n /\ i # k
    BY <1>1
  <2> QED
    BY <1>3, <1>4, <2>2, <2>3
<1> QED
  BY <1>8 DEF Fresh, n, U, O

----------------------------------------------------------------------------
(* Entries that a block has nothing to do with: the merge rewards          *)

\* l2 is l1 with entries at the outpoints C, none of which l1 has.
Extended(l1, l2, C) ==
  /\ C \subseteq OutPointType /\ IsFiniteSet(C)
  /\ l1 \in LedgerType /\ l2 \in LedgerType
  /\ C \cap DOMAIN l1.utxo = {}
  /\ DOMAIN l2.utxo = DOMAIN l1.utxo \cup C
  /\ \A op \in DOMAIN l1.utxo : l2.utxo[op] = l1.utxo[op]
  /\ l2.burned = l1.burned

\* Taking those entries out again leaves l1.
LEMMA ExtendedBack ==
  ASSUME NEW l1, NEW l2, NEW C, Extended(l1, l2, C)
  PROVE  [l2 EXCEPT !.utxo = Without(@, C)] = l1
<1> DEFINE u == l1.utxo
           v == l2.utxo
           w == Without(v, C)
<1>1. /\ u \in UtxoType /\ v \in UtxoType /\ l1 = [utxo |-> u, burned |-> l1.burned]
      /\ l2 = [utxo |-> v, burned |-> l2.burned] /\ l1.burned = l2.burned
  BY DEF Extended, LedgerType
<1>2. C \cap DOMAIN u = {} /\ DOMAIN v = DOMAIN u \cup C /\ \A op \in DOMAIN u : v[op] = u[op]
  BY DEF Extended
<1>3. [l2 EXCEPT !.utxo = Without(@, C)] = [utxo |-> w, burned |-> l2.burned]
  BY <1>1
<1> HIDE DEF u, v
<1>4. w \in UtxoType /\ DOMAIN w = DOMAIN v \ C /\ \A op \in DOMAIN v \ C : w[op] = v[op]
  BY <1>1, WithoutType
<1> HIDE DEF w
<1>5. DOMAIN w = DOMAIN u /\ \A op \in DOMAIN u : w[op] = u[op]
  BY <1>2, <1>4
<1>6. w = u
  BY <1>1, <1>4, <1>5, UtxoEqual
<1> QED
  BY <1>1, <1>3, <1>6

\* The entries that undoing a transaction puts back.
PutBack(tx, spent) ==
  [op \in TakenOps(tx, spent) |-> spent[CHOOSE i \in DOMAIN spent : tx.inputs[i].op = op]]

\* What undoing a transaction does.
LEMMA UndoFields ==
  ASSUME NEW led \in LedgerType, NEW tx \in TxType,
         NEW spent \in Seq(EntryType), DOMAIN spent \subseteq DOMAIN tx.inputs
  PROVE  LET r == UndoTransaction(led, tx, spent)
             back == PutBack(tx, spent)
         IN  /\ r \in LedgerType /\ back \in UtxoType /\ DOMAIN back = TakenOps(tx, spent)
             /\ r.utxo = Over(back, Without(led.utxo, OutPoints(tx)))
             /\ r.burned = IF TotalBurn(tx) < led.burned THEN led.burned - TotalBurn(tx) ELSE 0
<1> DEFINE ops == TakenOps(tx, spent)
           back == PutBack(tx, spent)
<1>1. UndoTransaction(led, tx, spent) =
         [utxo |-> Over(back, Without(led.utxo, OutPoints(tx))),
          burned |-> IF TotalBurn(tx) < led.burned THEN led.burned - TotalBurn(tx) ELSE 0]
  BY DEF UndoTransaction, PutBack, TakenOps
<1>2. ops \subseteq OutPointType
  BY TxFields DEF TakenOps
<1>3. IsFiniteSet(ops)
  <2> DEFINE b == [i \in DOMAIN spent |-> tx.inputs[i].op]
  <2>1. ops = {b[i] : i \in DOMAIN spent}
    BY DEF TakenOps
  <2>2. IsFiniteSet(DOMAIN spent)
    BY FS_Interval
  <2> HIDE DEF b, ops
  <2> QED
    BY <2>1, <2>2, FiniteImage
<1>4. \A op \in ops : spent[CHOOSE i \in DOMAIN spent : tx.inputs[i].op = op] \in EntryType
  <2>1. TAKE op \in ops
  <2>2. \E i \in DOMAIN spent : tx.inputs[i].op = op
    BY DEF TakenOps
  <2>3. PICK i \in DOMAIN spent : i = CHOOSE j \in DOMAIN spent : tx.inputs[j].op = op
    BY <2>2
  <2>4. spent[i] \in EntryType
    OBVIOUS
  <2> QED
    BY <2>3, <2>4
<1>5. back \in [ops -> EntryType] /\ DOMAIN back = ops
  <2>1. back = [op \in ops |-> spent[CHOOSE i \in DOMAIN spent : tx.inputs[i].op = op]]
    BY DEF PutBack
  <2> HIDE DEF ops, back
  <2> QED
    BY <1>4, <2>1
<1>6. back \in UtxoType
  <2> HIDE DEF back, ops
  <2> QED
    BY <1>2, <1>3, <1>5, UtxoIntro
<1>7. UndoTransaction(led, tx, spent) \in LedgerType
  BY UndoLedgerType
<1> HIDE DEF back, ops
<1> QED
  BY <1>1, <1>5, <1>6, <1>7 DEF back, ops

\* Undoing a transaction leaves the other entries where they are.
LEMMA UndoExtended ==
  ASSUME NEW l1, NEW l2, NEW C, Extended(l1, l2, C), NEW tx \in TxType,
         NEW spent \in Seq(EntryType), DOMAIN spent \subseteq DOMAIN tx.inputs,
         C \cap OutPoints(tx) = {}, C \cap Spends(tx) = {}
  PROVE  Extended(UndoTransaction(l1, tx, spent), UndoTransaction(l2, tx, spent), C)
<1> DEFINE u == l1.utxo
           v == l2.utxo
           out == OutPoints(tx)
           back == PutBack(tx, spent)
           r1 == UndoTransaction(l1, tx, spent)
           r2 == UndoTransaction(l2, tx, spent)
           w1 == Without(u, out)
           w2 == Without(v, out)
<1>1. /\ u \in UtxoType /\ v \in UtxoType /\ l1 \in LedgerType /\ l2 \in LedgerType
      /\ l1.burned = l2.burned
      /\ C \cap DOMAIN u = {} /\ DOMAIN v = DOMAIN u \cup C /\ \A op \in DOMAIN u : v[op] = u[op]
  BY DEF Extended, LedgerType
<1>2. /\ r1 \in LedgerType /\ r2 \in LedgerType /\ r1.burned = r2.burned
      /\ r1.utxo = Over(back, w1) /\ r2.utxo = Over(back, w2)
      /\ back \in UtxoType /\ DOMAIN back = TakenOps(tx, spent)
  <2>1. ASSUME NEW l \in LedgerType
        PROVE  LET r == UndoTransaction(l, tx, spent)
               IN  /\ r \in LedgerType /\ back \in UtxoType /\ DOMAIN back = TakenOps(tx, spent)
                   /\ r.utxo = Over(back, Without(l.utxo, out))
                   /\ r.burned = IF TotalBurn(tx) < l.burned THEN l.burned - TotalBurn(tx) ELSE 0
    BY UndoFields
  <2> HIDE DEF back, out
  <2> QED
    BY <1>1, <2>1
<1>3. TakenOps(tx, spent) \subseteq Spends(tx)
  BY DEF TakenOps, Spends
<1> HIDE DEF u, v, r1, r2, back, out
<1>4. /\ w1 \in UtxoType /\ DOMAIN w1 = DOMAIN u \ out /\ \A op \in DOMAIN u \ out : w1[op] = u[op]
  BY <1>1, WithoutType
<1>5. /\ w2 \in UtxoType /\ DOMAIN w2 = DOMAIN v \ out /\ \A op \in DOMAIN v \ out : w2[op] = v[op]
  BY <1>1, WithoutType
<1> HIDE DEF w1, w2
<1>6. /\ DOMAIN r1.utxo = DOMAIN back \cup DOMAIN w1
      /\ \A op \in DOMAIN back : r1.utxo[op] = back[op]
      /\ \A op \in DOMAIN w1 \ DOMAIN back : r1.utxo[op] = w1[op]
  <2> DEFINE o == Over(back, w1)
  <2>1. /\ DOMAIN o = DOMAIN back \cup DOMAIN w1
        /\ \A op \in DOMAIN back : o[op] = back[op]
        /\ \A op \in DOMAIN w1 \ DOMAIN back : o[op] = w1[op]
    BY <1>2, <1>4, OverType
  <2>2. r1.utxo = o
    BY <1>2
  <2> HIDE DEF o
  <2> QED
    BY <2>1, <2>2
<1>7. /\ DOMAIN r2.utxo = DOMAIN back \cup DOMAIN w2
      /\ \A op \in DOMAIN back : r2.utxo[op] = back[op]
      /\ \A op \in DOMAIN w2 \ DOMAIN back : r2.utxo[op] = w2[op]
  <2> DEFINE o == Over(back, w2)
  <2>1. /\ DOMAIN o = DOMAIN back \cup DOMAIN w2
        /\ \A op \in DOMAIN back : o[op] = back[op]
        /\ \A op \in DOMAIN w2 \ DOMAIN back : o[op] = w2[op]
    BY <1>2, <1>5, OverType
  <2>2. r2.utxo = o
    BY <1>2
  <2> HIDE DEF o
  <2> QED
    BY <2>1, <2>2
<1>8. C \cap out = {} /\ C \cap DOMAIN back = {}
  BY <1>2, <1>3 DEF out
<1>9. DOMAIN w2 = DOMAIN w1 \cup C /\ \A op \in DOMAIN w1 : w2[op] = w1[op]
  BY <1>1, <1>4, <1>5, <1>8
<1>10. C \cap DOMAIN r1.utxo = {} /\ DOMAIN r2.utxo = DOMAIN r1.utxo \cup C
  BY <1>1, <1>4, <1>6, <1>7, <1>8, <1>9
<1>11. \A op \in DOMAIN r1.utxo : r2.utxo[op] = r1.utxo[op]
  BY <1>6, <1>7, <1>9
<1>12. C \subseteq OutPointType /\ IsFiniteSet(C)
  BY DEF Extended
<1> QED
  BY <1>2, <1>10, <1>11, <1>12 DEF Extended, r1, r2

\* The undo data of a block that has been applied fits the block.
LEMMA RunFits ==
  ASSUME NEW led \in LedgerType, NEW block, IsBlock(block), NEW a, IsBlockRun(led, block, a),
         a[Len(block.txs)].ok
  PROVE  FitsBlock(block, a[Len(block.txs)].undo)
<1> DEFINE n == Len(block.txs)
           undo == a[n].undo
<1>1. /\ undo.txs \in Seq(Seq(EntryType)) /\ Len(undo.txs) = n
      /\ \A i \in 1..n :
           undo.txs[i] = ApplyTransaction(a[i - 1].led, block.txs[i], block.score).undo
  BY RunUndo
<1>2. ASSUME NEW i \in 1..n PROVE DOMAIN undo.txs[i] \subseteq DOMAIN block.txs[i].inputs
  <2> DEFINE l == a[i - 1].led
             tx == block.txs[i]
  <2>1. l \in LedgerType /\ l.utxo \in UtxoType /\ tx \in TxType /\ block.score \in Nat
    BY RunTypes
  <2>2. \A m \in 1..n : ApplyTransaction(a[m - 1].led, block.txs[m], block.score).ok
    BY RunSteps
  <2>3. ApplyTransaction(l, tx, block.score).ok
    BY <2>2
  <2>4. undo.txs[i] = ApplyTransaction(l, tx, block.score).undo
    BY <1>1
  <2> HIDE DEF l, tx, undo
  <2>5. ApplyTransaction(l, tx, block.score).undo = Taken(l.utxo, tx)
    BY <2>1, <2>3, ApplyType
  <2>6. DOMAIN Taken(l.utxo, tx) \subseteq DOMAIN tx.inputs
    BY <2>1, TakenType
  <2> QED
    BY <2>4, <2>5, <2>6 DEF tx
<1> QED
  BY <1>1, <1>2 DEF FitsBlock

\* An applied transaction has its outputs in the set.
LEMMA RunCreates ==
  ASSUME NEW led \in LedgerType, NEW block, IsBlock(block), NEW a, IsBlockRun(led, block, a),
         a[Len(block.txs)].ok, NEW k \in 1..Len(block.txs)
  PROVE  OutPoints(block.txs[k]) \subseteq DOMAIN a[k].led.utxo
<1> DEFINE tx == block.txs[k]
           l == a[k - 1].led
           r == ApplyTransaction(l, tx, block.score)
           rest == Without(l.utxo, TakenOps(tx, Taken(l.utxo, tx)))
           new == Entries(tx, block.score)
<1>2. l \in LedgerType /\ tx \in TxType /\ l.utxo \in UtxoType /\ block.score \in Nat
  BY RunTypes
<1>3. r.ok /\ a[k].led = r.led
  <2>1. \A m \in 1..Len(block.txs) :
          /\ ApplyTransaction(a[m - 1].led, block.txs[m], block.score).ok
          /\ a[m].led = ApplyTransaction(a[m - 1].led, block.txs[m], block.score).led
    BY RunSteps
  <2> QED
    BY <2>1
<1> HIDE DEF l, tx
<1>4. r.led = [utxo |-> Over(new, rest), burned |-> l.burned + TotalBurn(tx)]
  BY <1>2, <1>3, ApplyType
<1>5. a[k].led.utxo = Over(new, rest)
  BY <1>3, <1>4
<1>7. DOMAIN new = OutPoints(tx)
  BY <1>2, EntriesType
<1>8. DOMAIN Over(new, rest) = OutPoints(tx) \cup DOMAIN rest
  <2> HIDE DEF new, rest
  <2> QED
    BY <1>7 DEF Over
<1> QED
  BY <1>5, <1>8 DEF l, tx

\* disconnect_block, fed with the undo data of apply_block, takes the ledger
\* back to what it was before the block, whatever entries C have been added
\* in between, if C is their list and the block spends none of them.
LEMMA DisconnectExtended ==
  ASSUME NEW led \in LedgerType, NEW block, IsBlock(block), FreshBlock(block, led.utxo),
         ApplyBlock(led, block).ok,
         NEW l2, NEW C, Extended(ApplyBlock(led, block).led, l2, C),
         \A i \in DOMAIN block.txs : C \cap Spends(block.txs[i]) = {},
         NEW undo, undo.txs = ApplyBlock(led, block).undo.txs, undo.merges = C
  PROVE  DisconnectBlock(l2, block, undo) = [ok |-> TRUE, led |-> led]
<1> DEFINE n == Len(block.txs)
<1>1. PICK a : IsBlockRun(led, block, a) /\ ApplyBlock(led, block) = a[n]
  BY BlockRunExists
<1>2. /\ n \in Nat /\ DOMAIN block.txs = 1..n /\ block.score \in Nat /\ a[n].ok /\ a[0].led = led
      /\ \A k \in 0..n : a[k].led \in LedgerType
      /\ \A k \in 1..n : block.txs[k] \in TxType
  BY <1>1, RunTypes
<1>3. undo.txs = a[n].undo.txs
  BY <1>1
<1>4. FitsBlock(block, undo)
  <2>1. FitsBlock(block, a[n].undo)
    BY <1>1, <1>2, RunFits
  <2> QED
    BY <1>3, <2>1 DEF FitsBlock
<1>5. l2 \in LedgerType
  BY DEF Extended
<1>6. PICK d : IsUndoRun(l2, block, undo, d) /\ AllUndone(l2, block, undo) = d[1]
  BY <1>4, <1>5, UndoRunExists
<1>7. ASSUME NEW k \in 1..n
      PROVE  /\ Fresh(block.txs[k], a[k - 1].led.utxo)
             /\ ApplyTransaction(a[k - 1].led, block.txs[k], block.score).ok
             /\ a[k].led = ApplyTransaction(a[k - 1].led, block.txs[k], block.score).led
             /\ undo.txs[k] = ApplyTransaction(a[k - 1].led, block.txs[k], block.score).undo
             /\ undo.txs[k] \in Seq(EntryType)
             /\ DOMAIN undo.txs[k] \subseteq DOMAIN block.txs[k].inputs
             /\ a[k - 1].led \in LedgerType
             /\ OutPoints(block.txs[k]) \subseteq DOMAIN a[k].led.utxo
             /\ C \cap Spends(block.txs[k]) = {}
             /\ d[k] = UndoTransaction(d[k + 1], block.txs[k], undo.txs[k])
  <2>1. Fresh(block.txs[k], a[k - 1].led.utxo)
    BY <1>1, <1>2, FreshInTurn
  <2>2. \A m \in 1..Len(block.txs) :
          /\ ApplyTransaction(a[m - 1].led, block.txs[m], block.score).ok
          /\ a[m].led = ApplyTransaction(a[m - 1].led, block.txs[m], block.score).led
    BY <1>1, <1>2, RunSteps, ZenonT(30)
  <2>3. a[n].undo.txs[k] = ApplyTransaction(a[k - 1].led, block.txs[k], block.score).undo
    BY <1>1, <1>2, RunUndo
  <2>4. undo.txs[k] \in Seq(EntryType)
    <3> DEFINE Y == Seq(EntryType)
    <3>1. undo.txs \in Seq(Y) /\ Len(undo.txs) = n
      BY <1>4 DEF FitsBlock
    <3> HIDE DEF Y
    <3>2. undo.txs[k] \in Y
      BY <3>1
    <3> QED
      BY <3>2 DEF Y
  <2>5. DOMAIN undo.txs[k] \subseteq DOMAIN block.txs[k].inputs
    BY <1>4 DEF FitsBlock
  <2>6. OutPoints(block.txs[k]) \subseteq DOMAIN a[k].led.utxo
    BY <1>1, <1>2, RunCreates
  <2>7. a[k - 1].led \in LedgerType
    BY <1>2
  <2>8. d[k] = UndoTransaction(d[k + 1], block.txs[k], undo.txs[k])
    BY <1>6 DEF IsUndoRun
  <2>9. C \cap Spends(block.txs[k]) = {}
    BY <1>2
  <2> QED
    BY <1>3, <2>1, <2>2, <2>3, <2>4, <2>5, <2>6, <2>7, <2>8, <2>9
<1> DEFINE T == {j \in Nat : j <= n => Extended(a[n - j].led, d[(n - j) + 1], C)}
<1>8. 0 \in T
  <2>1. d[n + 1] = l2 /\ n - 0 = n /\ (n - 0) + 1 = n + 1
    BY <1>2, <1>6 DEF IsUndoRun
  <2> QED
    BY <1>1, <2>1
<1>9. ASSUME NEW k \in 1..n, Extended(a[k].led, d[k + 1], C)
      PROVE  Extended(a[k - 1].led, d[k], C)
  <2> DEFINE tx == block.txs[k]
             sp == undo.txs[k]
             l == a[k - 1].led
             m == a[k].led
  <2>1. C \cap OutPoints(tx) = {}
    BY <1>7, <1>9 DEF Extended
  <2>2. /\ tx \in TxType /\ sp \in Seq(EntryType) /\ DOMAIN sp \subseteq DOMAIN tx.inputs
        /\ C \cap Spends(tx) = {} /\ l \in LedgerType /\ block.score \in Nat
        /\ Fresh(tx, l.utxo) /\ ApplyTransaction(l, tx, block.score).ok
        /\ m = ApplyTransaction(l, tx, block.score).led
        /\ sp = ApplyTransaction(l, tx, block.score).undo
        /\ d[k] = UndoTransaction(d[k + 1], tx, sp)
    BY <1>2, <1>7
  <2>3. Extended(m, d[k + 1], C)
    BY <1>9
  <2> HIDE DEF tx, sp, l, m
  <2>4. Extended(UndoTransaction(m, tx, sp), UndoTransaction(d[k + 1], tx, sp), C)
    BY <2>1, <2>2, <2>3, UndoExtended
  <2>5. UndoTransaction(m, tx, sp) = l
    BY <2>2, UndoRestores
  <2> QED
    BY <2>2, <2>4, <2>5 DEF l
<1>10. ASSUME NEW j \in Nat, j \in T PROVE j + 1 \in T
  <2>1. SUFFICES ASSUME j + 1 <= n PROVE Extended(a[n - (j + 1)].led, d[(n - (j + 1)) + 1], C)
    OBVIOUS
  <2>2. PICK k \in 1..n : k = n - j
    <3>1. n \in Nat
      BY <1>2
    <3> HIDE DEF n
    <3>2. n - j \in 1..n
      BY <2>1, <3>1
    <3> QED
      BY <3>2
  <2>3. Extended(a[k].led, d[k + 1], C)
    <3>1. j <= n
      BY <1>2, <2>1
    <3>2. Extended(a[n - j].led, d[(n - j) + 1], C)
      BY <1>10, <3>1
    <3> QED
      BY <2>2, <3>2
  <2>4. Extended(a[k - 1].led, d[k], C)
    BY <1>9, <2>3
  <2>5. n - (j + 1) = k - 1 /\ (n - (j + 1)) + 1 = k
    BY <1>2, <2>2
  <2> QED
    BY <2>4, <2>5
<1> HIDE DEF T
<1>11. Nat \subseteq T
  BY <1>8, <1>10, SetInduction
<1>12. Extended(led, d[1], C)
  <2>1. n \in T
    BY <1>2, <1>11
  <2>2. n - n = 0 /\ (n - n) + 1 = 1
    BY <1>2
  <2> QED
    BY <1>2, <2>1, <2>2 DEF T
<1>13. DisconnectBlock(l2, block, undo)
         = [ok |-> TRUE, led |-> [AllUndone(l2, block, undo) EXCEPT !.utxo = Without(@, C)]]
  <2>1. Len(block.txs) = Len(undo.txs)
    BY <1>4 DEF FitsBlock
  <2> QED
    BY <2>1 DEF DisconnectBlock, AllUndone
<1>14. [d[1] EXCEPT !.utxo = Without(@, C)] = led
  BY <1>12, ExtendedBack
<1> QED
  BY <1>6, <1>13, <1>14

----------------------------------------------------------------------------
(* The rewards of the merge blocks                                         *)

\* The reward of a merge block: the outputs of its first transaction.
RewardPoints(block) ==
  IF block.txs = <<>> \/ ~Head(block.txs).coinbase THEN {} ELSE OutPoints(Head(block.txs))

\* Ledgers that extend led by entries outside Sp.
PaidType(led, Sp) ==
  {r \in [led : LedgerType, created : SUBSET OutPointType] :
     Extended(led, r.led, r.created) /\ r.created \cap Sp = {}}

\* What paying one more merge block does to the answer so far.
PayOne(acc, block) ==
  [ApplyMergeCoinbase(acc.led, block) EXCEPT !.created = @ \cup acc.created]

\* A ledger extended again is extended.
LEMMA ExtendedAgain ==
  ASSUME NEW l1, NEW l2, NEW l3, NEW C, NEW E, Extended(l1, l2, C), Extended(l2, l3, E)
  PROVE  Extended(l1, l3, E \cup C)
<1>1. IsFiniteSet(E \cup C)
  BY FS_Union DEF Extended
<1> QED
  BY <1>1 DEF Extended

\* apply_merge_coinbase only adds entries, at the outpoints that it lists.
LEMMA MergeExtends ==
  ASSUME NEW led \in LedgerType, NEW block, IsBlock(block)
  PROVE  LET r == ApplyMergeCoinbase(led, block)
         IN  /\ r = [led |-> r.led, created |-> r.created]
             /\ Extended(led, r.led, r.created) /\ r.created \subseteq RewardPoints(block)
<1> DEFINE r == ApplyMergeCoinbase(led, block)
<1>1. led.utxo \in UtxoType /\ led.burned \in Nat /\ led = [utxo |-> led.utxo, burned |-> led.burned]
  BY DEF LedgerType
<1>2. CASE block.txs = <<>> \/ ~Head(block.txs).coinbase
  <2>1. r = [led |-> led, created |-> {}]
    BY <1>2 DEF ApplyMergeCoinbase
  <2>2. IsFiniteSet({})
    BY FS_EmptySet
  <2>3. Extended(led, led, {})
    BY <1>1, <2>2 DEF Extended
  <2>4. r.led = led /\ r.created = {}
    BY <2>1
  <2> HIDE DEF r
  <2> QED
    BY <2>1, <2>3, <2>4 DEF r
<1>3. CASE ~(block.txs = <<>> \/ ~Head(block.txs).coinbase)
  <2> DEFINE cb == Head(block.txs)
             u == led.utxo
             new == Entries(cb, block.score)
             o == Over(u, new)
             out == OutPoints(cb)
             l2 == [utxo |-> o, burned |-> led.burned]
  <2>1. cb \in TxType /\ block.score \in Nat
    BY <1>3 DEF IsBlock
  <2>2. r = [led |-> l2, created |-> out \ DOMAIN u]
    <3>1. [led EXCEPT !.utxo = Over(@, new)] = l2
      BY <1>1
    <3> HIDE DEF new, out, l2
    <3> QED
      BY <1>3, <3>1 DEF ApplyMergeCoinbase, new, out
  <2> HIDE DEF cb
  <2>3. new \in UtxoType /\ DOMAIN new = out
    BY <2>1, EntriesType
  <2>4. u \in UtxoType
    BY <1>1
  <2> HIDE DEF u, new
  <2>5. o \in UtxoType /\ DOMAIN o = DOMAIN u \cup out /\ \A op \in DOMAIN u : o[op] = u[op]
    BY <2>3, <2>4, OverType
  <2>6. IsFiniteSet(out) /\ out \subseteq OutPointType
    BY <2>3, UtxoElim
  <2> HIDE DEF out, o
  <2>7. IsFiniteSet(out \ DOMAIN u) /\ out \ DOMAIN u \subseteq OutPointType
    BY <2>6, FS_Subset
  <2>8. l2 \in LedgerType /\ l2.utxo = o /\ l2.burned = led.burned
    BY <1>1, <2>5 DEF LedgerType
  <2> HIDE DEF l2
  <2>9. Extended(led, l2, out \ DOMAIN u)
    <3>1. (out \ DOMAIN u) \cap DOMAIN u = {} /\ DOMAIN o = DOMAIN u \cup (out \ DOMAIN u)
      BY <2>5
    <3> QED
      BY <2>5, <2>7, <2>8, <3>1 DEF Extended, u
  <2>10. RewardPoints(block) = out
    BY <1>3 DEF RewardPoints, out, cb
  <2>11. r.led = l2 /\ r.created = out \ DOMAIN u
    BY <2>2
  <2> HIDE DEF r
  <2> QED
    BY <2>2, <2>9, <2>10, <2>11 DEF r
<1> QED
  BY <1>2, <1>3

\* Paying one more merge block keeps the answer an extension.
LEMMA PayOneType ==
  ASSUME NEW led \in LedgerType, NEW Sp, NEW acc \in PaidType(led, Sp),
         NEW block, IsBlock(block), RewardPoints(block) \cap Sp = {}
  PROVE  PayOne(acc, block) \in PaidType(led, Sp)
<1> DEFINE r == ApplyMergeCoinbase(acc.led, block)
<1>1. acc.led \in LedgerType /\ Extended(led, acc.led, acc.created) /\ acc.created \cap Sp = {}
  BY DEF PaidType
<1>2. /\ r = [led |-> r.led, created |-> r.created]
      /\ Extended(acc.led, r.led, r.created) /\ r.created \subseteq RewardPoints(block)
  BY <1>1, MergeExtends
<1> HIDE DEF r
<1>3. PayOne(acc, block) = [led |-> r.led, created |-> r.created \cup acc.created]
  <2>1. PayOne(acc, block) = [r EXCEPT !.created = @ \cup acc.created]
    BY DEF PayOne, r
  <2> QED
    BY <1>2, <2>1
<1>4. Extended(led, r.led, r.created \cup acc.created)
  BY <1>1, <1>2, ExtendedAgain
<1>5. r.led \in LedgerType /\ r.created \cup acc.created \subseteq OutPointType
  BY <1>4 DEF Extended
<1>6. (r.created \cup acc.created) \cap Sp = {}
  BY <1>1, <1>2
<1> DEFINE x == [led |-> r.led, created |-> r.created \cup acc.created]
<1>7. /\ x \in [led : LedgerType, created : SUBSET OutPointType]
      /\ x.led = r.led /\ x.created = r.created \cup acc.created
  BY <1>5
<1> HIDE DEF x
<1>8. x \in PaidType(led, Sp)
  BY <1>4, <1>6, <1>7 DEF PaidType
<1> QED
  BY <1>3, <1>8 DEF x

\* The table of the fold over the merge blocks.
MergeTable(led, merges, blk, g) ==
  g = [s \in SUBSET merges |->
         IF s = {} THEN [led |-> led, created |-> {}]
         ELSE PayOne(g[s \ {AnyOf(s)}], blk[AnyOf(s)])]

\* What the merge blocks are paid is the entry of all of them in it.
LEMMA MergesAreChosen ==
  ASSUME NEW led, NEW merges, NEW blk
  PROVE  PayMerges(led, merges, blk) = (CHOOSE g : MergeTable(led, merges, blk, g))[merges]
BY DEF PayMerges, FoldSet, MapThenFoldSet, MergeTable, PayOne, AnyOf

\* Before the first merge block nothing is paid.
LEMMA NothingPaid ==
  ASSUME NEW led \in LedgerType, NEW Sp
  PROVE  [led |-> led, created |-> {}] \in PaidType(led, Sp)
<1> DEFINE base == [led |-> led, created |-> {}]
<1>1. Extended(led, led, {})
  BY FS_EmptySet DEF Extended, LedgerType
<1>2. base \in [led : LedgerType, created : SUBSET OutPointType]
      /\ base.led = led /\ base.created = {}
  OBVIOUS
<1> HIDE DEF base
<1> QED
  BY <1>1, <1>2 DEF PaidType, base

\* The table of the merge rewards exists.
LEMMA MergeTableExists ==
  ASSUME NEW led \in LedgerType, NEW merges, IsFiniteSet(merges), NEW blk,
         \A m \in merges : IsBlock(blk[m])
  PROVE  \E t : MergeTable(led, merges, blk, t) /\ PayMerges(led, merges, blk) = t[merges]
<1> DEFINE D == merges
           P == [s \in SUBSET D |-> AnyOf(s)]
           X == PaidType(led, {})
           F == [x \in X \X D |-> PayOne(x[1], blk[x[2]])]
           base == [led |-> led, created |-> {}]
<1>1. IsPicker(D, P)
  BY AnyOfIn DEF IsPicker
<1>2. IsFoldStep(X, D, F)
  <2>1. \A x \in X \X D : PayOne(x[1], blk[x[2]]) \in X
    BY PayOneType
  <2> HIDE DEF X
  <2> QED
    BY <2>1 DEF IsFoldStep
<1>3. base \in X
  BY NothingPaid
<1>4. PICK g : IsFoldTable(X, base, D, P, F, g)
  <2> HIDE DEF X, P, F, base
  <2> QED
    BY <1>1, <1>2, <1>3, FoldTableExists
<1>5. \A s \in SUBSET D :
        g[s] = IF s = {} THEN base ELSE PayOne(g[s \ {AnyOf(s)}], blk[AnyOf(s)])
  <2>1. TAKE s \in SUBSET D
  <2>2. CASE s = {}
    BY <1>4, <2>2 DEF IsFoldTable
  <2>3. CASE s # {}
    <3>1. AnyOf(s) \in D /\ P[s] = AnyOf(s)
      BY <2>3, AnyOfIn
    <3>2. g[s \ {AnyOf(s)}] \in X
      <4> HIDE DEF X, F, P, base
      <4> QED
        BY <1>4, <3>1 DEF IsFoldTable
    <3>3. g[s] = F[<<g[s \ {AnyOf(s)}], AnyOf(s)>>]
      <4> HIDE DEF X, F, P, base
      <4> QED
        BY <1>4, <2>3, <3>1 DEF IsFoldTable
    <3> HIDE DEF X, base
    <3> QED
      BY <2>3, <3>1, <3>2, <3>3
  <2> QED
    BY <2>2, <2>3
<1>6. MergeTable(led, merges, blk, g)
  <2>1. g = [s \in SUBSET D |-> g[s]]
    <3> HIDE DEF X, F, P, base
    <3> QED
      BY <1>4 DEF IsFoldTable
  <2> QED
    BY <1>5, <2>1 DEF MergeTable
<1>7. PICK t : t = (CHOOSE h : MergeTable(led, merges, blk, h))
  OBVIOUS
<1> QED
  BY <1>6, <1>7, MergesAreChosen

\* What holds before the first merge block and is kept by each of them holds in
\* the end.
LEMMA PaidInduction ==
  ASSUME NEW led \in LedgerType, NEW merges, IsFiniteSet(merges), NEW blk,
         \A m \in merges : IsBlock(blk[m]),
         NEW R, <<{}, [led |-> led, created |-> {}]>> \in R,
         \A s \in SUBSET merges : \A m \in merges \ s : \A acc :
           <<s, acc>> \in R => <<s \cup {m}, PayOne(acc, blk[m])>> \in R
  PROVE  <<merges, PayMerges(led, merges, blk)>> \in R
<1> DEFINE D == merges
           base == [led |-> led, created |-> {}]
<1>1. PICK t : MergeTable(led, merges, blk, t) /\ PayMerges(led, merges, blk) = t[merges]
  BY MergeTableExists
<1>2. \A s \in SUBSET D :
        t[s] = IF s = {} THEN base ELSE PayOne(t[s \ {AnyOf(s)}], blk[AnyOf(s)])
  BY <1>1 DEF MergeTable
<1>3. <<{}, base>> \in R
  OBVIOUS
<1> HIDE DEF base
<1> DEFINE T == {n \in Nat : \A s \in Small(D, n) : <<s, t[s]>> \in R}
<1>4. 0 \in T
  <2>1. \A s \in Small(D, 0) : s = {} /\ s \in SUBSET D
    BY FS_Subset, FS_EmptySet, FS_CardinalityType DEF Small
  <2> QED
    BY <1>2, <1>3, <2>1
<1>5. ASSUME NEW n \in Nat, n \in T PROVE n + 1 \in T
  <2>1. SUFFICES ASSUME NEW s \in Small(D, n + 1) PROVE <<s, t[s]>> \in R
    OBVIOUS
  <2>2. s \in SUBSET D
    BY DEF Small
  <2>3. CASE s = {}
    BY <1>2, <1>3, <2>2, <2>3
  <2>4. CASE s # {}
    <3> DEFINE m == AnyOf(s)
               q == s \ {m}
    <3>1. q \in Small(D, n) /\ m \in s /\ m \in D
      BY <2>2, <2>4, SmallerPart, AnyOfIn
    <3>2. <<q, t[q]>> \in R
      BY <1>5, <3>1
    <3>3. t[s] = PayOne(t[q], blk[m])
      BY <1>2, <2>2, <2>4
    <3>4. q \in SUBSET merges /\ m \in merges \ q /\ q \cup {m} = s
      BY <2>2, <3>1
    <3> HIDE DEF m, q
    <3>5. <<q \cup {m}, PayOne(t[q], blk[m])>> \in R
      BY <3>2, <3>4
    <3> QED
      BY <3>3, <3>4, <3>5
  <2> QED
    BY <2>3, <2>4
<1> HIDE DEF T
<1>6. Nat \subseteq T
  BY <1>4, <1>5, SetInduction
<1>7. merges \in Small(D, Cardinality(merges)) /\ Cardinality(merges) \in T
  BY <1>6, FS_CardinalityType DEF Small
<1> QED
  BY <1>1, <1>7 DEF T

\* The rewards of merge blocks only add entries, at the outpoints listed.
LEMMA MergesExtend ==
  ASSUME NEW led \in LedgerType, NEW merges, IsFiniteSet(merges), NEW blk, NEW Sp,
         \A m \in merges : IsBlock(blk[m]) /\ RewardPoints(blk[m]) \cap Sp = {}
  PROVE  PayMerges(led, merges, blk) \in PaidType(led, Sp)
<1> DEFINE X == PaidType(led, Sp)
           R == {p \in (SUBSET merges) \X X : TRUE}
           base == [led |-> led, created |-> {}]
<1>1. base \in X
  BY NothingPaid
<1>2. \A acc \in X, m \in merges : PayOne(acc, blk[m]) \in X
  BY PayOneType
<1> HIDE DEF X, base
<1>3. <<{}, base>> \in R
  BY <1>1
<1>4. \A s \in SUBSET merges : \A m \in merges \ s : \A acc :
        <<s, acc>> \in R => <<s \cup {m}, PayOne(acc, blk[m])>> \in R
  BY <1>2
<1> HIDE DEF R
<1>5. <<merges, PayMerges(led, merges, blk)>> \in R
  BY <1>3, <1>4, PaidInduction DEF base
<1> QED
  BY <1>5 DEF R, X

----------------------------------------------------------------------------
(* apply_block_with_merges and disconnect_block                            *)

\* The blue merge blocks that block h pays.
MergesOf(h, gd, store) == DataOf(gd, h).blues \cap store

\* Block h may be connected on led: its outputs are new, and it does not
\* spend the reward of a block that it merges.
Connectable(led, h, blk, gd, store) ==
  /\ IsBlock(blk[h]) /\ FreshBlock(blk[h], led.utxo)
  /\ IsFiniteSet(MergesOf(h, gd, store))
  /\ \A m \in MergesOf(h, gd, store) :
       /\ IsBlock(blk[m])
       /\ \A i \in DOMAIN blk[h].txs : RewardPoints(blk[m]) \cap Spends(blk[h].txs[i]) = {}

\* disconnect_block is the inverse of apply_block_with_merges: given the undo
\* data it has stored, the ledger is back to what it was before the block,
\* its merge rewards and its burns, entry by entry.
THEOREM DisconnectRestores ==
  ASSUME NEW led \in LedgerType, NEW h, NEW blk, NEW gd, NEW store,
         Connectable(led, h, blk, gd, store),
         ApplyBlockWithMerges(led, h, blk, gd, store).ok
  PROVE  LET r == ApplyBlockWithMerges(led, h, blk, gd, store)
         IN  /\ r.led \in LedgerType
             /\ DisconnectBlock(r.led, blk[h], r.undo) = [ok |-> TRUE, led |-> led]
<1> DEFINE block == blk[h]
           merges == MergesOf(h, gd, store)
           b == ApplyBlock(led, block)
           paid == PayMerges(b.led, merges, blk)
           r == ApplyBlockWithMerges(led, h, blk, gd, store)
           Sp == UNION {Spends(block.txs[i]) : i \in DOMAIN block.txs}
<1>1. /\ IsBlock(block) /\ FreshBlock(block, led.utxo) /\ IsFiniteSet(merges)
      /\ \A m \in merges : IsBlock(blk[m]) /\ RewardPoints(blk[m]) \cap Sp = {}
  <2>1. IsBlock(block) /\ FreshBlock(block, led.utxo) /\ IsFiniteSet(merges)
    BY DEF Connectable
  <2>2. \A m \in merges :
       /\ IsBlock(blk[m])
       /\ \A i \in DOMAIN block.txs : RewardPoints(blk[m]) \cap Spends(block.txs[i]) = {}
    BY DEF Connectable
  <2> HIDE DEF merges, block
  <2> QED
    BY <2>1, <2>2
<1>2. r = AfterBlock(b, merges, blk)
  BY DEF ApplyBlockWithMerges, MergesOf
<1> HIDE DEF r, merges, block
<1>3. b \in AppliedType
  BY <1>1, ApplyBlockType
<1>4. b.ok
  BY <1>2 DEF AfterBlock, r
<1>5. r = WithPaid(b, paid)
  BY <1>2, <1>4 DEF AfterBlock
<1>6. b.led \in LedgerType /\ b.undo \in UndoType /\ b = [ok |-> b.ok, led |-> b.led, undo |-> b.undo]
      /\ b.undo = [txs |-> b.undo.txs, merges |-> b.undo.merges]
  BY <1>3 DEF AppliedType, UndoType
<1> HIDE DEF b
<1>7. paid \in PaidType(b.led, Sp)
  <2> HIDE DEF Sp
  <2> QED
    BY <1>1, <1>6, MergesExtend
<1> HIDE DEF paid
<1>8. Extended(b.led, paid.led, paid.created) /\ paid.created \cap Sp = {}
  BY <1>7 DEF PaidType
<1>9. r.led = paid.led /\ r.undo.txs = b.undo.txs /\ r.undo.merges = paid.created
  BY <1>5, <1>6 DEF WithPaid
<1>10. \A i \in DOMAIN block.txs : paid.created \cap Spends(block.txs[i]) = {}
  BY <1>8
<1>11. r.led \in LedgerType
  BY <1>8, <1>9 DEF Extended
<1>12. DisconnectBlock(r.led, block, r.undo) = [ok |-> TRUE, led |-> led]
  <2> HIDE DEF Sp
  <2>1. ApplyBlock(led, block).ok /\ Extended(ApplyBlock(led, block).led, r.led, paid.created)
        /\ r.undo.txs = ApplyBlock(led, block).undo.txs
    BY <1>4, <1>8, <1>9 DEF b
  <2> DEFINE C == paid.created
             l2 == r.led
             undo == r.undo
  <2>2. /\ Extended(ApplyBlock(led, block).led, l2, C)
        /\ undo.txs = ApplyBlock(led, block).undo.txs /\ undo.merges = C
        /\ \A i \in DOMAIN block.txs : C \cap Spends(block.txs[i]) = {}
    BY <1>9, <1>10, <2>1
  <2> HIDE DEF C, l2, undo
  <2>3. DisconnectBlock(l2, block, undo) = [ok |-> TRUE, led |-> led]
    BY <1>1, <2>1, <2>2, DisconnectExtended
  <2> QED
    BY <2>3 DEF l2, undo
<1> QED
  BY <1>11, <1>12 DEF r, block

----------------------------------------------------------------------------
(* validate_block_transactions                                             *)

ValidType == [ok : BOOLEAN, spent : SUBSET OutPointType, created : UtxoType, fees : Nat]

\* An input that is there has an entry.
LEMMA FoundType ==
  ASSUME NEW u \in UtxoType, NEW c \in UtxoType, NEW op \in DOMAIN u \cup DOMAIN c
  PROVE  FoundEntry(op, u, c) \in EntryType /\ FoundEntry(op, u, c).amount \in Nat
<1>1. FoundEntry(op, u, c) \in EntryType
  BY UtxoElim DEF FoundEntry
<1> QED
  BY <1>1 DEF EntryType

\* The inputs of a valid transaction have a sum.
LEMMA FoundSumNat ==
  ASSUME NEW u \in UtxoType, NEW c \in UtxoType, NEW tx \in TxType,
         \A i \in DOMAIN tx.inputs : tx.inputs[i].op \in DOMAIN u \cup DOMAIN c
  PROVE  FoundSum(tx, u, c) \in Nat
<1> DEFINE f == [i \in DOMAIN tx.inputs |-> FoundEntry(tx.inputs[i].op, u, c).amount]
<1>1. IsFiniteSet(DOMAIN tx.inputs) /\ DOMAIN f = DOMAIN tx.inputs
  BY TxFields, FS_Interval
<1>2. \A i \in DOMAIN tx.inputs : f[i] \in Nat
  BY FoundType
<1>3. FoundSum(tx, u, c) = SumFunctionOnSet(f, DOMAIN tx.inputs)
  BY <1>1 DEF FoundSum, SumFunction
<1> HIDE DEF f
<1> QED
  BY <1>1, <1>2, <1>3, SumNat

\* What one transaction of validate_block_transactions does.
LEMMA ValidateType ==
  ASSUME NEW acc \in ValidType, NEW tx \in TxType, NEW u \in UtxoType, NEW height \in Nat
  PROVE  LET r == ValidateTransaction(acc, tx, u, height)
             sum == FoundSum(tx, u, acc.created)
         IN  /\ r \in ValidType
             /\ r.ok => acc.ok
             /\ r.ok => r.created = Over(Entries(tx, height), acc.created)
             /\ tx.coinbase => r.spent = acc.spent /\ r.fees = acc.fees
             /\ r.ok /\ ~tx.coinbase =>
                  /\ TransactionValid(acc, tx, u, height)
                  /\ r.spent = acc.spent \cup Spends(tx)
                  /\ sum \in Nat /\ TotalOutput(tx) <= sum
                  /\ r.fees = acc.fees + (sum - TotalOutput(tx))
<1> DEFINE r == ValidateTransaction(acc, tx, u, height)
           sum == FoundSum(tx, u, acc.created)
           created == Over(Entries(tx, height), acc.created)
           valid == TransactionValid(acc, tx, u, height)
<1>1. /\ acc.ok \in BOOLEAN /\ acc.spent \subseteq OutPointType /\ acc.created \in UtxoType
      /\ acc.fees \in Nat
      /\ acc = [ok |-> acc.ok, spent |-> acc.spent, created |-> acc.created, fees |-> acc.fees]
  BY DEF ValidType
<1>2. created \in UtxoType
  <2> DEFINE new == Entries(tx, height)
  <2>1. new \in UtxoType
    BY EntriesType
  <2> HIDE DEF new
  <2> QED
    BY <1>1, <2>1, OverType DEF new
<1>3. TotalOutput(tx) \in Nat
  BY BurnNat
<1>4. Spends(tx) \subseteq OutPointType
  BY TxFields DEF Spends
<1>5. r = IF tx.coinbase THEN [acc EXCEPT !.created = created]
          ELSE IF ~acc.ok \/ ~valid THEN [acc EXCEPT !.ok = FALSE]
          ELSE [ok |-> TRUE, spent |-> acc.spent \cup Spends(tx), created |-> created,
                fees |-> acc.fees + (sum - TotalOutput(tx))]
  BY DEF ValidateTransaction
<1>6. valid => sum \in Nat /\ TotalOutput(tx) <= sum
  <2>1. SUFFICES ASSUME valid PROVE sum \in Nat /\ TotalOutput(tx) <= sum
    OBVIOUS
  <2>2. \A i \in DOMAIN tx.inputs : tx.inputs[i].op \in DOMAIN u \cup DOMAIN acc.created
    BY <2>1 DEF TransactionValid, InputValid
  <2>3. sum \in Nat
    BY <1>1, <2>2, FoundSumNat
  <2> QED
    BY <2>1, <2>3 DEF TransactionValid
<1> HIDE DEF r, sum, created, valid
<1>7. CASE tx.coinbase
  <2>1. r = [ok |-> acc.ok, spent |-> acc.spent, created |-> created, fees |-> acc.fees]
    BY <1>1, <1>5, <1>7
  <2>2. r \in ValidType /\ r.ok = acc.ok /\ r.spent = acc.spent /\ r.created = created
        /\ r.fees = acc.fees
    BY <1>1, <1>2, <2>1 DEF ValidType
  <2> QED
    BY <1>7, <2>2 DEF r, created
<1>8. CASE ~tx.coinbase /\ (~acc.ok \/ ~valid)
  <2>1. r = [ok |-> FALSE, spent |-> acc.spent, created |-> acc.created, fees |-> acc.fees]
    BY <1>1, <1>5, <1>8
  <2>2. r \in ValidType /\ ~r.ok
    BY <1>1, <2>1 DEF ValidType
  <2> QED
    BY <1>8, <2>2 DEF r
<1>9. CASE ~tx.coinbase /\ acc.ok /\ valid
  <2> DEFINE fees == acc.fees + (sum - TotalOutput(tx))
             sp == acc.spent \cup Spends(tx)
  <2>1. r = [ok |-> TRUE, spent |-> sp, created |-> created, fees |-> fees]
    BY <1>5, <1>9
  <2>2. fees \in Nat /\ sp \subseteq OutPointType
    BY <1>1, <1>3, <1>4, <1>6, <1>9
  <2> HIDE DEF fees, sp
  <2>3. r \in ValidType /\ r.ok /\ r.spent = sp /\ r.created = created /\ r.fees = fees
    BY <1>2, <2>1, <2>2 DEF ValidType
  <2> QED
    BY <1>6, <1>9, <2>3 DEF r, created, valid, sum, fees, sp
<1> QED
  BY <1>1, <1>7, <1>8, <1>9

\* The table of the fold of validate_block_transactions.
ValidTable(led, block, g) ==
  g = [p \in SUBSET DOMAIN block.txs |->
         IF p = {} THEN NothingValidated
         ELSE ValidateTransaction(g[p \ {Max(p)}], block.txs[Max(p)], led.utxo, block.score)]

\* Its answer is the entry of the whole block in that table.
LEMMA ValidIsChosen ==
  ASSUME NEW led, NEW block
  PROVE  ValidateEach(led, block) = (CHOOSE g : ValidTable(led, block, g))[DOMAIN block.txs]
BY DEF ValidateEach, FoldLeft, MapThenFoldSet, ValidTable

\* It starts from an answer.
LEMMA NothingValidType == NothingValidated \in ValidType
<1>1. <<>> \in [{} -> EntryType] /\ {} \subseteq OutPointType /\ IsFiniteSet({})
  BY FS_EmptySet
<1>2. <<>> \in UtxoType
  BY <1>1, UtxoIntro
<1> QED
  BY <1>2 DEF NothingValidated, ValidType

\* The table exists.
LEMMA ValidTableExists ==
  ASSUME NEW led \in LedgerType, NEW block, IsBlock(block)
  PROVE  \E g : ValidTable(led, block, g)
<1> DEFINE s == block.txs
           D == DOMAIN s
           P == [p \in SUBSET D |-> Max(p)]
           X == ValidType
           u == led.utxo
           F == [x \in X \X D |-> ValidateTransaction(x[1], s[x[2]], u, block.score)]
<1>1. D = 1..Len(s) /\ Len(s) \in Nat /\ IsFiniteSet(D) /\ block.score \in Nat
      /\ \A i \in D : s[i] \in TxType
  <2>1. s \in Seq(TxType) /\ block.score \in Nat
    BY DEF IsBlock
  <2> HIDE DEF s
  <2>2. D = 1..Len(s) /\ Len(s) \in Nat /\ \A i \in D : s[i] \in TxType
    BY <2>1
  <2> QED
    BY <2>1, <2>2, FS_Interval
<1>2. IsPicker(D, P)
  BY <1>1, MaxOfSet DEF IsPicker
<1>3. IsFoldStep(X, D, F)
  <2>1. u \in UtxoType
    BY DEF LedgerType
  <2> HIDE DEF X, D, s, u
  <2>2. \A x \in X \X D : ValidateTransaction(x[1], s[x[2]], u, block.score) \in X
    BY <1>1, <2>1, ValidateType DEF X
  <2> QED
    BY <2>2 DEF IsFoldStep
<1>4. NothingValidated \in X
  BY NothingValidType
<1>5. PICK g : IsFoldTable(X, NothingValidated, D, P, F, g)
  <2> HIDE DEF X, D, P, F
  <2> QED
    BY <1>1, <1>2, <1>3, <1>4, FoldTableExists
<1>6. \A p \in SUBSET D :
        g[p] = IF p = {} THEN NothingValidated
               ELSE ValidateTransaction(g[p \ {Max(p)}], s[Max(p)], u, block.score)
  <2>1. TAKE p \in SUBSET D
  <2>2. CASE p = {}
    BY <1>5, <2>2 DEF IsFoldTable
  <2>3. CASE p # {}
    <3>1. Max(p) \in D /\ P[p] = Max(p)
      BY <1>2, <2>3 DEF IsPicker
    <3>2. g[p \ {Max(p)}] \in X
      BY <1>5, <3>1 DEF IsFoldTable
    <3>3. g[p] = F[<<g[p \ {Max(p)}], Max(p)>>]
      <4> HIDE DEF F, P
      <4> QED
        BY <1>5, <2>3, <3>1 DEF IsFoldTable
    <3> HIDE DEF X, D, s, u
    <3> QED
      BY <2>3, <3>1, <3>2, <3>3
  <2> QED
    BY <2>2, <2>3
<1>7. ValidTable(led, block, g)
  BY <1>5, <1>6 DEF ValidTable, IsFoldTable
<1> QED
  BY <1>7

\* validate_block_transactions, transaction by transaction.
IsValidRun(led, block, v) ==
  /\ v[0] = NothingValidated
  /\ \A k \in 1..Len(block.txs) :
       v[k] = ValidateTransaction(v[k - 1], block.txs[k], led.utxo, block.score)
  /\ \A k \in 0..Len(block.txs) : v[k] \in ValidType

\* There is such a run, and it ends with the answer.
LEMMA ValidRunExists ==
  ASSUME NEW led \in LedgerType, NEW block, IsBlock(block)
  PROVE  \E v : IsValidRun(led, block, v) /\ ValidateEach(led, block) = v[Len(block.txs)]
<1> DEFINE s == block.txs
           n == Len(s)
           u == led.utxo
<1>1. n \in Nat /\ DOMAIN s = 1..n /\ block.score \in Nat /\ \A i \in 1..n : s[i] \in TxType
  BY DEF IsBlock
<1>2. PICK g : g = (CHOOSE t : ValidTable(led, block, t))
  OBVIOUS
<1>3. ValidTable(led, block, g)
  BY <1>2, ValidTableExists
<1>4. \A p \in SUBSET (1..n) :
        g[p] = IF p = {} THEN NothingValidated
               ELSE ValidateTransaction(g[p \ {Max(p)}], s[Max(p)], u, block.score)
  BY <1>1, <1>3 DEF ValidTable
<1>5. u \in UtxoType
  BY DEF LedgerType
<1> HIDE DEF s, n, u
<1>6. ASSUME NEW k \in 1..n
      PROVE  g[1..k] = ValidateTransaction(g[1..(k - 1)], s[k], u, block.score)
  <2>1. 1..k \in SUBSET (1..n) /\ 1..k # {} /\ k \in Nat /\ k > 0
    BY <1>1
  <2>2. Max(1..k) = k /\ (1..k) \ {k} = 1..(k - 1)
    BY <2>1, MaxOfPrefix
  <2>3. g[1..k] = ValidateTransaction(g[(1..k) \ {Max(1..k)}], s[Max(1..k)], u, block.score)
    BY <1>4, <2>1
  <2> QED
    BY <2>2, <2>3
<1>7. g[1..0] = NothingValidated
  <2>1. 1..0 = {} /\ 1..0 \in SUBSET (1..n)
    OBVIOUS
  <2> QED
    BY <1>4, <2>1
<1> DEFINE v == [k \in 0..n |-> g[1..k]]
<1>8. v[0] = NothingValidated /\ v[n] = g[1..n]
  BY <1>1, <1>7
<1>9. \A k \in 1..n : v[k] = ValidateTransaction(v[k - 1], s[k], u, block.score)
  <2>1. TAKE k \in 1..n
  <2>2. v[k] = g[1..k] /\ v[k - 1] = g[1..(k - 1)]
    BY <1>1
  <2> HIDE DEF v
  <2> QED
    BY <1>6, <2>2
<1> HIDE DEF v
<1> DEFINE T == {k \in Nat : k <= n => v[k] \in ValidType}
<1>10. 0 \in T
  BY <1>8, NothingValidType
<1>11. ASSUME NEW k \in Nat, k \in T PROVE k + 1 \in T
  <2>1. SUFFICES ASSUME k + 1 <= n PROVE v[k + 1] \in ValidType
    OBVIOUS
  <2>2. v[k] \in ValidType /\ k + 1 \in 1..n /\ (k + 1) - 1 = k
    BY <1>1, <1>11, <2>1
  <2>3. v[k + 1] = ValidateTransaction(v[k], s[k + 1], u, block.score)
    BY <1>9, <2>2
  <2> QED
    BY <1>1, <1>5, <2>2, <2>3, ValidateType
<1> HIDE DEF T
<1>12. Nat \subseteq T
  BY <1>10, <1>11, SetInduction
<1>13. \A k \in 0..n : v[k] \in ValidType
  BY <1>1, <1>12 DEF T
<1>14. ValidateEach(led, block) = v[n]
  BY <1>1, <1>2, <1>8, ValidIsChosen DEF s
<1> QED
  BY <1>8, <1>9, <1>13, <1>14 DEF IsValidRun, s, n, u

----------------------------------------------------------------------------
(* What is validated can be applied                                        *)

\* The outpoints that apply_transaction removes.
Consumed(tx) == IF tx.coinbase THEN {} ELSE Spends(tx)

\* What a transaction that is applied does to the set.
LEMMA AppliedEntries ==
  ASSUME NEW led \in LedgerType, NEW tx \in TxType, NEW height \in Nat,
         ApplyTransaction(led, tx, height).ok
  PROVE  LET r == ApplyTransaction(led, tx, height)
         IN  /\ r.led \in LedgerType
             /\ DOMAIN r.led.utxo = OutPoints(tx) \cup (DOMAIN led.utxo \ Consumed(tx))
             /\ Consumed(tx) \subseteq DOMAIN led.utxo
             /\ \A op \in OutPoints(tx) : r.led.utxo[op] = Entries(tx, height)[op]
             /\ \A op \in (DOMAIN led.utxo \ Consumed(tx)) \ OutPoints(tx) :
                  r.led.utxo[op] = led.utxo[op]
             /\ r.led.burned = led.burned + TotalBurn(tx)
             /\ ~tx.coinbase => \A i, j \in DOMAIN tx.inputs :
                                  tx.inputs[i].op = tx.inputs[j].op => i = j
<1> DEFINE r == ApplyTransaction(led, tx, height)
           u == led.utxo
           t == Taken(u, tx)
           ops == TakenOps(tx, t)
           rest == Without(u, ops)
           new == Entries(tx, height)
<1>1. /\ r \in ApplyResult /\ (tx.coinbase \/ Len(t) = Len(tx.inputs))
      /\ r.led = [utxo |-> Over(new, rest), burned |-> led.burned + TotalBurn(tx)]
  BY ApplyType
<1>2. r.led \in LedgerType /\ u \in UtxoType
  BY <1>1 DEF ApplyResult, LedgerType
<1>3. /\ DOMAIN t = 1..Len(t) /\ (tx.coinbase => t = <<>>)
      /\ \A i \in DOMAIN t : ~MissingAt(u, tx, i)
      /\ DOMAIN tx.inputs = 1..Len(tx.inputs) /\ Len(tx.inputs) \in Nat
  BY <1>2, TakenType, TxFields
<1> HIDE DEF t
<1>4. ops = Consumed(tx)
  <2>1. CASE tx.coinbase
    <3>1. DOMAIN t = {}
      BY <1>3, <2>1
    <3> QED
      BY <2>1, <3>1 DEF TakenOps, Consumed
  <2>2. CASE ~tx.coinbase
    <3>1. DOMAIN t = DOMAIN tx.inputs
      BY <1>1, <1>3, <2>2
    <3> QED
      BY <2>2, <3>1 DEF TakenOps, Consumed, Spends
  <2> QED
    BY <2>1, <2>2
<1>5. ops \subseteq DOMAIN u
  BY <1>3 DEF TakenOps, MissingAt
<1>6. ~tx.coinbase => \A i, j \in DOMAIN tx.inputs :
                                  tx.inputs[i].op = tx.inputs[j].op => i = j
  <2>1. SUFFICES ASSUME ~tx.coinbase, NEW i \in DOMAIN tx.inputs, NEW j \in DOMAIN tx.inputs,
                        tx.inputs[i].op = tx.inputs[j].op
                 PROVE  i = j
    OBVIOUS
  <2>2. ~MissingAt(u, tx, i) /\ ~MissingAt(u, tx, j)
    BY <1>1, <1>3, <2>1
  <2>3. ~(i < j) /\ ~(j < i) /\ i \in Int /\ j \in Int
    BY <1>3, <2>1, <2>2 DEF MissingAt
  <2> QED
    BY <2>3
<1> HIDE DEF u, ops
<1>7. rest \in UtxoType /\ DOMAIN rest = DOMAIN u \ ops /\ \A op \in DOMAIN u \ ops : rest[op] = u[op]
  BY <1>2, WithoutType
<1>8. new \in UtxoType /\ DOMAIN new = OutPoints(tx)
  BY EntriesType
<1> DEFINE o == Over(new, rest)
<1> HIDE DEF rest, new
<1>9. /\ DOMAIN o = DOMAIN new \cup DOMAIN rest
      /\ \A op \in DOMAIN new : o[op] = new[op]
      /\ \A op \in DOMAIN rest \ DOMAIN new : o[op] = rest[op]
  BY <1>7, <1>8, OverType
<1>10. r.led.utxo = o /\ r.led.burned = led.burned + TotalBurn(tx)
  BY <1>1
<1> HIDE DEF o, r
<1>11. /\ DOMAIN o = OutPoints(tx) \cup (DOMAIN u \ Consumed(tx))
       /\ Consumed(tx) \subseteq DOMAIN u
       /\ \A op \in OutPoints(tx) : o[op] = new[op]
       /\ \A op \in (DOMAIN u \ Consumed(tx)) \ OutPoints(tx) : o[op] = u[op]
  BY <1>4, <1>5, <1>7, <1>8, <1>9
<1> QED
  BY <1>2, <1>6, <1>10, <1>11 DEF u, new, r

\* A transaction whose inputs are all there, none twice, can be applied.
LEMMA AllThereApplies ==
  ASSUME NEW led \in LedgerType, NEW tx \in TxType, NEW height \in Nat,
         tx.coinbase \/ \A i \in DOMAIN tx.inputs : ~MissingAt(led.utxo, tx, i)
  PROVE  ApplyTransaction(led, tx, height).ok
<1> DEFINE u == led.utxo
           t == Taken(u, tx)
           m == FirstMissing(u, tx)
<1>1. u \in UtxoType
  BY DEF LedgerType
<1>2. CASE tx.coinbase
  BY <1>2, ApplyType
<1>3. CASE ~tx.coinbase
  <2>1. Len(t) = m - 1 /\ DOMAIN tx.inputs = 1..Len(tx.inputs) /\ Len(tx.inputs) \in Nat
    BY <1>1, <1>3, TakenType, TxFields
  <2>2. m \in 1..(Len(tx.inputs) + 1) /\ (m <= Len(tx.inputs) => MissingAt(u, tx, m))
    BY FirstMissingFound
  <2> HIDE DEF m, t
  <2>3. ~(m <= Len(tx.inputs))
    BY <1>3, <2>1, <2>2
  <2>4. Len(t) = Len(tx.inputs)
    BY <2>1, <2>2, <2>3
  <2>5. Len(Taken(led.utxo, tx)) = Len(tx.inputs)
    BY <2>4 DEF t
  <2> QED
    BY <2>5, ApplyType
<1> QED
  BY <1>2, <1>3

\* The steps of a validation that succeeds.
LEMMA ValidSteps ==
  ASSUME NEW led \in LedgerType, NEW block, IsBlock(block), NEW v, IsValidRun(led, block, v),
         v[Len(block.txs)].ok
  PROVE  \A k \in 1..Len(block.txs) :
           LET tx == block.txs[k]
               old == v[k - 1]
               new == v[k]
               sum == FoundSum(tx, led.utxo, old.created)
           IN  /\ old \in ValidType /\ new \in ValidType /\ old.created \in UtxoType
               /\ tx \in TxType
               /\ new.created = Over(Entries(tx, block.score), old.created)
               /\ tx.coinbase => new.spent = old.spent /\ new.fees = old.fees
               /\ ~tx.coinbase =>
                    /\ TransactionValid(old, tx, led.utxo, block.score)
                    /\ new.spent = old.spent \cup Spends(tx)
                    /\ sum \in Nat /\ TotalOutput(tx) <= sum
                    /\ new.fees = old.fees + (sum - TotalOutput(tx))
<1> DEFINE n == Len(block.txs)
           u == led.utxo
           T == {j \in Nat : j <= n => v[n - j].ok}
<1>1. n \in Nat /\ block.score \in Nat /\ u \in UtxoType /\ \A k \in 1..n : block.txs[k] \in TxType
  BY DEF IsBlock, LedgerType
<1>2. ASSUME NEW k \in 1..n
      PROVE  /\ v[k - 1] \in ValidType /\ v[k] \in ValidType
             /\ v[k] = ValidateTransaction(v[k - 1], block.txs[k], u, block.score)
  <2>1. k \in 0..n /\ k - 1 \in 0..n
    BY <1>1
  <2> QED
    BY <2>1 DEF IsValidRun
<1>3. ASSUME NEW k \in 1..n, v[k].ok
      PROVE  LET tx == block.txs[k]
                 old == v[k - 1]
                 new == v[k]
                 sum == FoundSum(tx, u, old.created)
             IN  /\ old.ok
                 /\ new.created = Over(Entries(tx, block.score), old.created)
                 /\ tx.coinbase => new.spent = old.spent /\ new.fees = old.fees
                 /\ ~tx.coinbase =>
                      /\ TransactionValid(old, tx, u, block.score)
                      /\ new.spent = old.spent \cup Spends(tx)
                      /\ sum \in Nat /\ TotalOutput(tx) <= sum
                      /\ new.fees = old.fees + (sum - TotalOutput(tx))
  <2> DEFINE tx == block.txs[k]
             old == v[k - 1]
             new == v[k]
  <2>1. tx \in TxType /\ old \in ValidType /\ new.ok
        /\ new = ValidateTransaction(old, tx, u, block.score)
    BY <1>1, <1>2, <1>3
  <2> HIDE DEF u, tx, old, new
  <2> DEFINE sum == FoundSum(tx, u, old.created)
  <2>2. /\ old.ok
        /\ new.created = Over(Entries(tx, block.score), old.created)
        /\ tx.coinbase => new.spent = old.spent /\ new.fees = old.fees
        /\ ~tx.coinbase =>
             /\ TransactionValid(old, tx, u, block.score)
             /\ new.spent = old.spent \cup Spends(tx)
             /\ sum \in Nat /\ TotalOutput(tx) <= sum
             /\ new.fees = old.fees + (sum - TotalOutput(tx))
    BY <1>1, <2>1, ValidateType, SMTT(30)
  <2> QED
    BY <2>2 DEF tx, old, new
<1>4. 0 \in T
  BY <1>1
<1>5. ASSUME NEW j \in Nat, j \in T PROVE j + 1 \in T
  <2>1. SUFFICES ASSUME j + 1 <= n PROVE v[n - (j + 1)].ok
    OBVIOUS
  <2>2. n - j \in 1..n /\ (n - j) - 1 = n - (j + 1) /\ v[n - j].ok
    BY <1>1, <1>5, <2>1
  <2>3. v[(n - j) - 1].ok
    BY <1>3, <2>2
  <2> QED
    BY <2>2, <2>3
<1> HIDE DEF T
<1>6. Nat \subseteq T
  BY <1>4, <1>5, SetInduction
<1>7. ASSUME NEW k \in 1..n PROVE v[k].ok
  <2>1. n - k \in Nat /\ n - k <= n /\ n - (n - k) = k
    BY <1>1
  <2>2. n - k \in T
    BY <1>6, <2>1
  <2> QED
    BY <2>1, <2>2 DEF T
<1>8. ASSUME NEW k \in 1..n PROVE v[k - 1].created \in UtxoType
  BY <1>2 DEF ValidType
<1> QED
  BY <1>1, <1>2, <1>3, <1>7, <1>8

\* apply_block never fails on a block that validate_block_transactions has
\* accepted on the same ledger: every input it looks for is still there when
\* its turn comes.
THEOREM ValidatedBlockApplies ==
  ASSUME NEW led \in LedgerType, NEW block, IsBlock(block), ValidateTransactions(led, block)
  PROVE  ApplyBlock(led, block).ok
<1> DEFINE n == Len(block.txs)
           u == led.utxo
           h == block.score
<1>1. PICK a : IsBlockRun(led, block, a) /\ ApplyBlock(led, block) = a[n]
  BY BlockRunExists
<1>2. PICK v : IsValidRun(led, block, v) /\ ValidateEach(led, block) = v[n]
  BY ValidRunExists
<1>3. /\ n \in Nat /\ h \in Nat /\ a[0].led = led
      /\ \A k \in 0..n : a[k].led \in LedgerType
  BY <1>1, RunTypes
<1>4. v[n].ok
  BY <1>2 DEF ValidateTransactions
<1> DEFINE I(k) == /\ a[k].ok
                   /\ \A op \in DOMAIN u \cup DOMAIN v[k].created :
                        op \notin v[k].spent => op \in DOMAIN a[k].led.utxo
           T == {k \in Nat : k <= n => I(k)}
<1>5. 0 \in T
  <2>1. a[0].ok /\ a[0].led.utxo = u
    BY <1>1, <1>3 DEF IsBlockRun, NothingApplied
  <2>2. v[0].created = <<>>
    BY <1>2 DEF IsValidRun, NothingValidated
  <2>3. DOMAIN v[0].created = {}
    BY <2>2
  <2> QED
    BY <2>1, <2>3
<1>6. ASSUME NEW k \in 1..n, I(k - 1) PROVE I(k)
  <2> DEFINE tx == block.txs[k]
             l == a[k - 1].led
             old == v[k - 1]
             new == v[k]
             r == ApplyTransaction(l, tx, h)
  <2>1. /\ tx \in TxType /\ old.created \in UtxoType
        /\ new.created = Over(Entries(tx, h), old.created)
        /\ tx.coinbase => new.spent = old.spent
        /\ ~tx.coinbase => TransactionValid(old, tx, u, h) /\ new.spent = old.spent \cup Spends(tx)
    BY <1>2, <1>4, ValidSteps
  <2>2. l \in LedgerType
    BY <1>3
  <2>3. \A op \in DOMAIN u \cup DOMAIN old.created :
          op \notin old.spent => op \in DOMAIN l.utxo
    BY <1>6
  <2>4. a[k] = AfterTransaction(a[k - 1], r)
    BY <1>1, <1>6 DEF IsBlockRun, ApplyNext
  <2> HIDE DEF u, h, tx, l, old, new
  <2>5. tx.coinbase \/ \A i \in DOMAIN tx.inputs : ~MissingAt(l.utxo, tx, i)
    BY <2>1, <2>3 DEF TransactionValid, InputValid, MissingAt
  <2>6. r.ok
    BY <1>3, <2>1, <2>2, <2>5, AllThereApplies
  <2>7. DOMAIN r.led.utxo = OutPoints(tx) \cup (DOMAIN l.utxo \ Consumed(tx))
    BY <1>3, <2>1, <2>2, <2>6, AppliedEntries
  <2>8. DOMAIN new.created = OutPoints(tx) \cup DOMAIN old.created
    <3> DEFINE e == Entries(tx, h)
               c == old.created
    <3>1. e \in UtxoType /\ DOMAIN e = OutPoints(tx)
      BY <1>3, <2>1, EntriesType
    <3>2. c \in UtxoType /\ new.created = Over(e, c)
      BY <2>1
    <3> HIDE DEF e, c
    <3>3. DOMAIN Over(e, c) = DOMAIN e \cup DOMAIN c
      BY <3>1, <3>2, OverType
    <3> QED
      BY <3>1, <3>2, <3>3 DEF c
  <2>9. new.spent = old.spent \cup Consumed(tx)
    BY <2>1 DEF Consumed
  <2> HIDE DEF r
  <2>10. a[k].ok /\ a[k].led = r.led
    BY <2>4, <2>6 DEF AfterTransaction
  <2>11. \A op \in DOMAIN u \cup DOMAIN new.created :
           op \notin new.spent => op \in DOMAIN r.led.utxo
    BY <2>3, <2>7, <2>8, <2>9
  <2> QED
    BY <2>10, <2>11 DEF new, u
<1>7. ASSUME NEW k \in Nat, k \in T PROVE k + 1 \in T
  <2>1. SUFFICES ASSUME k + 1 <= n PROVE I(k + 1)
    OBVIOUS
  <2>2. k + 1 \in 1..n /\ (k + 1) - 1 = k /\ I(k)
    BY <1>3, <1>7, <2>1
  <2> HIDE DEF I
  <2> QED
    BY <1>6, <2>2
<1> HIDE DEF T
<1>8. Nat \subseteq T
  BY <1>5, <1>7, SetInduction
<1> QED
  BY <1>1, <1>3, <1>8 DEF T

----------------------------------------------------------------------------
(* No coins from nothing                                                   *)

Amounts(u) == [op \in DOMAIN u |-> u[op].amount]

\* The amount that a UTXO set holds.
Holdings(u) == SumFunctionOnSet(Amounts(u), DOMAIN u)

\* Holdings and burns of a ledger.
ValueOf(led) == Holdings(led.utxo) + led.burned

\* It is a natural.
LEMMA HoldingsNat ==
  ASSUME NEW u \in UtxoType
  PROVE  /\ Holdings(u) \in Nat
         /\ \A op \in DOMAIN u : Amounts(u)[op] = u[op].amount /\ Amounts(u)[op] \in Nat
<1>1. \A op \in DOMAIN u : Amounts(u)[op] = u[op].amount /\ Amounts(u)[op] \in Nat
  BY UtxoElim DEF Amounts, EntryType
<1>2. IsFiniteSet(DOMAIN u)
  BY UtxoElim
<1>3. SumFunctionOnSet(Amounts(u), DOMAIN u) \in Nat
  BY <1>1, <1>2, SumNat
<1> QED
  BY <1>1, <1>3 DEF Holdings

\* What a transaction pays out it burns or leaves in its entries.
LEMMA OutputSplit ==
  ASSUME NEW tx \in TxType, NEW height \in Nat
  PROVE  TotalOutput(tx) = TotalBurn(tx) + Holdings(Entries(tx, height))
<1> DEFINE D == DOMAIN tx.outputs
           S == StandardOutputs(tx)
           R == D \ S
           f == [i \in D |-> tx.outputs[i].amount]
           g == [i \in D |-> IF tx.outputs[i].burn THEN tx.outputs[i].amount ELSE 0]
           b == [i \in S |-> <<tx.id, i>>]
           e == Entries(tx, height)
           q == Amounts(e)
<1>1. IsFiniteSet(D) /\ S \subseteq D /\ IsFiniteSet(S) /\ IsFiniteSet(R) /\ R \subseteq D
  <2>1. IsFiniteSet(D)
    BY TxFields, FS_Interval
  <2> QED
    BY <2>1, EntriesType, FS_Subset
<1>2. \A i \in D : f[i] \in Nat /\ g[i] \in Nat
  BY TxFields
<1>3. \A i \in S : g[i] = 0
  BY DEF StandardOutputs
<1>4. \A i \in R : g[i] = f[i]
  BY DEF StandardOutputs
<1>5. DOMAIN f = D /\ DOMAIN g = D
  OBVIOUS
<1>6. TotalOutput(tx) = SumFunctionOnSet(f, D) /\ TotalBurn(tx) = SumFunctionOnSet(g, D)
  BY <1>5 DEF TotalOutput, TotalBurn, SumFunction
<1>7. OutPoints(tx) = {b[i] : i \in S} /\ \A x, y \in S : b[x] = b[y] => x = y
  BY DEF OutPoints
<1>8. e \in UtxoType /\ DOMAIN e = OutPoints(tx)
      /\ \A i \in S : e[<<tx.id, i>>].amount = tx.outputs[i].amount
  BY EntriesType
<1>9. \A i \in S : b[i] \in DOMAIN e /\ q[b[i]] = f[i]
  <2>1. TAKE i \in S
  <2>2. b[i] = <<tx.id, i>> /\ b[i] \in DOMAIN e /\ f[i] = tx.outputs[i].amount
    BY <1>1, <1>7, <1>8
  <2>3. q[b[i]] = e[b[i]].amount
    BY <2>2 DEF Amounts
  <2> QED
    BY <1>8, <2>2, <2>3
<1>10. Holdings(e) = SumFunctionOnSet(q, {b[i] : i \in S})
  BY <1>7, <1>8 DEF Holdings
<1> HIDE DEF D, S, R, f, g, b, e, q
<1>11. SumFunctionOnSet(q, {b[i] : i \in S}) = SumFunctionOnSet(f, S)
  BY <1>1, <1>2, <1>7, <1>9, SumImage
<1>12. SumFunctionOnSet(f, D) = SumFunctionOnSet(f, S) + SumFunctionOnSet(f, R)
  BY <1>1, <1>2, SumSplit DEF R
<1>13. SumFunctionOnSet(g, D) = SumFunctionOnSet(g, S) + SumFunctionOnSet(g, R)
  BY <1>1, <1>2, SumSplit DEF R
<1>14. SumFunctionOnSet(g, S) = 0
  BY <1>1, <1>3, SumZero
<1>15. SumFunctionOnSet(g, R) = SumFunctionOnSet(f, R)
  BY <1>1, <1>2, <1>4, SumSame
<1>16. SumFunctionOnSet(f, S) \in Nat
  BY <1>1, <1>2, SumNat
<1>17. SumFunctionOnSet(f, R) \in Nat
  BY <1>1, <1>2, SumNat
<1> QED
  BY <1>6, <1>10, <1>11, <1>12, <1>13, <1>14, <1>15, <1>16, <1>17 DEF e

\* What a transaction takes out of the set.
TakenAmount(led, tx) == IF tx.coinbase THEN 0 ELSE InputSum(led, tx)

\* The inputs of a transaction that is applied are what the set loses.
LEMMA InputsLeave ==
  ASSUME NEW led \in LedgerType, NEW tx \in TxType, NEW height \in Nat,
         ApplyTransaction(led, tx, height).ok
  PROVE  /\ TakenAmount(led, tx) \in Nat
         /\ SumFunctionOnSet(Amounts(led.utxo), Consumed(tx)) = TakenAmount(led, tx)
<1> DEFINE u == led.utxo
           D == DOMAIN tx.inputs
           q == Amounts(u)
           f == [i \in D |-> u[tx.inputs[i].op].amount]
           b == [i \in D |-> tx.inputs[i].op]
<1>1. u \in UtxoType
  BY DEF LedgerType
<1>2. CASE tx.coinbase
  BY <1>2, SumEmpty DEF TakenAmount, Consumed
<1>3. CASE ~tx.coinbase
  <2>1. /\ Consumed(tx) = {b[i] : i \in D} /\ Consumed(tx) \subseteq DOMAIN u
        /\ \A i, j \in D : b[i] = b[j] => i = j
    <3>1. /\ Consumed(tx) \subseteq DOMAIN u
          /\ \A i, j \in D : tx.inputs[i].op = tx.inputs[j].op => i = j
      BY <1>3, AppliedEntries
    <3>2. Consumed(tx) = {b[i] : i \in D}
      BY <1>3 DEF Consumed, Spends
    <3> QED
      BY <3>1, <3>2
  <2>2. \A i \in D : b[i] \in DOMAIN u /\ q[b[i]] = f[i]
    <3>1. TAKE i \in D
    <3>2. b[i] \in DOMAIN u
      BY <2>1
    <3> QED
      BY <3>2 DEF Amounts
  <2>3. \A op \in DOMAIN u : q[op] \in Nat
    BY <1>1, HoldingsNat
  <2>4. IsFiniteSet(D)
    BY TxFields, FS_Interval
  <2>5. DOMAIN f = D
    OBVIOUS
  <2>6. InputSum(led, tx) = SumFunctionOnSet(f, D)
    BY <2>5 DEF InputSum, SumFunction
  <2> HIDE DEF D, q, f, b, u
  <2>7. \A i \in D : f[i] \in Nat /\ q[b[i]] = f[i]
    BY <2>2, <2>3
  <2>8. SumFunctionOnSet(q, {b[i] : i \in D}) = SumFunctionOnSet(f, D)
    BY <2>1, <2>4, <2>7, SumImage
  <2>9. SumFunctionOnSet(f, D) \in Nat
    BY <2>4, <2>7, SumNat
  <2> QED
    BY <1>3, <2>1, <2>6, <2>8, <2>9 DEF TakenAmount, q, u
<1> QED
  BY <1>2, <1>3

\* A transaction that is applied moves value and makes none: what the ledger
\* holds and has burned grows by the outputs and shrinks by the inputs.
LEMMA AppliedValue ==
  ASSUME NEW led \in LedgerType, NEW tx \in TxType, NEW height \in Nat,
         ApplyTransaction(led, tx, height).ok, Fresh(tx, led.utxo)
  PROVE  LET r == ApplyTransaction(led, tx, height)
         IN  /\ ValueOf(r.led) \in Nat /\ ValueOf(led) \in Nat /\ TakenAmount(led, tx) \in Nat
             /\ ValueOf(r.led) + TakenAmount(led, tx) = ValueOf(led) + TotalOutput(tx)
<1> DEFINE r == ApplyTransaction(led, tx, height)
           u == led.utxo
           w == r.led.utxo
           U == DOMAIN u
           C == Consumed(tx)
           K == U \ C
           O == OutPoints(tx)
           W == DOMAIN w
           e == Entries(tx, height)
           qu == Amounts(u)
           qw == Amounts(w)
           qe == Amounts(e)
<1>1. /\ r.led \in LedgerType /\ W = O \cup K /\ C \subseteq U
      /\ \A op \in O : w[op] = e[op]
      /\ \A op \in K \ O : w[op] = u[op]
      /\ r.led.burned = led.burned + TotalBurn(tx)
  BY AppliedEntries
<1>2. u \in UtxoType /\ w \in UtxoType /\ led.burned \in Nat /\ r.led.burned \in Nat
  BY <1>1 DEF LedgerType
<1>3. e \in UtxoType /\ DOMAIN e = O
  BY EntriesType
<1>4. O \cap U = {}
  BY DEF Fresh
<1>5. /\ SumFunctionOnSet(qu, C) = TakenAmount(led, tx) /\ TakenAmount(led, tx) \in Nat
  BY InputsLeave
<1>6. TotalOutput(tx) = TotalBurn(tx) + Holdings(e) /\ TotalBurn(tx) \in Nat /\ Holdings(e) \in Nat
  BY <1>3, OutputSplit, BurnNat, HoldingsNat
<1>7. Holdings(u) \in Nat /\ Holdings(w) \in Nat
  <2> HIDE DEF u, w
  <2> QED
    BY <1>2, HoldingsNat
<1>8. /\ Holdings(u) = SumFunctionOnSet(qu, U) /\ Holdings(w) = SumFunctionOnSet(qw, W)
      /\ Holdings(e) = SumFunctionOnSet(qe, O)
  BY <1>3 DEF Holdings
<1>9. /\ \A op \in U : qu[op] \in Nat /\ qu[op] = u[op].amount
      /\ \A op \in W : qw[op] \in Nat /\ qw[op] = w[op].amount
      /\ \A op \in O : qe[op] \in Nat /\ qe[op] = e[op].amount
  <2> HIDE DEF u, w, e, O
  <2> QED
    BY <1>2, <1>3, HoldingsNat
<1>10. IsFiniteSet(U) /\ IsFiniteSet(W)
  <2> HIDE DEF u, w
  <2> QED
    BY <1>2, UtxoElim
<1>11. ValueOf(led) = Holdings(u) + led.burned /\ ValueOf(r.led) = Holdings(w) + r.led.burned
  BY DEF ValueOf
<1> DEFINE vb == led.burned
           wb == r.led.burned
           A == ValueOf(led)
           B == ValueOf(r.led)
           t == TakenAmount(led, tx)
<1> HIDE DEF r, u, w, U, C, O, W, e, qu, qw, qe
<1>12. IsFiniteSet(K) /\ K \subseteq U /\ K \subseteq W /\ W \ O = K /\ O \subseteq W
  BY <1>1, <1>4, <1>10, FS_Subset
<1>13. \A op \in K : w[op] = u[op]
  BY <1>1, <1>4
<1>14. SumFunctionOnSet(qw, W) = SumFunctionOnSet(qw, O) + SumFunctionOnSet(qw, W \ O)
  BY <1>9, <1>10, <1>12, SumSplit
<1>15. SumFunctionOnSet(qu, U) = SumFunctionOnSet(qu, C) + SumFunctionOnSet(qu, U \ C)
  BY <1>1, <1>9, <1>10, SumSplit
<1>16. SumFunctionOnSet(qw, O) = SumFunctionOnSet(qe, O)
  <2>1. IsFiniteSet(O)
    BY <1>10, <1>12, FS_Subset
  <2>2. \A op \in O : qe[op] \in Nat /\ qw[op] = qe[op]
    BY <1>1, <1>9, <1>12
  <2> QED
    BY <2>1, <2>2, SumSame
<1>17. SumFunctionOnSet(qw, K) = SumFunctionOnSet(qu, K) /\ SumFunctionOnSet(qu, K) \in Nat
  <2>1. \A op \in K : qu[op] \in Nat /\ qw[op] = qu[op]
    BY <1>9, <1>12, <1>13
  <2> HIDE DEF K
  <2>2. SumFunctionOnSet(qw, K) = SumFunctionOnSet(qu, K)
    BY <1>12, <2>1, SumSame
  <2>3. SumFunctionOnSet(qu, K) \in Nat
    BY <1>12, <2>1, SumNat
  <2> QED
    BY <2>2, <2>3
<1>18. Holdings(w) = Holdings(e) + SumFunctionOnSet(qu, K)
  BY <1>8, <1>12, <1>14, <1>16, <1>17, Zenon
<1>19. Holdings(u) = t + SumFunctionOnSet(qu, K)
  BY <1>5, <1>8, <1>15, Zenon
<1>20. A \in Nat /\ B \in Nat /\ B + t = A + TotalOutput(tx)
  <2> HIDE DEF K
  <2> DEFINE x == SumFunctionOnSet(qu, K)
  <2>1. x \in Nat /\ t \in Nat /\ vb \in Nat /\ wb = vb + TotalBurn(tx)
    BY <1>1, <1>2, <1>5, <1>17
  <2>2. A = Holdings(u) + vb /\ B = Holdings(w) + wb
    BY <1>11
  <2> HIDE DEF x, A, B, t, vb, wb
  <2> QED
    BY <1>6, <1>7, <1>18, <1>19, <2>1, <2>2 DEF x
<1> QED
  BY <1>5, <1>20 DEF r

\* A validated block mints at most its subsidy: what the ledger holds and has
\* burned grows by no more than block_reward at the block's score.  The fees
\* that the coinbase collects come out of the inputs, whether these are old
\* outputs or outputs of the same block.
THEOREM BlockMintsSubsidy ==
  ASSUME NEW led \in LedgerType, NEW block, IsBlock(block), FreshBlock(block, led.utxo),
         ValidateTransactions(led, block)
  PROVE  /\ BlockReward(Schedule, block.score) \in Nat /\ ValueOf(led) \in Nat
         /\ ValueOf(ApplyBlock(led, block).led)
              <= ValueOf(led) + BlockReward(Schedule, block.score)
<1> DEFINE n == Len(block.txs)
           u == led.utxo
           h == block.score
           cb == TotalOutput(block.txs[1])
<1>1. PICK a : IsBlockRun(led, block, a) /\ ApplyBlock(led, block) = a[n]
  BY BlockRunExists
<1>2. PICK v : IsValidRun(led, block, v) /\ ValidateEach(led, block) = v[n]
  BY ValidRunExists
<1>3. /\ n \in Nat /\ h \in Nat /\ a[0].led = led /\ DOMAIN block.txs = 1..n
      /\ \A k \in 0..n : a[k].led \in LedgerType
      /\ u \in UtxoType
  BY <1>1, RunTypes DEF LedgerType
<1>4. v[n].ok /\ a[n].ok
  BY <1>1, <1>2, ValidatedBlockApplies DEF ValidateTransactions
<1>5. \A k \in 1..n : block.txs[k].coinbase <=> k = 1
  BY <1>3 DEF ValidateTransactions
<1>6. ValueOf(led) \in Nat
  BY <1>3, HoldingsNat DEF ValueOf, LedgerType
<1> DEFINE J(k) == \A op \in DOMAIN a[k].led.utxo :
                     /\ op \in DOMAIN u \cup DOMAIN v[k].created
                     /\ a[k].led.utxo[op] = FoundEntry(op, u, v[k].created)
           V(k) == /\ ValueOf(a[k].led) \in Nat /\ v[k].fees \in Nat
                   /\ ValueOf(a[k].led) + v[k].fees = ValueOf(led) + IF k = 0 THEN 0 ELSE cb
           I(k) == J(k) /\ V(k)
           T == {k \in Nat : k <= n => I(k)}
<1>7. 0 \in T
  <2>1. v[0].fees = 0
    BY <1>2 DEF IsValidRun, NothingValidated
  <2>2. V(0)
    BY <1>3, <1>6, <2>1
  <2>3. J(0)
    BY <1>3 DEF FoundEntry
  <2> QED
    BY <2>2, <2>3
<1>8. ASSUME NEW k \in 1..n, I(k - 1) PROVE I(k)
  <2> DEFINE tx == block.txs[k]
             l == a[k - 1].led
             old == v[k - 1]
             new == v[k]
             c == old.created
             r == ApplyTransaction(l, tx, h)
             sum == FoundSum(tx, u, c)
  <2>1. /\ tx \in TxType /\ c \in UtxoType
        /\ new.created = Over(Entries(tx, h), c)
        /\ tx.coinbase => new.fees = old.fees
        /\ ~tx.coinbase => /\ sum \in Nat /\ TotalOutput(tx) <= sum
                           /\ new.fees = old.fees + (sum - TotalOutput(tx))
    BY <1>2, <1>4, ValidSteps
  <2>2. l \in LedgerType
    BY <1>3
  <2>3. r.ok /\ a[k].led = r.led
    <3>1. \A m \in 1..Len(block.txs) :
            /\ ApplyTransaction(a[m - 1].led, block.txs[m], block.score).ok
            /\ a[m].led = ApplyTransaction(a[m - 1].led, block.txs[m], block.score).led
      BY <1>1, <1>4, RunSteps, ZenonT(30)
    <3> QED
      BY <3>1
  <2>4. Fresh(tx, l.utxo)
    BY <1>1, <1>4, FreshInTurn
  <2>5. OutPoints(tx) \cap DOMAIN u = {}
    BY <1>3 DEF FreshBlock, Fresh
  <2>6. /\ \A op \in DOMAIN l.utxo : /\ op \in DOMAIN u \cup DOMAIN c
                                     /\ l.utxo[op] = FoundEntry(op, u, c)
    BY <1>8
  <2>7. /\ ValueOf(l) \in Nat /\ old.fees \in Nat
        /\ ValueOf(l) + old.fees = ValueOf(led) + IF k - 1 = 0 THEN 0 ELSE cb
    BY <1>8
  <2>8. tx.coinbase <=> k = 1
    BY <1>5
  <2>9. k = 1 => TotalOutput(tx) = cb
    OBVIOUS
  <2>10. J(k)
    <3> DEFINE e == Entries(tx, h)
    <3>1. e \in UtxoType /\ DOMAIN e = OutPoints(tx)
      BY <1>3, <2>1, EntriesType
    <3>2. /\ DOMAIN r.led.utxo = OutPoints(tx) \cup (DOMAIN l.utxo \ Consumed(tx))
          /\ \A op \in OutPoints(tx) : r.led.utxo[op] = e[op]
          /\ \A op \in (DOMAIN l.utxo \ Consumed(tx)) \ OutPoints(tx) : r.led.utxo[op] = l.utxo[op]
      <4> HIDE DEF l, tx, h
      <4> QED
        BY <1>3, <2>1, <2>2, <2>3, AppliedEntries
    <3> HIDE DEF e, c
    <3>3. new.created = Over(e, c)
      BY <2>1 DEF e
    <3>4. /\ DOMAIN new.created = DOMAIN e \cup DOMAIN c
          /\ \A op \in DOMAIN e : new.created[op] = e[op]
          /\ \A op \in DOMAIN c \ DOMAIN e : new.created[op] = c[op]
      <4>1. /\ DOMAIN Over(e, c) = DOMAIN e \cup DOMAIN c
            /\ \A op \in DOMAIN e : Over(e, c)[op] = e[op]
            /\ \A op \in DOMAIN c \ DOMAIN e : Over(e, c)[op] = c[op]
        BY <2>1, <3>1, OverType
      <4> QED
        BY <3>3, <4>1
    <3> HIDE DEF tx, l, new, r, u
    <3>5. ASSUME NEW op \in DOMAIN r.led.utxo
          PROVE  /\ op \in DOMAIN u \cup DOMAIN new.created
                 /\ r.led.utxo[op] = FoundEntry(op, u, new.created)
      <4>1. CASE op \in OutPoints(tx)
        BY <2>5, <3>1, <3>2, <3>4, <4>1 DEF FoundEntry
      <4>2. CASE op \notin OutPoints(tx)
        <5>1. op \in DOMAIN l.utxo /\ r.led.utxo[op] = l.utxo[op] /\ op \notin DOMAIN e
          BY <3>1, <3>2, <3>5, <4>2
        <5>2. op \in DOMAIN u \cup DOMAIN c /\ l.utxo[op] = FoundEntry(op, u, c)
          BY <2>6, <5>1
        <5> QED
          BY <3>4, <5>1, <5>2 DEF FoundEntry
      <4> QED
        BY <4>1, <4>2
    <3> QED
      BY <2>3, <3>5 DEF new, u
  <2>11. ~tx.coinbase => sum = InputSum(l, tx)
    <3>1. SUFFICES ASSUME ~tx.coinbase PROVE sum = InputSum(l, tx)
      OBVIOUS
    <3> HIDE DEF l, tx, h, c, u
    <3>2. Consumed(tx) \subseteq DOMAIN l.utxo
      BY <1>3, <2>1, <2>2, <2>3, AppliedEntries
    <3>3. \A i \in DOMAIN tx.inputs : tx.inputs[i].op \in DOMAIN l.utxo
      BY <3>1, <3>2 DEF Consumed, Spends
    <3>4. \A i \in DOMAIN tx.inputs :
            FoundEntry(tx.inputs[i].op, u, c).amount = l.utxo[tx.inputs[i].op].amount
      BY <2>6, <3>3
    <3>5. [i \in DOMAIN tx.inputs |-> FoundEntry(tx.inputs[i].op, u, c).amount]
            = [i \in DOMAIN tx.inputs |-> l.utxo[tx.inputs[i].op].amount]
      BY <3>4
    <3> QED
      BY <3>5, Zenon DEF FoundSum, InputSum
  <2>12. /\ ValueOf(r.led) \in Nat /\ TakenAmount(l, tx) \in Nat
         /\ ValueOf(r.led) + TakenAmount(l, tx) = ValueOf(l) + TotalOutput(tx)
    <3> HIDE DEF l, tx, h
    <3> QED
      BY <1>3, <2>1, <2>2, <2>3, <2>4, AppliedValue
  <2>13. TotalOutput(tx) \in Nat
    BY <2>1, BurnNat
  <2>14. V(k)
    <3>1. k \in Nat /\ k # 0 /\ (k = 1 <=> k - 1 = 0)
      BY <1>3
    <3> DEFINE A == ValueOf(led)
               L == ValueOf(l)
               B == ValueOf(a[k].led)
               t == TakenAmount(l, tx)
               o == TotalOutput(tx)
               fo == old.fees
               fn == new.fees
    <3>2. /\ B \in Nat /\ t \in Nat /\ o \in Nat /\ L \in Nat /\ fo \in Nat /\ A \in Nat
          /\ B + t = L + o /\ L + fo = A + IF k - 1 = 0 THEN 0 ELSE cb
      BY <1>6, <2>3, <2>7, <2>12, <2>13
    <3>3. CASE k = 1
      <4>1. t = 0 /\ fn = fo /\ o = cb
        BY <2>1, <2>8, <2>9, <3>3 DEF TakenAmount
      <4>2. L + fo = A
        BY <3>1, <3>2, <3>3
      <4>3. B = L + cb /\ cb \in Nat
        BY <3>2, <4>1
      <4>4. fn \in Nat /\ B + fn = A + cb
        <5> HIDE DEF A, L, B, t, o, fo, fn, cb
        <5> QED
          BY <3>2, <4>1, <4>2, <4>3
      <4> QED
        BY <3>1, <3>2, <4>4
    <3>4. CASE k # 1
      <4>1. t = sum /\ sum \in Nat /\ o <= sum /\ fn = fo + (sum - o)
        BY <2>1, <2>8, <2>11, <3>4 DEF TakenAmount
      <4>2. L + fo = A + cb
        BY <3>1, <3>2, <3>4
      <4>3. cb \in Nat
        <5>1. 1 \in 1..n /\ block.txs[1] \in TxType
          BY <1>1, <1>3, RunTypes
        <5> QED
          BY <5>1, BurnNat
      <4>4. fn \in Nat /\ B + fn = A + cb
        <5> HIDE DEF A, L, B, t, o, fo, fn, cb, sum
        <5> QED
          BY <3>2, <4>1, <4>2, <4>3
      <4> QED
        BY <3>1, <3>2, <4>4
    <3> QED
      BY <3>3, <3>4
  <2> QED
    BY <2>10, <2>14
<1>9. ASSUME NEW k \in Nat, k \in T PROVE k + 1 \in T
  <2>1. SUFFICES ASSUME k + 1 <= n PROVE I(k + 1)
    OBVIOUS
  <2>2. k + 1 \in 1..n /\ (k + 1) - 1 = k /\ I(k)
    BY <1>3, <1>9, <2>1
  <2> HIDE DEF I
  <2> QED
    BY <1>8, <2>2
<1> HIDE DEF T
<1>10. Nat \subseteq T
  BY <1>7, <1>9, SetInduction
<1>11. V(n)
  BY <1>3, <1>10 DEF T
<1>12. BlockReward(Schedule, h) \in Nat
  BY <1>3, RewardIsGrowth, ScheduleAssumption DEF Scheds
<1>13. n # 0 => cb <= BlockReward(Schedule, h) + v[n].fees
  <2>1. SUFFICES ASSUME n # 0 PROVE cb <= BlockReward(Schedule, h) + v[n].fees
    OBVIOUS
  <2>2. block.txs # <<>> /\ Head(block.txs) = block.txs[1]
    BY <2>1 DEF IsBlock
  <2> QED
    BY <1>2, <2>2 DEF ValidateTransactions
<1>14. n # 0 => cb \in Nat
  <2>1. n # 0 => 1 \in 1..n /\ block.txs[1] \in TxType
    BY <1>1, <1>3, RunTypes
  <2> QED
    BY <2>1, BurnNat
<1> DEFINE A == ValueOf(led)
           B == ValueOf(a[n].led)
           f == v[n].fees
           R == BlockReward(Schedule, h)
<1>15. B \in Nat /\ f \in Nat /\ B + f = A + IF n = 0 THEN 0 ELSE cb
  BY <1>11
<1>16. B <= A + R
  <2> HIDE DEF A, B, f, R, n, cb
  <2> QED
    BY <1>6, <1>12, <1>13, <1>14, <1>15 DEF A, R, f
<1> QED
  BY <1>1, <1>6, <1>12, <1>16

----------------------------------------------------------------------------
(* reorganize                                                              *)

\* One turn of each of the four loops of reorganize, and of the replay.
LoopStep(loop, a, h, blk, gd, store) ==
  IF loop = "replay" THEN ReplayOne(a, h, blk, gd, store)
  ELSE IF loop = "disconnect" THEN DisconnectOne(a, h, blk, store)
  ELSE IF loop = "connect" THEN ConnectOne(a, h, blk, gd, store)
  ELSE IF loop = "undo" THEN [a EXCEPT !.led = DisconnectBlock(@, blk[h], a.undos[h]).led]
  ELSE Reconnected(a, h, ApplyBlockWithMerges(a.led, h, blk, gd, store))

LoopEntry(loop, start, s, blk, gd, store, g, p) ==
  IF p = {} THEN start
  ELSE LoopStep(loop, g[p \ {Max(p)}], s[Max(p)], blk, gd, store)

\* The table of the fold that a loop is.
LoopTable(loop, start, s, blk, gd, store, g) ==
  g = [p \in SUBSET DOMAIN s |-> LoopEntry(loop, start, s, blk, gd, store, g, p)]

\* The table exists, by induction over the size of the sets.
LEMMA LoopTableExists ==
  ASSUME NEW loop, NEW start, NEW S, NEW s \in Seq(S), NEW blk, NEW gd, NEW store
  PROVE  \E g : LoopTable(loop, start, s, blk, gd, store, g)
<1> DEFINE D == DOMAIN s
           Entry(g, p) == LoopEntry(loop, start, s, blk, gd, store, g, p)
           Ok(n, g) == g = [p \in Small(D, n) |-> Entry(g, p)]
           T == {n \in Nat : \E g : Ok(n, g)}
<1>1. D = 1..Len(s) /\ Len(s) \in Nat /\ IsFiniteSet(D)
  BY FS_Interval
<1>2. \A p \in Small(D, 0) : p = {}
  BY <1>1, FS_Subset, FS_EmptySet, FS_CardinalityType DEF Small
<1>3. ASSUME NEW n \in Nat, NEW p \in Small(D, n + 1), p # {} PROVE p \ {Max(p)} \in Small(D, n)
  <2>1. p \in SUBSET D /\ IsFiniteSet(p) /\ Cardinality(p) <= n + 1
    BY <1>1, FS_Subset DEF Small
  <2>2. Max(p) \in p
    BY <1>1, <1>3, <2>1, MaxOfSet
  <2>3. Cardinality(p \ {Max(p)}) = Cardinality(p) - 1 /\ Cardinality(p) \in Nat
    BY <2>1, <2>2, FS_RemoveElement, FS_CardinalityType
  <2> QED
    BY <2>1, <2>3 DEF Small
<1>4. 0 \in T
  <2> DEFINE g == [p \in Small(D, 0) |-> start]
  <2>1. \A p \in Small(D, 0) : Entry(g, p) = start
    BY <1>2 DEF LoopEntry
  <2> HIDE DEF D
  <2>2. g = [p \in Small(D, 0) |-> Entry(g, p)]
    BY <2>1
  <2> QED
    BY <2>2
<1>5. ASSUME NEW n \in Nat, n \in T PROVE n + 1 \in T
  <2>1. PICK g : Ok(n, g)
    BY <1>5
  <2> DEFINE h == [p \in Small(D, n + 1) |-> Entry(g, p)]
  <2>2. Small(D, n) \subseteq Small(D, n + 1)
    BY <1>1, FS_Subset, FS_CardinalityType DEF Small
  <2> HIDE DEF D
  <2>3. \A p \in Small(D, n) : h[p] = g[p]
    BY <2>1, <2>2
  <2>4. \A p \in Small(D, n + 1) : Entry(g, p) = Entry(h, p)
    <3>1. TAKE p \in Small(D, n + 1)
    <3>2. p # {} => h[p \ {Max(p)}] = g[p \ {Max(p)}]
      BY <1>3, <2>3
    <3> HIDE DEF h
    <3> QED
      BY <3>2 DEF LoopEntry
  <2> HIDE DEF h, Entry
  <2>5. Ok(n + 1, h)
    BY <2>4 DEF h
  <2> QED
    BY <2>5
<1> HIDE DEF T
<1>6. Nat \subseteq T
  BY <1>4, <1>5, SetInduction
<1>7. Small(D, Len(s)) = SUBSET D
  <2>1. Cardinality(D) = Len(s)
    BY <1>1, FS_Interval, SMTT(30)
  <2> QED
    BY <1>1, <2>1, FS_Subset DEF Small
<1>8. PICK g : Ok(Len(s), g)
  BY <1>1, <1>6 DEF T
<1> QED
  BY <1>7, <1>8 DEF LoopTable

\* A loop, turn by turn: a[k] is what it has after k blocks.
IsLoopRun(loop, start, s, blk, gd, store, a) ==
  /\ a[0] = start
  /\ \A k \in 1..Len(s) : a[k] = LoopStep(loop, a[k - 1], s[k], blk, gd, store)

\* A table of the fold holds a run.
LEMMA LoopTableRun ==
  ASSUME NEW loop, NEW start, NEW S, NEW s \in Seq(S), NEW blk, NEW gd, NEW store,
         NEW g, LoopTable(loop, start, s, blk, gd, store, g)
  PROVE  \E a : /\ IsLoopRun(loop, start, s, blk, gd, store, a)
                /\ g[DOMAIN s] = a[Len(s)]
<1> DEFINE n == Len(s)
<1>1. n \in Nat /\ DOMAIN s = 1..n
  OBVIOUS
<1>2. \A p \in SUBSET (1..n) : g[p] = LoopEntry(loop, start, s, blk, gd, store, g, p)
  BY <1>1 DEF LoopTable
<1> HIDE DEF n
<1>3. ASSUME NEW k \in 1..n
      PROVE  g[1..k] = LoopStep(loop, g[1..(k - 1)], s[k], blk, gd, store)
  <2>1. 1..k \in SUBSET (1..n) /\ 1..k # {} /\ k \in Nat /\ k > 0
    <3>1. k \in Nat /\ k > 0 /\ k <= n
      BY <1>1
    <3>2. k \in 1..k /\ \A i \in 1..k : i \in 1..n
      BY <1>1, <3>1
    <3> QED
      BY <3>1, <3>2
  <2>2. Max(1..k) = k /\ (1..k) \ {k} = 1..(k - 1)
    BY <2>1, MaxOfPrefix
  <2>3. g[1..k] = LoopStep(loop, g[(1..k) \ {Max(1..k)}], s[Max(1..k)], blk, gd, store)
    BY <1>2, <2>1 DEF LoopEntry
  <2> QED
    BY <2>2, <2>3
<1>4. g[1..0] = start
  <2>1. 1..0 = {} /\ 1..0 \in SUBSET (1..n)
    OBVIOUS
  <2> QED
    BY <1>2, <2>1 DEF LoopEntry
<1> DEFINE a == [k \in 0..n |-> g[1..k]]
<1>5. a[0] = start /\ a[n] = g[1..n]
  BY <1>1, <1>4
<1>6. \A k \in 1..n : a[k] = LoopStep(loop, a[k - 1], s[k], blk, gd, store)
  <2>1. TAKE k \in 1..n
  <2>2. a[k] = g[1..k] /\ a[k - 1] = g[1..(k - 1)]
    BY <1>1
  <2> HIDE DEF a
  <2> QED
    BY <1>3, <2>2
<1> HIDE DEF a
<1> QED
  BY <1>1, <1>5, <1>6 DEF IsLoopRun, n

\* The four loops: the old branch is disconnected, the new one connected; the
\* rollback disconnects what was connected and connects the old one again.
DisconnectAll(start, s, blk, gd, store) ==
  FoldLeft(LAMBDA a, h : DisconnectOne(a, h, blk, store),
           start, s)

ConnectAll(start, s, blk, gd, store) ==
  FoldLeft(LAMBDA a, h : ConnectOne(a, h, blk, gd, store),
           start, s)

UndoAll(start, s, blk, gd, store) ==
  FoldLeft(LAMBDA a, h : [a EXCEPT !.led = DisconnectBlock(@, blk[h], a.undos[h]).led],
           start, s)

ReconnectAll(start, s, blk, gd, store) ==
  FoldLeft(LAMBDA a, h : Reconnected(a, h, ApplyBlockWithMerges(a.led, h, blk, gd, store)),
           start, s)

\* DisconnectAll has a run.
LEMMA DisconnectRuns ==
  ASSUME NEW start, NEW S, NEW s \in Seq(S), NEW blk, NEW gd, NEW store
  PROVE  \E a : /\ IsLoopRun("disconnect", start, s, blk, gd, store, a)
                /\ DisconnectAll(start, s, blk, gd, store) = a[Len(s)]
<1> DEFINE Table(g) ==
             g = [p \in SUBSET DOMAIN s |->
                    IF p = {} THEN start
                    ELSE DisconnectOne(g[p \ {Max(p)}], s[Max(p)], blk, store)]
<1>1. DisconnectAll(start, s, blk, gd, store) = (CHOOSE g : Table(g))[DOMAIN s]
  BY DEF DisconnectAll, FoldLeft, MapThenFoldSet
<1>2. \A g : Table(g) <=> LoopTable("disconnect", start, s, blk, gd, store, g)
  <2>1. TAKE g
  <2>2. \A a, h : LoopStep("disconnect", a, h, blk, gd, store) =
                   DisconnectOne(a, h, blk, store)
    BY DEF LoopStep
  <2>3. \A p : LoopEntry("disconnect", start, s, blk, gd, store, g, p) =
                IF p = {} THEN start
                ELSE DisconnectOne(g[p \ {Max(p)}], s[Max(p)], blk, store)
    BY <2>2, Zenon DEF LoopEntry
  <2> QED
    BY <2>3 DEF LoopTable
<1>3. \E g : Table(g)
  BY <1>2, LoopTableExists
<1> HIDE DEF Table
<1>4. PICK g : g = (CHOOSE t : Table(t))
  OBVIOUS
<1>5. LoopTable("disconnect", start, s, blk, gd, store, g)
  BY <1>2, <1>3, <1>4
<1>6. \E a : /\ IsLoopRun("disconnect", start, s, blk, gd, store, a)
             /\ g[DOMAIN s] = a[Len(s)]
  BY <1>5, LoopTableRun
<1> QED
  BY <1>1, <1>4, <1>6, Zenon

\* ConnectAll has a run.
LEMMA ConnectRuns ==
  ASSUME NEW start, NEW S, NEW s \in Seq(S), NEW blk, NEW gd, NEW store
  PROVE  \E a : /\ IsLoopRun("connect", start, s, blk, gd, store, a)
                /\ ConnectAll(start, s, blk, gd, store) = a[Len(s)]
<1> DEFINE Table(g) ==
             g = [p \in SUBSET DOMAIN s |->
                    IF p = {} THEN start
                    ELSE ConnectOne(g[p \ {Max(p)}], s[Max(p)], blk, gd, store)]
<1>1. ConnectAll(start, s, blk, gd, store) = (CHOOSE g : Table(g))[DOMAIN s]
  BY DEF ConnectAll, FoldLeft, MapThenFoldSet
<1>2. \A g : Table(g) <=> LoopTable("connect", start, s, blk, gd, store, g)
  <2>1. TAKE g
  <2>2. \A a, h : LoopStep("connect", a, h, blk, gd, store) =
                   ConnectOne(a, h, blk, gd, store)
    BY DEF LoopStep
  <2>3. \A p : LoopEntry("connect", start, s, blk, gd, store, g, p) =
                IF p = {} THEN start
                ELSE ConnectOne(g[p \ {Max(p)}], s[Max(p)], blk, gd, store)
    BY <2>2, Zenon DEF LoopEntry
  <2> QED
    BY <2>3 DEF LoopTable
<1>3. \E g : Table(g)
  BY <1>2, LoopTableExists
<1> HIDE DEF Table
<1>4. PICK g : g = (CHOOSE t : Table(t))
  OBVIOUS
<1>5. LoopTable("connect", start, s, blk, gd, store, g)
  BY <1>2, <1>3, <1>4
<1>6. \E a : /\ IsLoopRun("connect", start, s, blk, gd, store, a)
             /\ g[DOMAIN s] = a[Len(s)]
  BY <1>5, LoopTableRun
<1> QED
  BY <1>1, <1>4, <1>6, Zenon

\* UndoAll has a run.
LEMMA UndoRuns ==
  ASSUME NEW start, NEW S, NEW s \in Seq(S), NEW blk, NEW gd, NEW store
  PROVE  \E a : /\ IsLoopRun("undo", start, s, blk, gd, store, a)
                /\ UndoAll(start, s, blk, gd, store) = a[Len(s)]
<1> DEFINE Table(g) ==
             g = [p \in SUBSET DOMAIN s |->
                    IF p = {} THEN start
                    ELSE [g[p \ {Max(p)}] EXCEPT !.led = DisconnectBlock(@, blk[s[Max(p)]], g[p \ {Max(p)}].undos[s[Max(p)]]).led]]
<1>1. UndoAll(start, s, blk, gd, store) = (CHOOSE g : Table(g))[DOMAIN s]
  BY DEF UndoAll, FoldLeft, MapThenFoldSet
<1>2. \A g : Table(g) <=> LoopTable("undo", start, s, blk, gd, store, g)
  <2>1. TAKE g
  <2>2. \A a, h : LoopStep("undo", a, h, blk, gd, store) =
                   [a EXCEPT !.led = DisconnectBlock(@, blk[h], a.undos[h]).led]
    BY DEF LoopStep
  <2>3. \A p : LoopEntry("undo", start, s, blk, gd, store, g, p) =
                IF p = {} THEN start
                ELSE [g[p \ {Max(p)}] EXCEPT !.led = DisconnectBlock(@, blk[s[Max(p)]], g[p \ {Max(p)}].undos[s[Max(p)]]).led]
    BY <2>2, Zenon DEF LoopEntry
  <2> QED
    BY <2>3 DEF LoopTable
<1>3. \E g : Table(g)
  BY <1>2, LoopTableExists
<1> HIDE DEF Table
<1>4. PICK g : g = (CHOOSE t : Table(t))
  OBVIOUS
<1>5. LoopTable("undo", start, s, blk, gd, store, g)
  BY <1>2, <1>3, <1>4
<1>6. \E a : /\ IsLoopRun("undo", start, s, blk, gd, store, a)
             /\ g[DOMAIN s] = a[Len(s)]
  BY <1>5, LoopTableRun
<1> QED
  BY <1>1, <1>4, <1>6, Zenon

\* ReconnectAll has a run.
LEMMA ReconnectRuns ==
  ASSUME NEW start, NEW S, NEW s \in Seq(S), NEW blk, NEW gd, NEW store
  PROVE  \E a : /\ IsLoopRun("reconnect", start, s, blk, gd, store, a)
                /\ ReconnectAll(start, s, blk, gd, store) = a[Len(s)]
<1> DEFINE Table(g) ==
             g = [p \in SUBSET DOMAIN s |->
                    IF p = {} THEN start
                    ELSE Reconnected(g[p \ {Max(p)}], s[Max(p)], ApplyBlockWithMerges(g[p \ {Max(p)}].led, s[Max(p)], blk, gd, store))]
<1>1. ReconnectAll(start, s, blk, gd, store) = (CHOOSE g : Table(g))[DOMAIN s]
  BY DEF ReconnectAll, FoldLeft, MapThenFoldSet
<1>2. \A g : Table(g) <=> LoopTable("reconnect", start, s, blk, gd, store, g)
  <2>1. TAKE g
  <2>2. \A a, h : LoopStep("reconnect", a, h, blk, gd, store) =
                   Reconnected(a, h, ApplyBlockWithMerges(a.led, h, blk, gd, store))
    BY DEF LoopStep
  <2>3. \A p : LoopEntry("reconnect", start, s, blk, gd, store, g, p) =
                IF p = {} THEN start
                ELSE Reconnected(g[p \ {Max(p)}], s[Max(p)], ApplyBlockWithMerges(g[p \ {Max(p)}].led, s[Max(p)], blk, gd, store))
    BY <2>2, Zenon DEF LoopEntry
  <2> QED
    BY <2>3 DEF LoopTable
<1>3. \E g : Table(g)
  BY <1>2, LoopTableExists
<1> HIDE DEF Table
<1>4. PICK g : g = (CHOOSE t : Table(t))
  OBVIOUS
<1>5. LoopTable("reconnect", start, s, blk, gd, store, g)
  BY <1>2, <1>3, <1>4
<1>6. \E a : /\ IsLoopRun("reconnect", start, s, blk, gd, store, a)
             /\ g[DOMAIN s] = a[Len(s)]
  BY <1>5, LoopTableRun
<1> QED
  BY <1>1, <1>4, <1>6, Zenon

\* A prefix grows by its next element; it reads the other way round.
LEMMA PrefixFacts ==
  ASSUME NEW S, NEW s \in Seq(S), NEW k \in 0..Len(s)
  PROVE  /\ k < Len(s) => SubSeq(s, 1, k + 1) = Append(SubSeq(s, 1, k), s[k + 1])
         /\ SubSeq(s, 1, k) \in Seq(S) /\ Len(SubSeq(s, 1, k)) = k
         /\ Reverse(SubSeq(s, 1, k)) \in Seq(S) /\ Len(Reverse(SubSeq(s, 1, k))) = k
         /\ \A i \in 1..k : /\ SubSeq(s, 1, k)[i] = s[i]
                            /\ Reverse(SubSeq(s, 1, k))[i] = s[(k - i) + 1]
<1> DEFINE p == SubSeq(s, 1, k)
           r == Reverse(p)
<1>1. /\ p \in Seq(S) /\ Len(p) = k /\ \A i \in 1..k : p[i] = s[i] /\ s[i] \in S
  OBVIOUS
<1>2. k < Len(s) => SubSeq(s, 1, k + 1) = Append(p, s[k + 1])
  OBVIOUS
<1> HIDE DEF p
<1>3. r = [i \in 1..k |-> p[(k - i) + 1]]
  BY <1>1 DEF Reverse
<1>4. \A i \in 1..k : (k - i) + 1 \in 1..k
  OBVIOUS
<1>5. \A i \in 1..k : r[i] = s[(k - i) + 1] /\ r[i] \in S
  BY <1>1, <1>3, <1>4
<1>6. r \in [1..k -> S]
  <2>1. \A i \in 1..k : p[(k - i) + 1] \in S
    BY <1>1, <1>4
  <2> QED
    BY <1>3, <2>1
<1>7. r \in Seq(S) /\ Len(r) = k
  <2> HIDE DEF r
  <2>1. k \in Nat
    OBVIOUS
  <2>2. r \in Seq(S)
    BY <1>6, <2>1
  <2>3. DOMAIN r = 1..k
    BY <1>6
  <2> QED
    BY <2>1, <2>2, <2>3
<1> QED
  BY <1>1, <1>2, <1>5, <1>7 DEF p, r

\* What the loops hand on.
Acc(ok, led, undos, gone, come) ==
  [ok |-> ok, led |-> led, undos |-> undos, gone |-> gone, come |-> come]

\* A loop that goes on, and one that has stopped.
Going(led, undos, gone, come) == Acc(TRUE, led, undos, gone, come)
Stopped(led, undos, gone, come) == Acc(FALSE, led, undos, gone, come)

\* A block that has been disconnected, connected, or connected again.
LEMMA AccMoves ==
  ASSUME NEW o, NEW l, NEW u, NEW g, NEW c, NEW h, NEW r, r.ok
  PROVE  LET a == Acc(o, l, u, g, c)
         IN  /\ Disconnected(a, h, r) = Acc(o, r.led, u, Append(g, h), c)
             /\ Connected(a, h, r) = Acc(o, r.led, Put(u, h, r.undo), g, Append(c, h))
             /\ Reconnected(a, h, r) = Acc(o, r.led, Put(u, h, r.undo), g, c)
<1> DEFINE a == Acc(o, l, u, g, c)
           q == r.led
           x == Put(u, h, r.undo)
           y == Append(g, h)
           z == Append(c, h)
<1>1. a.led = l /\ a.undos = u /\ a.gone = g /\ a.come = c
  BY DEF Acc
<1>2. [a EXCEPT !.led = q] = Acc(o, q, u, g, c)
  <2> HIDE DEF q
  <2> QED
    BY DEF Acc
<1>3. [Acc(o, q, u, g, c) EXCEPT !.gone = y] = Acc(o, q, u, y, c)
  <2> HIDE DEF q, y
  <2> QED
    BY DEF Acc
<1>4. [Acc(o, q, u, g, c) EXCEPT !.undos = x] = Acc(o, q, x, g, c)
  <2> HIDE DEF q, x
  <2> QED
    BY DEF Acc
<1>5. [Acc(o, q, x, g, c) EXCEPT !.come = z] = Acc(o, q, x, g, z)
  <2> HIDE DEF q, x, z
  <2> QED
    BY DEF Acc
<1>6. /\ Disconnected(a, h, r) = [[a EXCEPT !.led = q] EXCEPT !.gone = y]
      /\ Connected(a, h, r) = [[[a EXCEPT !.led = q] EXCEPT !.undos = x] EXCEPT !.come = z]
      /\ Reconnected(a, h, r) = [[a EXCEPT !.led = q] EXCEPT !.undos = x]
  <2> HIDE DEF a
  <2>1. Disconnected(a, h, r) = [[a EXCEPT !.led = q] EXCEPT !.gone = y]
    BY <1>1 DEF Disconnected
  <2>2. Connected(a, h, r) = [[[a EXCEPT !.led = q] EXCEPT !.undos = x] EXCEPT !.come = z]
    BY <1>1 DEF Connected
  <2>3. Reconnected(a, h, r) = [[a EXCEPT !.led = q] EXCEPT !.undos = x]
    BY <1>1 DEF Reconnected
  <2> QED
    BY <2>1, <2>2, <2>3
<1> HIDE DEF a, x, y, z, q
<1>7. /\ Disconnected(a, h, r) = Acc(o, q, u, y, c)
      /\ Connected(a, h, r) = Acc(o, q, x, g, z)
      /\ Reconnected(a, h, r) = Acc(o, q, x, g, c)
  BY <1>2, <1>3, <1>4, <1>5, <1>6
<1> QED
  BY <1>7 DEF a, x, y, z, q

\* What one turn of each loop does.
LEMMA LoopSteps ==
  ASSUME NEW l, NEW u, NEW g, NEW c, NEW h, NEW blk, NEW gd, NEW store
  PROVE  LET back == DisconnectBlock(l, blk[h], u[h])
             r    == ApplyBlockWithMerges(l, h, blk, gd, store)
         IN  /\ h \in DOMAIN u /\ h \in store /\ back.ok =>
                  LoopStep("disconnect", Going(l, u, g, c), h, blk, gd, store)
                    = Going(back.led, u, Append(g, h), c)
             /\ ~(h \in DOMAIN u /\ h \in store) =>
                  LoopStep("disconnect", Going(l, u, g, c), h, blk, gd, store)
                    = Stopped(l, u, g, c)
             /\ LoopStep("disconnect", Stopped(l, u, g, c), h, blk, gd, store)
                    = Stopped(l, u, g, c)
             /\ h \in store /\ ValidateTransactions(l, blk[h]) /\ r.ok =>
                  LoopStep("connect", Going(l, u, g, c), h, blk, gd, store)
                    = Going(r.led, Put(u, h, r.undo), g, Append(c, h))
             /\ ~(h \in store /\ ValidateTransactions(l, blk[h])) =>
                  LoopStep("connect", Going(l, u, g, c), h, blk, gd, store)
                    = Stopped(l, u, g, c)
             /\ LoopStep("connect", Stopped(l, u, g, c), h, blk, gd, store)
                    = Stopped(l, u, g, c)
             /\ LoopStep("undo", Stopped(l, u, g, c), h, blk, gd, store)
                    = Stopped(back.led, u, g, c)
             /\ r.ok => LoopStep("reconnect", Stopped(l, u, g, c), h, blk, gd, store)
                          = Stopped(r.led, Put(u, h, r.undo), g, c)
<1> DEFINE back == DisconnectBlock(l, blk[h], u[h])
           r    == ApplyBlockWithMerges(l, h, blk, gd, store)
           valid == ValidateTransactions(l, blk[h])
           T == Acc(TRUE, l, u, g, c)
           F == Acc(FALSE, l, u, g, c)
<1>1. /\ T.ok /\ ~F.ok
      /\ T.led = l /\ T.undos = u /\ F.led = l /\ F.undos = u
  BY DEF Acc
<1>2. [T EXCEPT !.ok = FALSE] = F /\ [F EXCEPT !.ok = FALSE] = F
  <2>1. PICK t, f : t = TRUE /\ f = FALSE
    OBVIOUS
  <2>2. [Acc(t, l, u, g, c) EXCEPT !.ok = f] = Acc(f, l, u, g, c)
    BY DEF Acc
  <2>3. [Acc(f, l, u, g, c) EXCEPT !.ok = f] = Acc(f, l, u, g, c)
    BY DEF Acc
  <2> QED
    BY <2>1, <2>2, <2>3
<1>3. [F EXCEPT !.led = back.led] = Acc(FALSE, back.led, u, g, c)
  <2>1. PICK f : f = FALSE
    OBVIOUS
  <2> HIDE DEF back
  <2>2. [Acc(f, l, u, g, c) EXCEPT !.led = back.led] = Acc(f, back.led, u, g, c)
    BY DEF Acc
  <2> QED
    BY <2>1, <2>2
<1> HIDE DEF T, F
<1>4. ASSUME h \in DOMAIN u, h \in store, back.ok
      PROVE  DisconnectOne(T, h, blk, store) = Acc(TRUE, back.led, u, Append(g, h), c)
  <2>1. DisconnectOne(T, h, blk, store) = Disconnected(T, h, back)
    BY <1>1, <1>4 DEF DisconnectOne
  <2> HIDE DEF back
  <2>2. PICK t : t = TRUE
    OBVIOUS
  <2>3. Disconnected(Acc(t, l, u, g, c), h, back) = Acc(t, back.led, u, Append(g, h), c)
    BY <1>4, AccMoves
  <2> QED
    BY <2>1, <2>2, <2>3, Zenon DEF T
<1>5. ~(h \in DOMAIN u /\ h \in store) => DisconnectOne(T, h, blk, store) = F
  BY <1>1, <1>2 DEF DisconnectOne
<1>6. DisconnectOne(F, h, blk, store) = F
  BY <1>1, <1>2 DEF DisconnectOne
<1>7. ASSUME h \in store, valid, r.ok
      PROVE  ConnectOne(T, h, blk, gd, store)
               = Acc(TRUE, r.led, Put(u, h, r.undo), g, Append(c, h))
  <2>1. ConnectOne(T, h, blk, gd, store) = Connected(T, h, r)
    BY <1>1, <1>7 DEF ConnectOne
  <2> HIDE DEF r
  <2>2. PICK t : t = TRUE
    OBVIOUS
  <2>3. Connected(Acc(t, l, u, g, c), h, r) = Acc(t, r.led, Put(u, h, r.undo), g, Append(c, h))
    BY <1>7, AccMoves
  <2> QED
    BY <2>1, <2>2, <2>3, Zenon DEF T
<1>8. ~(h \in store /\ valid) => ConnectOne(T, h, blk, gd, store) = F
  BY <1>1, <1>2 DEF ConnectOne
<1>9. ConnectOne(F, h, blk, gd, store) = F
  BY <1>1, <1>2 DEF ConnectOne
<1>10. LoopStep("undo", F, h, blk, gd, store) = Acc(FALSE, back.led, u, g, c)
  <2>1. LoopStep("undo", F, h, blk, gd, store) =
          [F EXCEPT !.led = DisconnectBlock(@, blk[h], F.undos[h]).led]
    BY DEF LoopStep
  <2>2. [F EXCEPT !.led = DisconnectBlock(@, blk[h], F.undos[h]).led]
          = [F EXCEPT !.led = back.led]
    BY <1>1
  <2> QED
    BY <1>3, <2>1, <2>2
<1>11. ASSUME r.ok
       PROVE  Reconnected(F, h, ApplyBlockWithMerges(F.led, h, blk, gd, store))
                = Acc(FALSE, r.led, Put(u, h, r.undo), g, c)
  <2>1. ApplyBlockWithMerges(F.led, h, blk, gd, store) = r
    BY <1>1
  <2> HIDE DEF r
  <2>2. PICK f : f = FALSE
    OBVIOUS
  <2>3. Reconnected(Acc(f, l, u, g, c), h, r) = Acc(f, r.led, Put(u, h, r.undo), g, c)
    BY <1>11, AccMoves
  <2> QED
    BY <2>1, <2>2, <2>3, Zenon DEF F
<1>12. /\ LoopStep("disconnect", T, h, blk, gd, store) = DisconnectOne(T, h, blk, store)
       /\ LoopStep("disconnect", F, h, blk, gd, store) = DisconnectOne(F, h, blk, store)
       /\ LoopStep("connect", T, h, blk, gd, store) = ConnectOne(T, h, blk, gd, store)
       /\ LoopStep("connect", F, h, blk, gd, store) = ConnectOne(F, h, blk, gd, store)
       /\ LoopStep("reconnect", F, h, blk, gd, store) =
                  Reconnected(F, h, ApplyBlockWithMerges(F.led, h, blk, gd, store))
  BY DEF LoopStep
<1> HIDE DEF back, r, valid
<1> QED
  BY <1>4, <1>5, <1>6, <1>7, <1>8, <1>9, <1>10, <1>11, <1>12, Zenon
     DEF T, F, back, r, valid, Going, Stopped

\* led is what the blocks of s, the last one first, have made of L[Len(s)], and
\* undos has their undo data; as far as it has any and the blocks are stored.
Unwinds(led, undos, s, blk, gd, store, L) ==
  /\ L[0] = led
  /\ \A i \in 1..Len(s) :
       (\A j \in 1..i : s[j] \in DOMAIN undos /\ s[j] \in store) =>
         /\ L[i] \in LedgerType /\ Connectable(L[i], s[i], blk, gd, store)
         /\ LET r == ApplyBlockWithMerges(L[i], s[i], blk, gd, store)
            IN  r.ok /\ r.led = L[i - 1] /\ r.undo = undos[s[i]]

\* Some block of s has no undo data, or is not stored.
Lacks(s, undos, store) == \E j \in 1..Len(s) : ~(s[j] \in DOMAIN undos /\ s[j] \in store)

\* The loop over the old branch: it has gone back k blocks and is still going,
\* or it has stopped there because the next block cannot be disconnected.
LEMMA DisconnectLoop ==
  ASSUME NEW led, NEW undos, NEW S, NEW s \in Seq(S), NEW blk, NEW gd, NEW store, NEW L,
         Unwinds(led, undos, s, blk, gd, store, L), NEW d,
         IsLoopRun("disconnect", Going(led, undos, <<>>, <<>>), s, blk, gd, store, d)
  PROVE  \E k \in 0..Len(s) :
           /\ \A j \in 1..k : s[j] \in DOMAIN undos /\ s[j] \in store
           /\ \/ k = Len(s) /\ d[Len(s)] = Going(L[k], undos, SubSeq(s, 1, k), <<>>)
              \/ Lacks(s, undos, store) /\ d[Len(s)] = Stopped(L[k], undos, SubSeq(s, 1, k), <<>>)
<1> DEFINE n == Len(s)
           Have(k) == \A j \in 1..k : s[j] \in DOMAIN undos /\ s[j] \in store
           At(k)   == SubSeq(s, 1, k)
           On(i)   == Have(i) /\ d[i] = Going(L[i], undos, At(i), <<>>)
           Off(i)  == /\ Lacks(s, undos, store)
                      /\ \E k \in 0..i : Have(k) /\ d[i] = Stopped(L[k], undos, At(k), <<>>)
           T == {i \in Nat : i <= n => On(i) \/ Off(i)}
<1>1. n \in Nat
  OBVIOUS
<1>2. 0 \in T
  <2>1. d[0] = Going(led, undos, <<>>, <<>>) /\ L[0] = led
    BY DEF IsLoopRun, Unwinds
  <2>2. At(0) = <<>>
    OBVIOUS
  <2>3. Have(0)
    OBVIOUS
  <2> HIDE DEF At, Have
  <2> QED
    BY <2>1, <2>2, <2>3
<1>3. ASSUME NEW i \in Nat, i \in T PROVE i + 1 \in T
  <2>1. SUFFICES ASSUME i + 1 <= n PROVE On(i + 1) \/ Off(i + 1)
    BY SMTT(30)
  <2> DEFINE h == s[i + 1]
  <2>2. i + 1 \in 1..n /\ (i + 1) - 1 = i /\ i \in 0..n /\ i < n
    BY <1>1, <2>1
  <2>3. d[i + 1] = LoopStep("disconnect", d[i], h, blk, gd, store)
    BY <2>2 DEF IsLoopRun
  <2>4. On(i) \/ Off(i)
    BY <1>1, <1>3, <2>1
  <2>5. At(i + 1) = Append(At(i), h)
    BY <2>2, PrefixFacts
  <2>6. Have(i) /\ h \in DOMAIN undos /\ h \in store => Have(i + 1)
    <3>1. \A j \in 1..(i + 1) : j \in 1..i \/ j = i + 1
      OBVIOUS
    <3> QED
      BY <3>1
  <2> HIDE DEF h, At, n
  <2>7. CASE On(i) /\ h \in DOMAIN undos /\ h \in store
    <3>1. Have(i + 1)
      BY <2>6, <2>7
    <3> DEFINE l == L[i + 1]
               r == ApplyBlockWithMerges(l, h, blk, gd, store)
    <3>2. /\ l \in LedgerType /\ Connectable(l, h, blk, gd, store)
          /\ r.ok /\ r.led = L[i] /\ r.undo = undos[h]
      BY <2>2, <3>1 DEF Unwinds, h, n
    <3> HIDE DEF l
    <3>3. DisconnectBlock(r.led, blk[h], r.undo) = [ok |-> TRUE, led |-> l]
      BY <3>2, DisconnectRestores
    <3> HIDE DEF r
    <3>4. DisconnectBlock(L[i], blk[h], undos[h]).ok /\ DisconnectBlock(L[i], blk[h], undos[h]).led = l
      BY <3>2, <3>3
    <3>5. LoopStep("disconnect", Going(L[i], undos, At(i), <<>>), h, blk, gd, store)
            = Going(l, undos, Append(At(i), h), <<>>)
      BY <2>7, <3>4, LoopSteps
    <3> HIDE DEF Have
    <3>6. On(i + 1)
      BY <2>3, <2>5, <2>7, <3>1, <3>5 DEF l
    <3> QED
      BY <3>6
  <2>8. CASE On(i) /\ ~(h \in DOMAIN undos /\ h \in store)
    <3>1. LoopStep("disconnect", Going(L[i], undos, At(i), <<>>), h, blk, gd, store)
            = Stopped(L[i], undos, At(i), <<>>)
      BY <2>8, LoopSteps
    <3>2. i \in 0..(i + 1)
      OBVIOUS
    <3>3. Lacks(s, undos, store)
      BY <2>2, <2>8 DEF Lacks, h, n
    <3> HIDE DEF Have
    <3>4. Off(i + 1)
      BY <2>3, <2>8, <3>1, <3>2, <3>3
    <3> QED
      BY <3>4
  <2>9. CASE Off(i)
    <3>1. PICK k \in 0..i : Have(k) /\ d[i] = Stopped(L[k], undos, At(k), <<>>)
      BY <2>9
    <3>2. LoopStep("disconnect", Stopped(L[k], undos, At(k), <<>>), h, blk, gd, store)
            = Stopped(L[k], undos, At(k), <<>>)
      BY LoopSteps
    <3>3. k \in 0..(i + 1)
      OBVIOUS
    <3> HIDE DEF Have
    <3>4. Off(i + 1)
      BY <2>3, <2>9, <3>1, <3>2, <3>3
    <3> QED
      BY <3>4
  <2> QED
    BY <2>4, <2>7, <2>8, <2>9
<1> HIDE DEF T
<1>4. Nat \subseteq T
  BY <1>2, <1>3, SetInduction
<1>5. On(n) \/ Off(n)
  BY <1>1, <1>4 DEF T
<1>6. n \in 0..n
  BY <1>1
<1> QED
  BY <1>5, <1>6

\* K[j] is what the first j blocks of s make of led, as long as they are
\* stored and valid; they can then be connected.
Winds(led, s, blk, gd, store, K) ==
  /\ K[0] = led
  /\ \A j \in 1..Len(s) :
       (\A i \in 1..j : s[i] \in store /\ ValidateTransactions(K[i - 1], blk[s[i]])) =>
         /\ Connectable(K[j - 1], s[j], blk, gd, store)
         /\ K[j] = ApplyBlockWithMerges(K[j - 1], s[j], blk, gd, store).led

\* A valid block that can be connected is connected.
LEMMA ValidatedConnects ==
  ASSUME NEW l \in LedgerType, NEW h, NEW blk, NEW gd, NEW store,
         Connectable(l, h, blk, gd, store), ValidateTransactions(l, blk[h])
  PROVE  ApplyBlockWithMerges(l, h, blk, gd, store).ok
<1> DEFINE b == ApplyBlock(l, blk[h])
           merges == DataOf(gd, h).blues \cap store
           paid == PayMerges(b.led, merges, blk)
<1>1. IsBlock(blk[h])
  BY DEF Connectable
<1>2. b.ok
  BY <1>1, ValidatedBlockApplies
<1>3. b \in AppliedType
  BY <1>1, ApplyBlockType
<1>4. ApplyBlockWithMerges(l, h, blk, gd, store) = AfterBlock(b, merges, blk)
  BY DEF ApplyBlockWithMerges
<1> HIDE DEF b, merges
<1>5. AfterBlock(b, merges, blk) = WithPaid(b, paid)
  BY <1>2 DEF AfterBlock
<1> HIDE DEF paid
<1>6. b = [ok |-> b.ok, led |-> b.led, undo |-> b.undo]
  BY <1>3 DEF AppliedType
<1>7. WithPaid(b, paid).ok = b.ok
  BY <1>6 DEF WithPaid
<1> QED
  BY <1>2, <1>4, <1>5, <1>7

\* The first k blocks of s are connected, and their undo data kept in u.
Wound(k, u, s, blk, gd, store, K) ==
  /\ \A i \in 1..k :
       /\ s[i] \in store /\ ValidateTransactions(K[i - 1], blk[s[i]])
       /\ s[i] \in DOMAIN u
       /\ u[s[i]] = ApplyBlockWithMerges(K[i - 1], s[i], blk, gd, store).undo
  /\ \A i \in 0..k : K[i] \in LedgerType

\* What Wound says of a block.
LEMMA WoundBlock ==
  ASSUME NEW led, NEW S, NEW s \in Seq(S), NEW blk, NEW gd, NEW store, NEW K,
         Winds(led, s, blk, gd, store, K), NEW k \in 0..Len(s), NEW u,
         Wound(k, u, s, blk, gd, store, K), NEW i \in 1..k
  PROVE  LET r == ApplyBlockWithMerges(K[i - 1], s[i], blk, gd, store)
         IN  /\ K[i - 1] \in LedgerType /\ Connectable(K[i - 1], s[i], blk, gd, store)
             /\ r.ok /\ K[i] = r.led /\ u[s[i]] = r.undo
<1>1. i \in 1..Len(s) /\ i - 1 \in 0..k /\ \A j \in 1..i : j \in 1..k
  OBVIOUS
<1>2. K[i - 1] \in LedgerType
  BY <1>1 DEF Wound
<1>3. /\ Connectable(K[i - 1], s[i], blk, gd, store)
      /\ K[i] = ApplyBlockWithMerges(K[i - 1], s[i], blk, gd, store).led
  BY <1>1 DEF Winds, Wound
<1>4. /\ u[s[i]] = ApplyBlockWithMerges(K[i - 1], s[i], blk, gd, store).undo
      /\ ValidateTransactions(K[i - 1], blk[s[i]])
  BY DEF Wound
<1> DEFINE l == K[i - 1]
           h == s[i]
<1> HIDE DEF l, h
<1>5. ApplyBlockWithMerges(l, h, blk, gd, store).ok
  BY <1>2, <1>3, <1>4, ValidatedConnects DEF l, h
<1> QED
  BY <1>2, <1>3, <1>4, <1>5 DEF l, h

\* A sequence in which nothing is twice.
Once(s) == \A i, j \in DOMAIN s : s[i] = s[j] => i = j

\* One more block is connected.
LEMMA WoundNext ==
  ASSUME NEW led, NEW S, NEW s \in Seq(S), Once(s), NEW blk, NEW gd, NEW store, NEW K,
         Winds(led, s, blk, gd, store, K), NEW k \in 0..(Len(s) - 1), NEW u,
         Wound(k, u, s, blk, gd, store, K),
         s[k + 1] \in store, ValidateTransactions(K[k], blk[s[k + 1]])
  PROVE  LET r == ApplyBlockWithMerges(K[k], s[k + 1], blk, gd, store)
         IN  /\ r.ok /\ K[k + 1] = r.led
             /\ Wound(k + 1, Put(u, s[k + 1], r.undo), s, blk, gd, store, K)
<1> DEFINE l == K[k]
           h == s[k + 1]
           r == ApplyBlockWithMerges(l, h, blk, gd, store)
           v == Put(u, h, r.undo)
<1>1. /\ k \in Nat /\ k + 1 \in 1..Len(s) /\ (k + 1) - 1 = k /\ k \in 0..k
      /\ \A i \in 1..(k + 1) : i \in 1..k \/ i = k + 1
      /\ \A i \in 0..(k + 1) : i \in 0..k \/ i = k + 1
      /\ \A i \in 1..k : i \in 1..Len(s) /\ i # k + 1
  OBVIOUS
<1>2. l \in LedgerType
  BY <1>1 DEF Wound
<1>3. \A i \in 1..(k + 1) : s[i] \in store /\ ValidateTransactions(K[i - 1], blk[s[i]])
  BY <1>1 DEF Wound
<1>4. Connectable(l, h, blk, gd, store) /\ K[k + 1] = r.led
  BY <1>1, <1>3 DEF Winds
<1> HIDE DEF l, h
<1>5. r.ok
  BY <1>2, <1>4, ValidatedConnects DEF l, h
<1>6. r.led \in LedgerType
  BY <1>2, <1>4, <1>5, DisconnectRestores
<1> HIDE DEF r
<1>7. h \in DOMAIN v /\ v[h] = r.undo /\ \A x \in DOMAIN u \ {h} : x \in DOMAIN v /\ v[x] = u[x]
  BY DEF Put
<1> HIDE DEF v
<1>8. \A i \in 1..k : s[i] # h
  BY <1>1 DEF Once, h
<1>9. ASSUME NEW i \in 1..(k + 1)
      PROVE  /\ s[i] \in DOMAIN v
             /\ v[s[i]] = ApplyBlockWithMerges(K[i - 1], s[i], blk, gd, store).undo
  <2>1. CASE i \in 1..k
    <3>1. s[i] \in DOMAIN u /\ u[s[i]] = ApplyBlockWithMerges(K[i - 1], s[i], blk, gd, store).undo
      BY <2>1 DEF Wound
    <3> QED
      BY <1>7, <1>8, <2>1, <3>1
  <2>2. CASE i = k + 1
    BY <1>1, <1>7, <2>2 DEF h, r, l
  <2> QED
    BY <1>1, <2>1, <2>2
<1>10. \A i \in 0..(k + 1) : K[i] \in LedgerType
  BY <1>1, <1>4, <1>6 DEF Wound
<1>11. Wound(k + 1, v, s, blk, gd, store, K)
  BY <1>3, <1>9, <1>10 DEF Wound
<1> QED
  BY <1>4, <1>5, <1>11 DEF v, r, l, h

\* Some block of s is not stored, or not valid on the blocks before it.
Invalid(s, blk, store, K) ==
  \E j \in 1..Len(s) : ~(s[j] \in store /\ ValidateTransactions(K[j - 1], blk[s[j]]))

\* u has the undo data of undos but for the blocks of s.
Keeps(undos, u, s) ==
  /\ DOMAIN undos \subseteq DOMAIN u
  /\ \A h \in DOMAIN u : h \in Range(s) \/ (h \in DOMAIN undos /\ u[h] = undos[h])

\* The loop over the new branch: it has connected k blocks and is still going,
\* or it has stopped there because the next block cannot be connected.
LEMMA ConnectLoop ==
  ASSUME NEW led \in LedgerType, NEW undos, NEW g, NEW S, NEW s \in Seq(S), Once(s),
         NEW blk, NEW gd, NEW store, NEW K, Winds(led, s, blk, gd, store, K), NEW c,
         IsLoopRun("connect", Going(led, undos, g, <<>>), s, blk, gd, store, c)
  PROVE  \E k \in 0..Len(s) : \E u :
           /\ Wound(k, u, s, blk, gd, store, K) /\ Keeps(undos, u, s)
           /\ \/ k = Len(s) /\ c[Len(s)] = Going(K[k], u, g, SubSeq(s, 1, k))
              \/ Invalid(s, blk, store, K) /\ c[Len(s)] = Stopped(K[k], u, g, SubSeq(s, 1, k))
<1> DEFINE n == Len(s)
           W(k, u) == Wound(k, u, s, blk, gd, store, K) /\ Keeps(undos, u, s)
           At(k)   == SubSeq(s, 1, k)
           On(i)   == \E u : W(i, u) /\ c[i] = Going(K[i], u, g, At(i))
           Off(i)  == /\ Invalid(s, blk, store, K)
                      /\ \E k \in 0..i : \E u : W(k, u) /\ c[i] = Stopped(K[k], u, g, At(k))
           T == {i \in Nat : i <= n => On(i) \/ Off(i)}
<1>1. n \in Nat
  OBVIOUS
<1>2. 0 \in T
  <2>1. c[0] = Going(led, undos, g, <<>>) /\ K[0] = led
    BY DEF IsLoopRun, Winds
  <2>2. At(0) = <<>>
    OBVIOUS
  <2>3. W(0, undos)
    BY <2>1 DEF Wound, Keeps
  <2> HIDE DEF At, W
  <2>4. On(0)
    BY <2>1, <2>2, <2>3
  <2> QED
    BY <2>4
<1>3. ASSUME NEW i \in Nat, i \in T PROVE i + 1 \in T
  <2>1. SUFFICES ASSUME i + 1 <= n PROVE On(i + 1) \/ Off(i + 1)
    OBVIOUS
  <2> DEFINE h == s[i + 1]
             fits == h \in store /\ ValidateTransactions(K[i], blk[h])
  <2>2. i + 1 \in 1..n /\ (i + 1) - 1 = i /\ i \in 0..n /\ i < n /\ i \in 0..(n - 1)
    BY <1>1, <2>1
  <2>3. c[i + 1] = LoopStep("connect", c[i], h, blk, gd, store)
    BY <2>2 DEF IsLoopRun
  <2>4. On(i) \/ Off(i)
    BY <1>1, <1>3, <2>1
  <2>5. At(i + 1) = Append(At(i), h)
    BY <2>2, PrefixFacts
  <2>6. CASE On(i)
    <3>1. PICK u : W(i, u) /\ c[i] = Going(K[i], u, g, At(i))
      BY <2>6
    <3> DEFINE r == ApplyBlockWithMerges(K[i], h, blk, gd, store)
    <3>2. CASE fits
      <4>1. r.ok /\ K[i + 1] = r.led /\ W(i + 1, Put(u, h, r.undo))
        <5> DEFINE v == Put(u, h, r.undo)
        <5>1. r.ok /\ K[i + 1] = r.led /\ Wound(i + 1, v, s, blk, gd, store, K)
          BY <2>2, <3>1, <3>2, WoundNext
        <5>2. h \in Range(s)
          BY <2>2 DEF Range
        <5> HIDE DEF h, r
        <5>3. DOMAIN v = DOMAIN u \cup {h} /\ \A x \in DOMAIN u \ {h} : v[x] = u[x]
          BY DEF Put
        <5> HIDE DEF v
        <5>4. Keeps(undos, v, s)
          BY <3>1, <5>2, <5>3 DEF Keeps
        <5> QED
          BY <5>1, <5>4 DEF v
      <4> HIDE DEF h, At, W
      <4>2. LoopStep("connect", Going(K[i], u, g, At(i)), h, blk, gd, store)
              = Going(r.led, Put(u, h, r.undo), g, Append(At(i), h))
        BY <3>2, <4>1, LoopSteps
      <4> HIDE DEF r
      <4>3. On(i + 1)
        BY <2>3, <2>5, <3>1, <4>1, <4>2
      <4> QED
        BY <4>3
    <3>3. CASE ~fits
      <4>0. Invalid(s, blk, store, K)
        BY <2>2, <3>3 DEF Invalid
      <4> HIDE DEF h, At, W
      <4>1. LoopStep("connect", Going(K[i], u, g, At(i)), h, blk, gd, store)
              = Stopped(K[i], u, g, At(i))
        BY <3>3, LoopSteps
      <4>2. i \in 0..(i + 1)
        OBVIOUS
      <4>3. Off(i + 1)
        BY <2>3, <3>1, <4>0, <4>1, <4>2
      <4> QED
        BY <4>3
    <3> QED
      BY <3>2, <3>3
  <2>7. CASE Off(i)
    <3> HIDE DEF h, At, W
    <3>0. PICK k \in 0..i : \E u : W(k, u) /\ c[i] = Stopped(K[k], u, g, At(k))
      BY <2>7
    <3>1. PICK u : W(k, u) /\ c[i] = Stopped(K[k], u, g, At(k))
      BY <3>0
    <3>2. LoopStep("connect", Stopped(K[k], u, g, At(k)), h, blk, gd, store)
            = Stopped(K[k], u, g, At(k))
      BY LoopSteps
    <3>3. k \in 0..(i + 1)
      OBVIOUS
    <3>4. Off(i + 1)
      BY <2>3, <2>7, <3>1, <3>2, <3>3
    <3> QED
      BY <3>4
  <2> QED
    BY <2>4, <2>6, <2>7
<1> HIDE DEF T
<1>4. Nat \subseteq T
  BY <1>2, <1>3, SetInduction
<1>5. On(n) \/ Off(n)
  BY <1>1, <1>4 DEF T
<1>6. n \in 0..n
  BY <1>1
<1> HIDE DEF W
<1> QED
  BY <1>5, <1>6 DEF W

\* p is the first k elements of s, the last one first.
Backwards(p, s, k) == Len(p) = k /\ \A i \in 1..k : p[i] = s[(k - i) + 1]

\* a undoes the first k blocks of s, which have been connected on led.
Undoing(led, S, s, blk, gd, store, K, k, u, g, c, p, a) ==
  /\ s \in Seq(S) /\ k \in 0..Len(s)
  /\ Winds(led, s, blk, gd, store, K)
  /\ Wound(k, u, s, blk, gd, store, K)
  /\ Backwards(p, s, k)
  /\ IsLoopRun("undo", Stopped(K[k], u, g, c), p, blk, gd, store, a)

\* The rollback disconnects what the second loop has connected.
LEMMA UndoLoop ==
  ASSUME NEW led, NEW S, NEW s, NEW blk, NEW gd, NEW store, NEW K, NEW k,
         NEW u, NEW g, NEW c, NEW p, NEW a,
         Undoing(led, S, s, blk, gd, store, K, k, u, g, c, p, a)
  PROVE  a[k] = Stopped(led, u, g, c)
<1>0. /\ s \in Seq(S) /\ k \in 0..Len(s)
      /\ Winds(led, s, blk, gd, store, K)
      /\ Wound(k, u, s, blk, gd, store, K)
      /\ Backwards(p, s, k)
      /\ IsLoopRun("undo", Stopped(K[k], u, g, c), p, blk, gd, store, a)
  BY DEF Undoing
<1> DEFINE T == {i \in Nat : i <= k => a[i] = Stopped(K[k - i], u, g, c)}
<1>1. k \in Nat /\ Len(p) = k /\ \A i \in 1..k : p[i] = s[(k - i) + 1]
  BY <1>0 DEF Backwards
<1>2. a[0] = Stopped(K[k], u, g, c)
      /\ \A i \in 1..k : a[i] = LoopStep("undo", a[i - 1], p[i], blk, gd, store)
  BY <1>0, <1>1 DEF IsLoopRun
<1>3. 0 \in T
  BY <1>1, <1>2
<1>4. ASSUME NEW i \in Nat, i \in T PROVE i + 1 \in T
  <2>1. SUFFICES ASSUME i + 1 <= k PROVE a[i + 1] = Stopped(K[k - (i + 1)], u, g, c)
    OBVIOUS
  <2> DEFINE j == k - i
             h == s[j]
             l == K[j - 1]
             r == ApplyBlockWithMerges(l, h, blk, gd, store)
  <2>2. /\ i + 1 \in 1..k /\ (i + 1) - 1 = i /\ j \in 1..k
        /\ (k - (i + 1)) + 1 = j /\ k - (i + 1) = j - 1
    BY <1>0, <1>1, <2>1
  <2>3. a[i] = Stopped(K[j], u, g, c)
    BY <1>4, <2>1, <1>1
  <2>4. a[i + 1] = LoopStep("undo", a[i], h, blk, gd, store)
    <3>1. p[i + 1] = h
      BY <1>1, <2>2
    <3>2. a[i + 1] = LoopStep("undo", a[(i + 1) - 1], p[i + 1], blk, gd, store)
      BY <1>2, <2>2
    <3> QED
      BY <2>2, <3>1, <3>2
  <2>5. l \in LedgerType /\ Connectable(l, h, blk, gd, store) /\ r.ok /\ K[j] = r.led /\ u[h] = r.undo
    <3>1. j \in 1..k
      BY <2>2
    <3> HIDE DEF j
    <3>2. \A m \in 1..k :
            LET x == ApplyBlockWithMerges(K[m - 1], s[m], blk, gd, store)
            IN  /\ K[m - 1] \in LedgerType /\ Connectable(K[m - 1], s[m], blk, gd, store)
                /\ x.ok /\ K[m] = x.led /\ u[s[m]] = x.undo
      BY <1>0, WoundBlock
    <3> QED
      BY <3>1, <3>2
  <2> HIDE DEF l, h, j
  <2>6. DisconnectBlock(r.led, blk[h], r.undo) = [ok |-> TRUE, led |-> l]
    BY <2>5, DisconnectRestores
  <2> HIDE DEF r
  <2>7. DisconnectBlock(K[j], blk[h], u[h]).led = l
    BY <2>5, <2>6
  <2>8. LoopStep("undo", Stopped(K[j], u, g, c), h, blk, gd, store) = Stopped(l, u, g, c)
    BY <2>7, LoopSteps
  <2> QED
    BY <2>2, <2>3, <2>4, <2>8 DEF l
<1> HIDE DEF T
<1>5. Nat \subseteq T
  BY <1>3, <1>4, SetInduction
<1>6. a[k] = Stopped(K[k - k], u, g, c)
  BY <1>1, <1>5 DEF T
<1>7. K[k - k] = led
  BY <1>0, <1>1 DEF Winds
<1> QED
  BY <1>6, <1>7

\* a connects again the first k blocks of s, which have been disconnected.
Redoing(led, undos, S, s, blk, gd, store, L, k, u, g, c, p, a) ==
  /\ s \in Seq(S) /\ k \in 0..Len(s)
  /\ Unwinds(led, undos, s, blk, gd, store, L)
  /\ \A j \in 1..k : s[j] \in DOMAIN undos /\ s[j] \in store
  /\ Backwards(p, s, k)
  /\ IsLoopRun("reconnect", Stopped(L[k], u, g, c), p, blk, gd, store, a)

\* The rollback connects again what the first loop has disconnected.
LEMMA ReconnectLoop ==
  ASSUME NEW led, NEW undos, NEW S, NEW s, NEW blk, NEW gd, NEW store, NEW L, NEW k,
         NEW u, NEW g, NEW c, NEW p, NEW a,
         Redoing(led, undos, S, s, blk, gd, store, L, k, u, g, c, p, a)
  PROVE  \E v : a[k] = Stopped(led, v, g, c)
<1>0. /\ s \in Seq(S) /\ k \in 0..Len(s)
      /\ Unwinds(led, undos, s, blk, gd, store, L)
      /\ \A j \in 1..k : s[j] \in DOMAIN undos /\ s[j] \in store
      /\ Backwards(p, s, k)
      /\ IsLoopRun("reconnect", Stopped(L[k], u, g, c), p, blk, gd, store, a)
  BY DEF Redoing
<1> DEFINE T == {i \in Nat : i <= k => \E v : a[i] = Stopped(L[k - i], v, g, c)}
<1>1. k \in Nat /\ Len(p) = k /\ \A i \in 1..k : p[i] = s[(k - i) + 1]
  BY <1>0 DEF Backwards
<1>2. a[0] = Stopped(L[k], u, g, c)
      /\ \A i \in 1..k : a[i] = LoopStep("reconnect", a[i - 1], p[i], blk, gd, store)
  BY <1>0, <1>1 DEF IsLoopRun
<1>3. 0 \in T
  BY <1>1, <1>2
<1>4. ASSUME NEW i \in Nat, i \in T PROVE i + 1 \in T
  <2>1. SUFFICES ASSUME i + 1 <= k PROVE \E v : a[i + 1] = Stopped(L[k - (i + 1)], v, g, c)
    OBVIOUS
  <2> DEFINE j == k - i
             h == s[j]
             l == L[j]
             r == ApplyBlockWithMerges(l, h, blk, gd, store)
  <2>2. /\ i + 1 \in 1..k /\ (i + 1) - 1 = i /\ j \in 1..k /\ j \in 1..Len(s)
        /\ (k - (i + 1)) + 1 = j /\ k - (i + 1) = j - 1
        /\ \A m \in 1..j : m \in 1..k
    BY <1>0, <1>1, <2>1
  <2>3. PICK v : a[i] = Stopped(l, v, g, c)
    BY <1>4, <2>1, <1>1
  <2>4. a[i + 1] = LoopStep("reconnect", a[i], h, blk, gd, store)
    <3>1. p[i + 1] = h
      BY <1>1, <2>2
    <3>2. a[i + 1] = LoopStep("reconnect", a[(i + 1) - 1], p[i + 1], blk, gd, store)
      BY <1>2, <2>2
    <3> QED
      BY <2>2, <3>1, <3>2
  <2>5. r.ok /\ r.led = L[j - 1]
    <3> HIDE DEF j
    <3> QED
      BY <1>0, <2>2 DEF Unwinds
  <2> HIDE DEF l, h, j
  <2>6. LoopStep("reconnect", Stopped(l, v, g, c), h, blk, gd, store)
          = Stopped(r.led, Put(v, h, r.undo), g, c)
    BY <2>5, LoopSteps
  <2> HIDE DEF r
  <2> QED
    BY <2>2, <2>3, <2>4, <2>5, <2>6
<1> HIDE DEF T
<1>5. Nat \subseteq T
  BY <1>3, <1>4, SetInduction
<1>6. \E v : a[k] = Stopped(L[k - k], v, g, c)
  BY <1>1, <1>5 DEF T
<1>7. L[k - k] = led
  BY <1>0, <1>1 DEF Unwinds
<1> QED
  BY <1>6, <1>7

\* A part of a chain that is no block longer than what the chains share.
LEMMA BranchFacts ==
  ASSUME NEW S, NEW chain \in Seq(S), NEW other \in Seq(S)
  PROVE  /\ Branch(chain, other) \in Seq(S)
         /\ Once(chain) => Once(Branch(chain, other)) /\ Once(Reverse(Branch(chain, other)))
         /\ Reverse(Branch(chain, other)) \in Seq(S)
<1> DEFINE shared == {i \in DOMAIN chain : chain[i] \in Range(other)}
           n == Len(chain)
<1>1. n \in Nat /\ shared \in SUBSET (1..n)
  OBVIOUS
<1>2. PICK k \in 0..n : Branch(chain, other) = SubSeq(chain, 1, k)
  <2>1. CASE shared = {}
    <3>1. Branch(chain, other) = chain
      BY <2>1 DEF Branch
    <3>2. chain = SubSeq(chain, 1, n) /\ n \in 0..n
      <4>1. n \in 0..n
        BY <1>1
      <4>2. SubSeq(chain, 1, n) \in Seq(S) /\ Len(SubSeq(chain, 1, n)) = n
            /\ \A i \in 1..n : SubSeq(chain, 1, n)[i] = chain[i]
        BY <4>1, PrefixFacts
      <4> DEFINE q == SubSeq(chain, 1, n)
      <4> HIDE DEF q
      <4>3. q = [i \in 1..n |-> q[i]] /\ chain = [i \in 1..n |-> chain[i]]
        BY <4>2 DEF q
      <4> QED
        BY <4>1, <4>2, <4>3 DEF q
    <3> QED
      BY <3>1, <3>2
  <2>2. CASE shared # {}
    <3>1. Branch(chain, other) = SubSeq(chain, 1, Min(shared) - 1)
      BY <2>2 DEF Branch
    <3>2. Min(shared) \in shared
      <4> HIDE DEF shared, n
      <4> QED
        BY <1>1, <2>2, MinOfSet
    <3> DEFINE m == Min(shared)
    <3> HIDE DEF shared, n, m
    <3>3. m \in 1..n /\ n \in Nat
      BY <1>1, <3>2 DEF m
    <3>4. m - 1 \in 0..n
      BY <3>3
    <3> QED
      BY <3>1, <3>4 DEF m
  <2> QED
    BY <2>1, <2>2, SMTT(30)
<1> DEFINE b == SubSeq(chain, 1, k)
           r == Reverse(b)
<1>3. /\ b \in Seq(S) /\ Len(b) = k /\ r \in Seq(S) /\ Len(r) = k
      /\ \A i \in 1..k : b[i] = chain[i] /\ r[i] = chain[(k - i) + 1]
  BY PrefixFacts
<1> HIDE DEF b, r
<1>4. DOMAIN b = 1..k /\ DOMAIN r = 1..k
  BY <1>3
<1>5. ASSUME Once(chain) PROVE Once(b) /\ Once(r)
  <2>1. \A i, j \in 1..k : chain[i] = chain[j] => i = j
    BY <1>1, <1>5 DEF Once
  <2>2. \A i, j \in 1..k : (k - i) + 1 \in 1..k /\ ((k - i) + 1 = (k - j) + 1 => i = j)
    BY <1>1
  <2>3. Once(b)
    BY <1>3, <1>4, <2>1 DEF Once
  <2>4. Once(r)
    BY <1>3, <1>4, <2>1, <2>2, SMTT(30) DEF Once
  <2> QED
    BY <2>3, <2>4
<1> QED
  BY <1>2, <1>3, <1>5 DEF b, r

\* What a loop that goes on or has stopped hands on.
LEMMA AccFields ==
  ASSUME NEW l, NEW u, NEW g, NEW c
  PROVE  /\ Going(l, u, g, c).ok /\ Going(l, u, g, c).led = l /\ Going(l, u, g, c).undos = u
         /\ ~Stopped(l, u, g, c).ok /\ Stopped(l, u, g, c).led = l
         /\ Stopped(l, u, g, c).gone = g /\ Stopped(l, u, g, c).come = c
BY DEF Going, Stopped, Acc

\* A branch that could not be disconnected is not followed by another one.
LEMMA ConnectStopped ==
  ASSUME NEW l, NEW u, NEW g, NEW q, NEW S, NEW s \in Seq(S), NEW blk, NEW gd, NEW store, NEW c,
         IsLoopRun("connect", Stopped(l, u, g, q), s, blk, gd, store, c)
  PROVE  c[Len(s)] = Stopped(l, u, g, q)
<1> DEFINE n == Len(s)
           T == {i \in Nat : i <= n => c[i] = Stopped(l, u, g, q)}
<1>1. n \in Nat
  OBVIOUS
<1>2. 0 \in T
  BY DEF IsLoopRun
<1>3. ASSUME NEW i \in Nat, i \in T PROVE i + 1 \in T
  <2>1. SUFFICES ASSUME i + 1 <= n PROVE c[i + 1] = Stopped(l, u, g, q)
    OBVIOUS
  <2>2. i + 1 \in 1..n /\ (i + 1) - 1 = i /\ c[i] = Stopped(l, u, g, q)
    BY <1>1, <1>3, <2>1
  <2> DEFINE h == s[i + 1]
  <2>3. c[i + 1] = LoopStep("connect", Stopped(l, u, g, q), h, blk, gd, store)
    BY <2>2 DEF IsLoopRun
  <2> HIDE DEF h
  <2> QED
    BY <2>3, LoopSteps
<1> HIDE DEF T
<1>4. Nat \subseteq T
  BY <1>2, <1>3, SetInduction
<1> QED
  BY <1>1, <1>4 DEF T

\* reorganize has disconnected k blocks of o and connected m blocks of n.
Halfway(led, undos, S, o, n, blk, gd, store, L, k, K, m, u) ==
  /\ o \in Seq(S) /\ n \in Seq(S) /\ k \in 0..Len(o) /\ m \in 0..Len(n)
  /\ Unwinds(led, undos, o, blk, gd, store, L)
  /\ \A j \in 1..k : o[j] \in DOMAIN undos /\ o[j] \in store
  /\ Winds(L[k], n, blk, gd, store, K)
  /\ Wound(m, u, n, blk, gd, store, K)

\* The rollback leads back to the ledger before the first loop.
LEMMA RollBackRestores ==
  ASSUME NEW led, NEW undos, NEW S, NEW o, NEW n, NEW blk, NEW gd, NEW store,
         NEW L, NEW k, NEW K, NEW m, NEW u,
         Halfway(led, undos, S, o, n, blk, gd, store, L, k, K, m, u)
  PROVE  \E v : RollBack(Stopped(K[m], u, SubSeq(o, 1, k), SubSeq(n, 1, m)), blk, gd, store)
                  = Stopped(led, v, SubSeq(o, 1, k), SubSeq(n, 1, m))
<1>0. /\ o \in Seq(S) /\ n \in Seq(S) /\ k \in 0..Len(o) /\ m \in 0..Len(n)
      /\ Unwinds(led, undos, o, blk, gd, store, L)
      /\ \A j \in 1..k : o[j] \in DOMAIN undos /\ o[j] \in store
      /\ Winds(L[k], n, blk, gd, store, K)
      /\ Wound(m, u, n, blk, gd, store, K)
  BY DEF Halfway
<1> DEFINE g == SubSeq(o, 1, k)
           c == SubSeq(n, 1, m)
           rg == Reverse(g)
           rc == Reverse(c)
           acc == Stopped(K[m], u, g, c)
<1>1. /\ rg \in Seq(S) /\ Len(rg) = k /\ Backwards(rg, o, k)
      /\ rc \in Seq(S) /\ Len(rc) = m /\ Backwards(rc, n, m)
  BY <1>0, PrefixFacts DEF Backwards
<1>2. RollBack(acc, blk, gd, store)
        = ReconnectAll(UndoAll(acc, rc, blk, gd, store), rg, blk, gd, store)
  <2>1. RollBack(acc, blk, gd, store)
          = ReconnectAll(UndoAll(acc, Reverse(acc.come), blk, gd, store),
                         Reverse(acc.gone), blk, gd, store)
    BY DEF RollBack, ReconnectAll, UndoAll
  <2>2. acc.come = c /\ acc.gone = g
    <3> HIDE DEF c, g
    <3> QED
      BY AccFields
  <2> HIDE DEF acc, c, g
  <2> QED
    BY <2>1, <2>2 DEF rc, rg
<1>3. UndoAll(acc, rc, blk, gd, store) = Stopped(L[k], u, g, c)
  <2>1. PICK a : /\ IsLoopRun("undo", acc, rc, blk, gd, store, a)
                 /\ UndoAll(acc, rc, blk, gd, store) = a[Len(rc)]
    <3>1. rc \in Seq(S)
      BY <1>1
    <3> HIDE DEF acc, rc
    <3> QED
      BY <3>1, UndoRuns
  <2>2. IsLoopRun("undo", Stopped(K[m], u, g, c), rc, blk, gd, store, a)
    BY <2>1
  <2> HIDE DEF g, c, rc, rg, acc
  <2>3. Undoing(L[k], S, n, blk, gd, store, K, m, u, g, c, rc, a)
    BY <1>0, <1>1, <2>2 DEF Undoing
  <2>4. a[m] = Stopped(L[k], u, g, c)
    BY <2>3, UndoLoop
  <2> QED
    BY <1>1, <2>1, <2>4
<1> DEFINE mid == Stopped(L[k], u, g, c)
<1>4. PICK b : /\ IsLoopRun("reconnect", mid, rg, blk, gd, store, b)
               /\ ReconnectAll(mid, rg, blk, gd, store) = b[Len(rg)]
  <2> HIDE DEF mid, rg
  <2> QED
    BY <1>1, ReconnectRuns
<1>5. \E v : b[k] = Stopped(led, v, g, c)
  <2>1. IsLoopRun("reconnect", Stopped(L[k], u, g, c), rg, blk, gd, store, b)
    BY <1>4
  <2> HIDE DEF g, c, rc, rg
  <2>2. Redoing(led, undos, S, o, blk, gd, store, L, k, u, g, c, rg, b)
    BY <1>0, <1>1, <2>1 DEF Redoing
  <2> QED
    BY <2>2, ReconnectLoop
<1> HIDE DEF mid, rg, rc, acc
<1>6. RollBack(acc, blk, gd, store) = b[k]
  BY <1>1, <1>2, <1>3, <1>4 DEF mid
<1> QED
  BY <1>5, <1>6 DEF acc

\* The blocks that reorganize disconnects, newest first, and those that it
\* connects, oldest first.
OldBranch(gd, old, new) == Branch(SelectedChain(gd, old), SelectedChain(gd, new))
NewBranch(gd, old, new) == Reverse(Branch(SelectedChain(gd, new), SelectedChain(gd, old)))

\* What is true of a reorganization that has ended.
Atomic(r, led, undos, o, n, blk, gd, store, K) ==
  /\ r.ok => /\ r.led = K[Len(n)]
             /\ Wound(Len(n), r.undos, n, blk, gd, store, K)
             /\ Keeps(undos, r.undos, n)
  /\ ~r.ok => /\ r.led = led
              /\ Lacks(o, undos, store) \/ Invalid(n, blk, store, K)

\* The ledger after the first loop is a ledger.
LEMMA UnwoundType ==
  ASSUME NEW led \in LedgerType, NEW undos, NEW S, NEW s \in Seq(S), NEW blk, NEW gd,
         NEW store, NEW L, Unwinds(led, undos, s, blk, gd, store, L), NEW k \in 0..Len(s),
         \A j \in 1..k : s[j] \in DOMAIN undos /\ s[j] \in store
  PROVE  L[k] \in LedgerType
<1>1. CASE k = 0
  BY <1>1 DEF Unwinds
<1>2. CASE k # 0
  <2>1. k \in 1..Len(s)
    BY <1>2
  <2> QED
    BY <2>1 DEF Unwinds
<1> QED
  BY <1>1, <1>2

\* The second loop and the rollback, when the first loop has run to its end.
LEMMA SwitchEnds ==
  ASSUME NEW led \in LedgerType, NEW undos, NEW S, NEW o \in Seq(S), NEW n \in Seq(S), Once(n),
         NEW blk, NEW gd, NEW store, NEW L, Unwinds(led, undos, o, blk, gd, store, L),
         NEW k \in 0..Len(o), \A j \in 1..k : o[j] \in DOMAIN undos /\ o[j] \in store,
         NEW K, Winds(L[k], n, blk, gd, store, K),
         NEW dis, dis = Going(L[k], undos, SubSeq(o, 1, k), <<>>)
  PROVE  Atomic(KeepOrRollBack(ConnectAll(dis, n, blk, gd, store), blk, gd, store),
                led, undos, o, n, blk, gd, store, K)
<1> DEFINE l == L[k]
           g == SubSeq(o, 1, k)
           con == ConnectAll(dis, n, blk, gd, store)
<1>1. l \in LedgerType
  BY UnwoundType
<1>2. PICK c : IsLoopRun("connect", dis, n, blk, gd, store, c) /\ con = c[Len(n)]
  BY ConnectRuns
<1>3. PICK m \in 0..Len(n) : \E u :
        /\ Wound(m, u, n, blk, gd, store, K) /\ Keeps(undos, u, n)
        /\ \/ m = Len(n) /\ con = Going(K[m], u, g, SubSeq(n, 1, m))
           \/ Invalid(n, blk, store, K) /\ con = Stopped(K[m], u, g, SubSeq(n, 1, m))
  <2>1. IsLoopRun("connect", Going(l, undos, g, <<>>), n, blk, gd, store, c)
    BY <1>2
  <2>2. Winds(l, n, blk, gd, store, K)
    OBVIOUS
  <2> HIDE DEF l, g, con
  <2> QED
    BY <1>1, <1>2, <2>1, <2>2, ConnectLoop
<1>4. PICK u : /\ Wound(m, u, n, blk, gd, store, K) /\ Keeps(undos, u, n)
               /\ \/ m = Len(n) /\ con = Going(K[m], u, g, SubSeq(n, 1, m))
                  \/ Invalid(n, blk, store, K) /\ con = Stopped(K[m], u, g, SubSeq(n, 1, m))
  BY <1>3
<1> DEFINE q == SubSeq(n, 1, m)
           e == K[m]
<1>5. CASE m = Len(n) /\ con = Going(e, u, g, q)
  <2> HIDE DEF con, g, q, e
  <2>1. con.ok /\ con.led = e /\ con.undos = u
    BY <1>5, AccFields
  <2>2. KeepOrRollBack(con, blk, gd, store) = con
    BY <2>1 DEF KeepOrRollBack
  <2>3. e = K[Len(n)] /\ Wound(Len(n), u, n, blk, gd, store, K)
    BY <1>4, <1>5 DEF e
  <2>4. Atomic(con, led, undos, o, n, blk, gd, store, K)
    BY <1>4, <2>1, <2>3 DEF Atomic
  <2> QED
    BY <2>2, <2>4 DEF con
<1>6. CASE Invalid(n, blk, store, K) /\ con = Stopped(e, u, g, q)
  <2>1. PICK v : RollBack(Stopped(e, u, g, q), blk, gd, store) = Stopped(led, v, g, q)
    <3>1. Halfway(led, undos, S, o, n, blk, gd, store, L, k, K, m, u)
      BY <1>4 DEF Halfway
    <3> QED
      BY <3>1, RollBackRestores
  <2> HIDE DEF con, g, q, e
  <2>2. ~con.ok
    BY <1>6, AccFields
  <2>3. KeepOrRollBack(con, blk, gd, store) = Stopped(led, v, g, q)
    BY <1>6, <2>1, <2>2 DEF KeepOrRollBack
  <2> DEFINE r == Stopped(led, v, g, q)
  <2>4. ~r.ok /\ r.led = led
    BY AccFields
  <2> HIDE DEF r
  <2>5. Atomic(r, led, undos, o, n, blk, gd, store, K)
    BY <1>6, <2>4 DEF Atomic
  <2> QED
    BY <2>3, <2>5 DEF con, r
<1> QED
  BY <1>4, <1>5, <1>6

\* The rollback, when the first loop has stopped.
LEMMA SwitchStops ==
  ASSUME NEW led \in LedgerType, NEW undos, NEW S, NEW o \in Seq(S), NEW n \in Seq(S),
         NEW blk, NEW gd, NEW store, NEW L, Unwinds(led, undos, o, blk, gd, store, L),
         NEW k \in 0..Len(o), \A j \in 1..k : o[j] \in DOMAIN undos /\ o[j] \in store,
         Lacks(o, undos, store), NEW K, NEW dis, dis = Stopped(L[k], undos, SubSeq(o, 1, k), <<>>)
  PROVE  Atomic(KeepOrRollBack(ConnectAll(dis, n, blk, gd, store), blk, gd, store),
                led, undos, o, n, blk, gd, store, K)
<1> DEFINE l == L[k]
           g == SubSeq(o, 1, k)
           con == ConnectAll(dis, n, blk, gd, store)
           none == [i \in {0} |-> l]
<1>1. l \in LedgerType
  BY UnwoundType
<1>2. PICK c : IsLoopRun("connect", dis, n, blk, gd, store, c) /\ con = c[Len(n)]
  BY ConnectRuns
<1>3. con = Stopped(l, undos, g, <<>>)
  <2>1. IsLoopRun("connect", Stopped(l, undos, g, <<>>), n, blk, gd, store, c)
    BY <1>2
  <2> HIDE DEF l, g, con
  <2> QED
    BY <1>2, <2>1, ConnectStopped
<1>4. PICK v : RollBack(Stopped(l, undos, g, <<>>), blk, gd, store) = Stopped(led, v, g, <<>>)
  <2>1. <<>> \in Seq(S) /\ Len(<<>>) = 0 /\ 0 \in 0..Len(<<>>) /\ SubSeq(<<>>, 1, 0) = <<>>
    OBVIOUS
  <2>2. none[0] = l
    OBVIOUS
  <2>3. Winds(l, <<>>, blk, gd, store, none)
    <3> HIDE DEF none, l
    <3> QED
      BY <2>1, <2>2 DEF Winds
  <2>4. Wound(0, undos, <<>>, blk, gd, store, none)
    <3> HIDE DEF none, l
    <3>1. \A i \in 0..0 : i = 0
      OBVIOUS
    <3>2. \A i \in 1..0 : FALSE
      OBVIOUS
    <3> QED
      BY <1>1, <2>2, <3>1, <3>2 DEF Wound
  <2>5. \E v : RollBack(Stopped(none[0], undos, SubSeq(o, 1, k), SubSeq(<<>>, 1, 0)), blk, gd, store)
                = Stopped(led, v, SubSeq(o, 1, k), SubSeq(<<>>, 1, 0))
    <3> HIDE DEF none
    <3>1. Halfway(led, undos, S, o, <<>>, blk, gd, store, L, k, none, 0, undos)
      BY <2>1, <2>3, <2>4 DEF Halfway
    <3> QED
      BY <3>1, RollBackRestores
  <2> HIDE DEF none, l
  <2> QED
    BY <2>1, <2>2, <2>5 DEF g
<1> HIDE DEF con, g, l
<1>5. ~con.ok
  BY <1>3, AccFields
<1>6. KeepOrRollBack(con, blk, gd, store) = Stopped(led, v, g, <<>>)
  BY <1>3, <1>4, <1>5 DEF KeepOrRollBack
<1> DEFINE r == Stopped(led, v, g, <<>>)
<1>7. ~r.ok /\ r.led = led
  BY AccFields
<1> HIDE DEF r
<1>8. Atomic(r, led, undos, o, n, blk, gd, store, K)
  BY <1>7 DEF Atomic
<1> QED
  BY <1>6, <1>8 DEF con, r

\* BlockProcessor::reorganize switches the ledger to the new branch or leaves it
\* as it was: when every block of the old branch that has undo data was connected
\* where it stands (Unwinds) and the new branch can be connected on the fork
\* point (Winds), a reorganization that succeeds ends in the ledger of the new
\* tip and keeps undo data of every block it connected, and one that fails, in
\* either loop and after any number of blocks, hands back the ledger it was given.
THEOREM ReorganizeIsAtomic ==
  ASSUME NEW led \in LedgerType, NEW undos, NEW old, NEW new, old # new,
         NEW blk, NEW gd, NEW store, NEW S,
         SelectedChain(gd, old) \in Seq(S), SelectedChain(gd, new) \in Seq(S),
         Once(SelectedChain(gd, new)), NEW L, NEW K,
         Unwinds(led, undos, OldBranch(gd, old, new), blk, gd, store, L),
         (\A j \in 1..Len(OldBranch(gd, old, new)) :
            OldBranch(gd, old, new)[j] \in DOMAIN undos /\ OldBranch(gd, old, new)[j] \in store)
           => Winds(L[Len(OldBranch(gd, old, new))], NewBranch(gd, old, new), blk, gd, store, K)
  PROVE  Atomic(Reorganize(led, undos, old, new, blk, gd, store), led,
                undos, OldBranch(gd, old, new), NewBranch(gd, old, new), blk, gd, store, K)
<1> DEFINE o == OldBranch(gd, old, new)
           n == NewBranch(gd, old, new)
           start == Going(led, undos, <<>>, <<>>)
           dis == DisconnectAll(start, o, blk, gd, store)
           end == KeepOrRollBack(ConnectAll(dis, n, blk, gd, store), blk, gd, store)
<1>1. o \in Seq(S) /\ n \in Seq(S) /\ Once(n)
  BY BranchFacts DEF OldBranch, NewBranch
<1>2. Reorganize(led, undos, old, new, blk, gd, store) = end
  BY DEF Reorganize, SwitchBranch, DisconnectAll, ConnectAll, OldBranch, NewBranch, Going, Acc
<1> HIDE DEF o, n
<1>3. PICK d : IsLoopRun("disconnect", start, o, blk, gd, store, d) /\ dis = d[Len(o)]
  <2> HIDE DEF start
  <2> QED
    BY <1>1, DisconnectRuns
<1>4. PICK k \in 0..Len(o) :
        /\ \A j \in 1..k : o[j] \in DOMAIN undos /\ o[j] \in store
        /\ \/ k = Len(o) /\ dis = Going(L[k], undos, SubSeq(o, 1, k), <<>>)
           \/ Lacks(o, undos, store) /\ dis = Stopped(L[k], undos, SubSeq(o, 1, k), <<>>)
  <2>1. Unwinds(led, undos, o, blk, gd, store, L)
    BY DEF o
  <2> HIDE DEF dis
  <2> QED
    BY <1>1, <1>3, <2>1, DisconnectLoop
<1> HIDE DEF start, dis
<1>5. Unwinds(led, undos, o, blk, gd, store, L)
  BY DEF o
<1>6. Atomic(end, led, undos, o, n, blk, gd, store, K)
  <2>1. CASE k = Len(o) /\ dis = Going(L[k], undos, SubSeq(o, 1, k), <<>>)
    <3>1. Winds(L[k], n, blk, gd, store, K)
      BY <1>4, <2>1 DEF o, n
    <3> QED
      BY <1>1, <1>4, <1>5, <2>1, <3>1, SwitchEnds
  <2>2. CASE Lacks(o, undos, store) /\ dis = Stopped(L[k], undos, SubSeq(o, 1, k), <<>>)
    BY <1>1, <1>4, <1>5, <2>2, SwitchStops
  <2> QED
    BY <1>4, <2>1, <2>2
<1> QED
  BY <1>2, <1>6 DEF o, n

----------------------------------------------------------------------------
(* Where the entries of the UTXO set come from                             *)

\* Entry op of u is that of v, or output op of the transaction.
Stays(u, v, op) == op \in DOMAIN v /\ u[op] = v[op]
Made(u, tx, height, op) == op \in OutPoints(tx) /\ u[op] = Entries(tx, height)[op]

\* A transaction leaves old entries and its own, also when it fails.
LEMMA ApplyEntries ==
  ASSUME NEW led \in LedgerType, NEW tx \in TxType, NEW height \in Nat
  PROVE  LET u == ApplyTransaction(led, tx, height).led.utxo
         IN  \A op \in DOMAIN u : Stays(u, led.utxo, op) \/ Made(u, tx, height, op)
<1> DEFINE r == ApplyTransaction(led, tx, height)
           v == led.utxo
           ops == TakenOps(tx, Taken(v, tx))
           rest == Without(v, ops)
           new == Entries(tx, height)
<1>1. /\ r.ok => r.led = [utxo |-> Over(new, rest), burned |-> led.burned + TotalBurn(tx)]
      /\ ~r.ok => r.led = [utxo |-> rest, burned |-> led.burned]
  BY ApplyType
<1>2. v \in UtxoType
  BY DEF LedgerType
<1>3. new \in UtxoType /\ DOMAIN new = OutPoints(tx)
  BY EntriesType
<1> HIDE DEF v, ops, new, r
<1>4. rest \in UtxoType /\ DOMAIN rest = DOMAIN v \ ops
      /\ \A op \in DOMAIN v \ ops : rest[op] = v[op]
  BY <1>2, WithoutType
<1> HIDE DEF rest
<1>5. /\ DOMAIN Over(new, rest) = DOMAIN new \cup DOMAIN rest
      /\ \A op \in DOMAIN new : Over(new, rest)[op] = new[op]
      /\ \A op \in DOMAIN rest \ DOMAIN new : Over(new, rest)[op] = rest[op]
  BY <1>3, <1>4, OverType
<1>6. ASSUME NEW u, u = Over(new, rest) \/ u = rest, NEW op \in DOMAIN u
      PROVE  Stays(u, v, op) \/ (op \in OutPoints(tx) /\ u[op] = new[op])
  BY <1>3, <1>4, <1>5, <1>6 DEF Stays
<1>7. r.led.utxo = Over(new, rest) \/ r.led.utxo = rest
  BY <1>1
<1> QED
  BY <1>6, <1>7 DEF Made, r, v, new

\* A block leaves old entries and those of its transactions.
LEMMA BlockEntries ==
  ASSUME NEW led \in LedgerType, NEW block, IsBlock(block)
  PROVE  LET u == ApplyBlock(led, block).led.utxo
         IN  \A op \in DOMAIN u :
               \/ Stays(u, led.utxo, op)
               \/ \E i \in DOMAIN block.txs : Made(u, block.txs[i], block.score, op)
<1>1. PICK a : IsBlockRun(led, block, a) /\ ApplyBlock(led, block) = a[Len(block.txs)]
  BY BlockRunExists
<1> DEFINE n == Len(block.txs)
           U(k) == a[k].led.utxo
           Own(k, op) == \/ Stays(U(k), led.utxo, op)
                         \/ \E i \in DOMAIN block.txs : Made(U(k), block.txs[i], block.score, op)
           T == {k \in Nat : k <= n => \A op \in DOMAIN U(k) : Own(k, op)}
<1>2. /\ n \in Nat /\ DOMAIN block.txs = 1..n /\ block.score \in Nat /\ U(0) = led.utxo
      /\ \A k \in 0..n : a[k].led \in LedgerType
      /\ \A k \in 1..n : block.txs[k] \in TxType
  BY <1>1, RunTypes
<1>3. \A k \in 1..n : a[k] = ApplyNext(a[k - 1], block.txs[k], block.score)
  BY <1>1 DEF IsBlockRun
<1>4. \A k \in 0..n : a[k] \in AppliedType
  BY <1>1 DEF IsBlockRun
<1>5. 0 \in T
  BY <1>2 DEF Stays
<1>6. ASSUME NEW k \in Nat, k \in T PROVE k + 1 \in T
  <2>1. SUFFICES ASSUME k + 1 <= n, NEW op \in DOMAIN U(k + 1) PROVE Own(k + 1, op)
    OBVIOUS
  <2> DEFINE tx == block.txs[k + 1]
             r  == ApplyTransaction(a[k].led, tx, block.score)
  <2>2. k + 1 \in 1..n /\ (k + 1) - 1 = k /\ k \in 0..n /\ k <= n
    BY <1>2, <2>1
  <2>3. a[k + 1] = ApplyNext(a[k], tx, block.score)
    BY <1>3, <2>2
  <2>4. a[k].led \in LedgerType /\ tx \in TxType /\ block.score \in Nat /\ k + 1 \in DOMAIN block.txs
    BY <1>2, <2>2
  <2>5. \A p \in DOMAIN r.led.utxo : Stays(r.led.utxo, U(k), p) \/ Made(r.led.utxo, tx, block.score, p)
    BY <2>4, ApplyEntries
  <2> HIDE DEF r
  <2>6. a[k + 1].led = a[k].led \/ a[k + 1].led = r.led
    BY <2>3 DEF ApplyNext, AfterTransaction, r
  <2>7. Stays(U(k + 1), U(k), op) \/ Made(U(k + 1), tx, block.score, op)
    <3>1. CASE a[k + 1].led = a[k].led
      BY <2>1, <3>1 DEF Stays
    <3>2. CASE a[k + 1].led = r.led
      BY <2>1, <2>5, <3>2
    <3> QED
      BY <2>6, <3>1, <3>2
  <2>8. CASE Stays(U(k + 1), U(k), op)
    <3>1. op \in DOMAIN U(k) /\ U(k + 1)[op] = U(k)[op]
      BY <2>8 DEF Stays
    <3>2. Own(k, op)
      BY <1>6, <2>2, <3>1
    <3> QED
      BY <3>1, <3>2 DEF Stays, Made
  <2>9. CASE Made(U(k + 1), tx, block.score, op)
    BY <2>4, <2>9
  <2> QED
    BY <2>7, <2>8, <2>9
<1> HIDE DEF T
<1>7. Nat \subseteq T
  BY <1>5, <1>6, SetInduction
<1>8. n \in T /\ n <= n
  BY <1>2, <1>7
<1> QED
  BY <1>1, <1>8 DEF T

\* What the transactions of a block create and spend.
Created(block) == UNION {OutPoints(block.txs[i]) : i \in DOMAIN block.txs}
Used(block) == UNION {Spends(block.txs[i]) : i \in DOMAIN block.txs}

\* A coinbase has no inputs.
Bare(block) == \A i \in DOMAIN block.txs : block.txs[i].coinbase => block.txs[i].inputs = <<>>

\* A block adds exactly its outputs and takes exactly what it spends.
LEMMA BlockDomain ==
  ASSUME NEW led \in LedgerType, NEW block, IsBlock(block), FreshBlock(block, led.utxo),
         ApplyBlock(led, block).ok, Bare(block)
  PROVE  /\ DOMAIN ApplyBlock(led, block).led.utxo
              = (DOMAIN led.utxo \cup Created(block)) \ Used(block)
         /\ Used(block) \subseteq DOMAIN led.utxo \cup Created(block)
<1>1. PICK a : IsBlockRun(led, block, a) /\ ApplyBlock(led, block) = a[Len(block.txs)]
  BY BlockRunExists
<1> DEFINE n == Len(block.txs)
           U(k) == DOMAIN a[k].led.utxo
           O(k) == OutPoints(block.txs[k])
           S(k) == Spends(block.txs[k])
           Some(k, op) == op \in U(0) \/ \E i \in 1..k : op \in O(i)
           T == {k \in Nat : k <= n =>
                   /\ \A op : op \in U(k) <=> Some(k, op) /\ \A i \in 1..k : op \notin S(i)
                   /\ \A i \in 1..k : \A op \in S(i) : Some(k, op)}
<1>2. /\ n \in Nat /\ DOMAIN block.txs = 1..n /\ block.score \in Nat /\ U(0) = DOMAIN led.utxo
      /\ \A k \in 0..n : a[k].led \in LedgerType
      /\ \A k \in 1..n : block.txs[k] \in TxType
  BY <1>1, RunTypes
<1>3. \A k \in 1..n : O(k) \cap U(k - 1) = {}
  <2>1. \A k \in 1..n : Fresh(block.txs[k], a[k - 1].led.utxo)
    BY <1>1, FreshInTurn
  <2> QED
    BY <2>1 DEF Fresh
<1>4. \A k \in 1..n : U(k) = O(k) \cup (U(k - 1) \ S(k)) /\ S(k) \subseteq U(k - 1)
  <2>0. \A k \in 1..n : /\ ApplyTransaction(a[k - 1].led, block.txs[k], block.score).ok
                       /\ a[k].led = ApplyTransaction(a[k - 1].led, block.txs[k], block.score).led
    <3>1. a[Len(block.txs)].ok
      BY <1>1
    <3> QED
      BY <1>1, <3>1, RunSteps, ZenonT(30)
  <2>1. TAKE k \in 1..n
  <2> DEFINE l == a[k - 1].led
             tx == block.txs[k]
             r == ApplyTransaction(l, tx, block.score)
  <2>2. l \in LedgerType /\ tx \in TxType /\ block.score \in Nat
    BY <1>2
  <2>3. r.ok /\ a[k].led = r.led
    BY <2>0
  <2>4. Consumed(tx) = Spends(tx)
    <3>1. tx.coinbase => tx.inputs = <<>>
      BY <1>2 DEF Bare
    <3>2. tx.inputs = <<>> => Spends(tx) = {}
      BY DEF Spends
    <3> QED
      BY <3>1, <3>2 DEF Consumed
  <2>5. k - 1 \in 0..n
    BY <1>2
  <2> HIDE DEF l, tx
  <2>6. /\ DOMAIN r.led.utxo = OutPoints(tx) \cup (DOMAIN l.utxo \ Consumed(tx))
        /\ Consumed(tx) \subseteq DOMAIN l.utxo
    BY <2>2, <2>3, AppliedEntries
  <2> QED
    BY <2>3, <2>4, <2>6 DEF l, tx
<1>5. \A k \in 1..n : O(k) \cap U(0) = {}
  BY <1>2 DEF FreshBlock, Fresh
<1>6. \A i, k \in 1..n : i # k => O(i) \cap O(k) = {}
  BY <1>2 DEF FreshBlock
<1> HIDE DEF n, U, O, S
<1>7. 0 \in T
  OBVIOUS
<1>8. ASSUME NEW k \in Nat, k \in T PROVE k + 1 \in T
  <2>1. SUFFICES ASSUME k + 1 <= n
                 PROVE  /\ \A op : op \in U(k + 1)
                             <=> Some(k + 1, op) /\ \A i \in 1..(k + 1) : op \notin S(i)
                        /\ \A i \in 1..(k + 1) : \A op \in S(i) : Some(k + 1, op)
    OBVIOUS
  <2>2. k + 1 \in 1..n /\ (k + 1) - 1 = k /\ k <= n
    BY <1>2, <2>1
  <2>3. /\ \A op : op \in U(k) <=> Some(k, op) /\ \A i \in 1..k : op \notin S(i)
        /\ \A i \in 1..k : \A op \in S(i) : Some(k, op)
    BY <1>8, <2>2
  <2>4. \A i \in 1..(k + 1) : i \in 1..k \/ i = k + 1
    OBVIOUS
  <2>5. \A i \in 1..k : i \in 1..(k + 1) /\ i \in 1..n /\ i # k + 1
    BY <1>2, <2>2
  <2>6. k + 1 \in 1..(k + 1)
    OBVIOUS
  <2>7. \A op : Some(k + 1, op) <=> Some(k, op) \/ op \in O(k + 1)
    BY <2>4, <2>5, <2>6
  <2>8. U(k + 1) = O(k + 1) \cup (U(k) \ S(k + 1)) /\ S(k + 1) \subseteq U(k)
        /\ O(k + 1) \cap U(k) = {}
    BY <1>3, <1>4, <2>2
  <2>9. \A op \in O(k + 1) : ~Some(k, op)
    BY <1>5, <1>6, <2>2, <2>5
  <2> HIDE DEF Some
  <2>10. ASSUME NEW op
         PROVE  op \in U(k + 1) <=> Some(k + 1, op) /\ \A i \in 1..(k + 1) : op \notin S(i)
    <3>1. (\A i \in 1..(k + 1) : op \notin S(i))
            <=> (\A i \in 1..k : op \notin S(i)) /\ op \notin S(k + 1)
      BY <2>4, <2>5, <2>6
    <3>2. CASE op \in O(k + 1)
      BY <2>3, <2>7, <2>8, <2>9, <3>1, <3>2
    <3>3. CASE op \notin O(k + 1)
      BY <2>3, <2>7, <2>8, <3>1, <3>3
    <3> QED
      BY <3>2, <3>3
  <2>11. ASSUME NEW i \in 1..(k + 1), NEW op \in S(i) PROVE Some(k + 1, op)
    <3>1. CASE i \in 1..k
      BY <2>3, <2>7, <3>1
    <3>2. CASE i = k + 1
      BY <2>3, <2>7, <2>8, <3>2
    <3> QED
      BY <2>4, <3>1, <3>2
  <2> QED
    BY <2>10, <2>11
<1> HIDE DEF T
<1>9. Nat \subseteq T
  BY <1>7, <1>8, SetInduction
<1>10. n \in T /\ n <= n
  BY <1>2, <1>9
<1>11. /\ \A op : op \in U(n) <=> Some(n, op) /\ \A i \in 1..n : op \notin S(i)
       /\ \A i \in 1..n : \A op \in S(i) : Some(n, op)
  BY <1>10 DEF T
<1>12. \A op : /\ op \in Created(block) <=> \E i \in 1..n : op \in O(i)
               /\ op \in Used(block) <=> \E i \in 1..n : op \in S(i)
  BY <1>2 DEF Created, Used, O, S
<1>13. U(n) = DOMAIN ApplyBlock(led, block).led.utxo /\ U(0) = DOMAIN led.utxo
  BY <1>1, <1>2 DEF n, U
<1> HIDE <1>2
<1> QED
  BY <1>11, <1>12, <1>13

\* The coinbase of a block pays at most this much.
RewardValue(block) == TotalOutput(Head(block.txs))

\* What one merge block is paid: its coinbase, at the outpoints that the UTXO
\* set does not have.
LEMMA MergeEffect ==
  ASSUME NEW led \in LedgerType, NEW block, IsBlock(block), block.txs # <<>>
  PROVE  LET l2 == ApplyMergeCoinbase(led, block).led
         IN  /\ l2 \in LedgerType
             /\ DOMAIN l2.utxo = DOMAIN led.utxo \cup RewardPoints(block)
             /\ \A op \in DOMAIN l2.utxo :
                  Stays(l2.utxo, led.utxo, op) \/ Made(l2.utxo, Head(block.txs), block.score, op)
             /\ ValueOf(led) \in Nat /\ ValueOf(l2) \in Nat /\ RewardValue(block) \in Nat
             /\ ValueOf(l2) <= ValueOf(led) + RewardValue(block)
<1> DEFINE cb == Head(block.txs)
           l2 == ApplyMergeCoinbase(led, block).led
           u == led.utxo
           w == l2.utxo
           e == Entries(cb, block.score)
           U == DOMAIN u
           W == DOMAIN w
           O == OutPoints(cb)
           qu == Amounts(u)
           qw == Amounts(w)
           qe == Amounts(e)
<1>1. cb \in TxType /\ block.score \in Nat
  BY DEF IsBlock
<1>2. u \in UtxoType /\ led.burned \in Nat /\ led \in LedgerType
  BY DEF LedgerType
<1>3. Holdings(u) \in Nat /\ \A op \in U : qu[op] = u[op].amount /\ qu[op] \in Nat
  <2> HIDE DEF u
  <2> QED
    BY <1>2, HoldingsNat
<1>4. RewardValue(block) \in Nat
  <2> HIDE DEF cb
  <2>1. TotalOutput(cb) \in Nat
    BY <1>1, BurnNat
  <2> QED
    BY <2>1 DEF cb, RewardValue
<1>5. CASE ~cb.coinbase
  <2>1. l2 = led /\ RewardPoints(block) = {}
    BY <1>5 DEF ApplyMergeCoinbase, RewardPoints
  <2>2. ValueOf(led) \in Nat
    BY <1>2, <1>3 DEF ValueOf
  <2> QED
    BY <1>2, <1>4, <2>1, <2>2 DEF Stays
<1>6. CASE cb.coinbase
  <2>1. l2 = [led EXCEPT !.utxo = Over(u, e)] /\ RewardPoints(block) = O
    BY <1>6 DEF ApplyMergeCoinbase, RewardPoints
  <2>2. w = Over(u, e) /\ l2.burned = led.burned
    BY <1>2, <2>1 DEF LedgerType
  <2>3. e \in UtxoType /\ DOMAIN e = O
    <3> HIDE DEF cb
    <3> QED
      BY <1>1, EntriesType
  <2>4. /\ w \in UtxoType /\ W = U \cup O
        /\ \A op \in U : w[op] = u[op]
        /\ \A op \in O \ U : w[op] = e[op]
    <3> HIDE DEF u, e, O
    <3>1. /\ Over(u, e) \in UtxoType /\ DOMAIN Over(u, e) = DOMAIN u \cup DOMAIN e
          /\ \A op \in DOMAIN u : Over(u, e)[op] = u[op]
          /\ \A op \in DOMAIN e \ DOMAIN u : Over(u, e)[op] = e[op]
      BY <1>2, <2>3, OverType
    <3> QED
      BY <2>2, <2>3, <3>1
  <2>5. l2 \in LedgerType
    BY <1>2, <2>1, <2>2, <2>4 DEF LedgerType
  <2>6. \A op \in W : Stays(w, u, op) \/ Made(w, cb, block.score, op)
    <3> HIDE DEF u, w, cb, U, W
    <3>1. \A op \in W : op \in U \/ op \in O \ U
      BY <2>4
    <3> QED
      BY <2>4, <3>1 DEF Stays, Made, U
  <2>7. Holdings(w) \in Nat /\ \A op \in W : qw[op] = w[op].amount /\ qw[op] \in Nat
    <3> HIDE DEF w
    <3> QED
      BY <2>4, HoldingsNat
  <2>8. Holdings(e) \in Nat /\ \A op \in O : qe[op] = e[op].amount /\ qe[op] \in Nat
    <3> HIDE DEF e, O
    <3> QED
      BY <2>3, HoldingsNat
  <2>9. /\ Holdings(u) = SumFunctionOnSet(qu, U) /\ Holdings(w) = SumFunctionOnSet(qw, W)
        /\ Holdings(e) = SumFunctionOnSet(qe, O)
    BY <2>3 DEF Holdings
  <2>10. IsFiniteSet(U) /\ IsFiniteSet(W) /\ IsFiniteSet(O)
    <3> HIDE DEF u, w, e, O
    <3> QED
      BY <1>2, <2>3, <2>4, UtxoElim
  <2> HIDE DEF u, w, e, U, W, O, qu, qw, qe
  <2>11. SumFunctionOnSet(qw, W) = SumFunctionOnSet(qw, U) + SumFunctionOnSet(qw, W \ U)
    BY <2>4, <2>7, <2>10, SumSplit
  <2>12. SumFunctionOnSet(qw, U) = SumFunctionOnSet(qu, U)
    <3>1. \A op \in U : qu[op] \in Nat /\ qw[op] = qu[op]
      BY <1>3, <2>4, <2>7
    <3> QED
      BY <2>10, <3>1, SumSame
  <2>13. SumFunctionOnSet(qw, W \ U) = SumFunctionOnSet(qe, W \ U)
    <3> DEFINE D == W \ U
    <3>1. D \subseteq O /\ IsFiniteSet(D)
      BY <2>4, <2>10, FS_Subset
    <3>2. \A op \in D : qe[op] \in Nat /\ qw[op] = qe[op]
      BY <2>4, <2>7, <2>8, <3>1
    <3> HIDE DEF D
    <3>3. SumFunctionOnSet(qw, D) = SumFunctionOnSet(qe, D)
      BY <3>1, <3>2, SumSame
    <3> QED
      BY <3>3 DEF D
  <2>14. SumFunctionOnSet(qe, W \ U) <= SumFunctionOnSet(qe, O)
    <3> DEFINE D == W \ U
    <3>1. D \subseteq O
      BY <2>4
    <3> HIDE DEF D
    <3>2. SumFunctionOnSet(qe, D) <= SumFunctionOnSet(qe, O)
      BY <2>8, <2>10, <3>1, SumSubset
    <3> QED
      BY <3>2 DEF D
  <2>15. Holdings(w) <= Holdings(u) + Holdings(e)
    <3>1. SumFunctionOnSet(qe, W \ U) \in Nat
      <4> DEFINE D == W \ U
      <4>1. IsFiniteSet(D) /\ \A op \in D : qe[op] \in Nat
        BY <2>4, <2>8, <2>10, FS_Subset
      <4> HIDE DEF D
      <4>2. SumFunctionOnSet(qe, D) \in Nat
        BY <4>1, SumNat
      <4> QED
        BY <4>2 DEF D
    <3> DEFINE x == SumFunctionOnSet(qe, W \ U)
    <3>2. Holdings(w) = Holdings(u) + x /\ x <= Holdings(e) /\ x \in Nat
      BY <2>9, <2>11, <2>12, <2>13, <2>14, <3>1
    <3> HIDE DEF x
    <3> QED
      BY <1>3, <2>7, <2>8, <3>2
  <2>16. TotalOutput(cb) = TotalBurn(cb) + Holdings(e) /\ TotalBurn(cb) \in Nat
    <3> HIDE DEF cb
    <3> QED
      BY <1>1, OutputSplit, BurnNat DEF e
  <2>17. ValueOf(led) = Holdings(u) + led.burned /\ ValueOf(l2) = Holdings(w) + led.burned
    BY <2>2 DEF ValueOf, u, w
  <2>18. ValueOf(led) \in Nat /\ ValueOf(l2) \in Nat
         /\ ValueOf(l2) <= ValueOf(led) + RewardValue(block)
    <3> DEFINE b == led.burned
               x == ValueOf(led)
               y == ValueOf(l2)
               r == RewardValue(block)
    <3>1. r = TotalBurn(cb) + Holdings(e) /\ b \in Nat
      BY <1>2, <2>16 DEF RewardValue
    <3>2. x = Holdings(u) + b /\ y = Holdings(w) + b
      BY <2>17
    <3> HIDE DEF b, x, y, r, cb
    <3>3. x \in Nat /\ y \in Nat /\ y <= x + r
      BY <1>3, <2>7, <2>8, <2>15, <2>16, <3>1, <3>2, SMTT(30)
    <3> QED
      BY <3>3 DEF x, y, r
  <2> QED
    BY <1>4, <2>1, <2>4, <2>5, <2>6, <2>18 DEF u, w, U, W
<1> QED
  BY <1>5, <1>6

\* The outpoints of the coinbases of the merge blocks.
Rewards(merges, blk) == UNION {RewardPoints(blk[m]) : m \in merges}

\* What the ledger is after the merge blocks of s, f being what each is paid.
PaidUpTo(led, s, l2, blk, f) ==
  /\ DOMAIN l2.utxo = DOMAIN led.utxo \cup Rewards(s, blk)
  /\ \A op \in DOMAIN l2.utxo :
       \/ Stays(l2.utxo, led.utxo, op)
       \/ \E m \in s : Made(l2.utxo, Head(blk[m].txs), blk[m].score, op)
  /\ ValueOf(led) \in Nat /\ ValueOf(l2) \in Nat
  /\ ValueOf(l2) <= ValueOf(led) + SumFunctionOnSet(f, s)

\* One merge block more.
LEMMA PaidNext ==
  ASSUME NEW led \in LedgerType, NEW merges, IsFiniteSet(merges), NEW blk,
         \A m \in merges : IsBlock(blk[m]) /\ blk[m].txs # <<>>,
         NEW f, \A m \in merges : f[m] = RewardValue(blk[m]) /\ f[m] \in Nat,
         NEW s \in SUBSET merges, NEW m \in merges \ s, NEW l \in LedgerType,
         PaidUpTo(led, s, l, blk, f)
  PROVE  PaidUpTo(led, s \cup {m}, ApplyMergeCoinbase(l, blk[m]).led, blk, f)
<1> DEFINE b == blk[m]
           l2 == ApplyMergeCoinbase(l, b).led
           t == s \cup {m}
<1>1. /\ l2 \in LedgerType
      /\ DOMAIN l2.utxo = DOMAIN l.utxo \cup RewardPoints(b)
      /\ \A op \in DOMAIN l2.utxo :
           Stays(l2.utxo, l.utxo, op) \/ Made(l2.utxo, Head(b.txs), b.score, op)
      /\ ValueOf(l) \in Nat /\ ValueOf(l2) \in Nat /\ RewardValue(b) \in Nat
      /\ ValueOf(l2) <= ValueOf(l) + RewardValue(b)
  <2>1. IsBlock(b) /\ b.txs # <<>>
    OBVIOUS
  <2> HIDE DEF b
  <2> QED
    BY <2>1, MergeEffect
<1> HIDE DEF l2
<1>2. DOMAIN l2.utxo = DOMAIN led.utxo \cup Rewards(t, blk)
  <2>1. Rewards(t, blk) = Rewards(s, blk) \cup RewardPoints(b)
    BY DEF Rewards
  <2> QED
    BY <1>1, <2>1 DEF PaidUpTo
<1>3. ASSUME NEW op \in DOMAIN l2.utxo
      PROVE  \/ Stays(l2.utxo, led.utxo, op)
             \/ \E n \in t : Made(l2.utxo, Head(blk[n].txs), blk[n].score, op)
  <2>1. CASE Made(l2.utxo, Head(b.txs), b.score, op)
    BY <2>1
  <2>2. CASE Stays(l2.utxo, l.utxo, op)
    <3>1. op \in DOMAIN l.utxo /\ l2.utxo[op] = l.utxo[op]
      BY <2>2 DEF Stays
    <3>2. \/ Stays(l.utxo, led.utxo, op)
          \/ \E n \in s : Made(l.utxo, Head(blk[n].txs), blk[n].score, op)
      BY <3>1 DEF PaidUpTo
    <3> QED
      BY <3>1, <3>2 DEF Stays, Made
  <2> QED
    BY <1>1, <2>1, <2>2
<1>4. SumFunctionOnSet(f, t) = f[m] + SumFunctionOnSet(f, s) /\ SumFunctionOnSet(f, s) \in Nat
  <2>1. IsFiniteSet(s) /\ (\A y \in s : f[y] \in Nat) /\ f[m] \in Nat /\ m \notin s
    BY FS_Subset
  <2> QED
    BY <2>1, SumAdd, SumNat
<1>5. ValueOf(led) \in Nat /\ ValueOf(l2) <= ValueOf(led) + SumFunctionOnSet(f, t)
  <2> DEFINE x == ValueOf(led)
             y == ValueOf(l)
             z == ValueOf(l2)
             p == SumFunctionOnSet(f, s)
             q == SumFunctionOnSet(f, t)
             r == RewardValue(b)
  <2>1. x \in Nat /\ y \in Nat /\ z \in Nat /\ p \in Nat /\ r \in Nat
        /\ y <= x + p /\ z <= y + r /\ q = r + p
    BY <1>1, <1>4 DEF PaidUpTo
  <2> HIDE DEF x, y, z, p, q, r
  <2>2. x \in Nat /\ z <= x + q
    BY <2>1
  <2> QED
    BY <2>2 DEF x, z, q
<1> QED
  BY <1>1, <1>2, <1>3, <1>5 DEF PaidUpTo, l2

\* All of them.
LEMMA PaidEffect ==
  ASSUME NEW led \in LedgerType, NEW merges, IsFiniteSet(merges), NEW blk,
         \A m \in merges : IsBlock(blk[m]) /\ blk[m].txs # <<>>,
         NEW f, \A m \in merges : f[m] = RewardValue(blk[m]) /\ f[m] \in Nat
  PROVE  PaidUpTo(led, merges, PayMerges(led, merges, blk).led, blk, f)
<1> DEFINE X == PaidType(led, {})
           R == {p \in (SUBSET merges) \X X : PaidUpTo(led, p[1], p[2].led, blk, f)}
           base == [led |-> led, created |-> {}]
<1>1. base \in X /\ base.led = led
  BY NothingPaid
<1>2. PaidUpTo(led, {}, led, blk, f)
  <2>1. Rewards({}, blk) = {}
    BY DEF Rewards
  <2>2. SumFunctionOnSet(f, {}) = 0
    BY SumEmpty
  <2>3. ValueOf(led) \in Nat
    <3> DEFINE u == led.utxo
    <3>1. u \in UtxoType /\ led.burned \in Nat
      BY DEF LedgerType
    <3> HIDE DEF u
    <3>2. Holdings(u) \in Nat
      BY <3>1, HoldingsNat
    <3> QED
      BY <3>1, <3>2 DEF ValueOf, u
  <2> DEFINE x == ValueOf(led)
             q == SumFunctionOnSet(f, {})
  <2>4. x <= x + q
    <3>1. x \in Nat /\ q = 0
      BY <2>2, <2>3
    <3> HIDE DEF x, q
    <3> QED
      BY <3>1
  <2> QED
    BY <2>1, <2>3, <2>4 DEF PaidUpTo, Stays
<1>3. <<{}, base>> \in R
  <2> HIDE DEF X, base
  <2> QED
    BY <1>1, <1>2
<1>4. ASSUME NEW s \in SUBSET merges, NEW m \in merges \ s, NEW acc, <<s, acc>> \in R
      PROVE  <<s \cup {m}, PayOne(acc, blk[m])>> \in R
  <2>1. acc \in X /\ PaidUpTo(led, s, acc.led, blk, f)
    BY <1>4
  <2>2. acc.led \in LedgerType
    BY <2>1 DEF PaidType
  <2>3. PaidUpTo(led, s \cup {m}, ApplyMergeCoinbase(acc.led, blk[m]).led, blk, f)
    BY <2>1, <2>2, PaidNext
  <2>4. PayOne(acc, blk[m]) \in X
    BY <2>1, PayOneType
  <2>5. PayOne(acc, blk[m]).led = ApplyMergeCoinbase(acc.led, blk[m]).led
    <3>1. ApplyMergeCoinbase(acc.led, blk[m])
            = [led |-> ApplyMergeCoinbase(acc.led, blk[m]).led,
               created |-> ApplyMergeCoinbase(acc.led, blk[m]).created]
      BY <2>2, MergeExtends
    <3> QED
      BY <3>1 DEF PayOne
  <2> HIDE DEF X
  <2> QED
    BY <2>3, <2>4, <2>5
<1> HIDE DEF R, base
<1>5. <<merges, PayMerges(led, merges, blk)>> \in R
  BY <1>3, <1>4, PaidInduction DEF base
<1> QED
  BY <1>5 DEF R

\* A block whose transactions spend nothing applies.
LEMMA BlockCanApply ==
  ASSUME NEW led \in LedgerType, NEW block, IsBlock(block),
         \A i \in DOMAIN block.txs : block.txs[i].inputs = <<>>
  PROVE  ApplyBlock(led, block).ok
<1>1. PICK a : IsBlockRun(led, block, a) /\ ApplyBlock(led, block) = a[Len(block.txs)]
  BY BlockRunExists
<1> DEFINE n == Len(block.txs)
           T == {k \in Nat : k <= n => a[k].ok}
<1>2. /\ n \in Nat /\ DOMAIN block.txs = 1..n /\ block.score \in Nat
      /\ \A k \in 0..n : a[k].led \in LedgerType
      /\ \A k \in 1..n : block.txs[k] \in TxType
  BY <1>1, RunTypes
<1>3. 0 \in T
  BY <1>1 DEF IsBlockRun, NothingApplied
<1>4. ASSUME NEW k \in Nat, k \in T PROVE k + 1 \in T
  <2>1. SUFFICES ASSUME k + 1 <= n PROVE a[k + 1].ok
    OBVIOUS
  <2> DEFINE tx == block.txs[k + 1]
             l  == a[k].led
  <2>2. k + 1 \in 1..n /\ (k + 1) - 1 = k /\ k \in 0..n /\ a[k].ok
    BY <1>2, <1>4, <2>1
  <2>3. tx \in TxType /\ l \in LedgerType /\ block.score \in Nat /\ DOMAIN tx.inputs = {}
    BY <1>2, <2>2
  <2>4. a[k + 1] = ApplyNext(a[k], tx, block.score)
    BY <1>1, <2>2 DEF IsBlockRun
  <2>5. ApplyTransaction(l, tx, block.score).ok
    <3> HIDE DEF l, tx
    <3> QED
      BY <2>3, AllThereApplies
  <2> QED
    BY <2>2, <2>4, <2>5 DEF ApplyNext, AfterTransaction
<1> HIDE DEF T
<1>5. Nat \subseteq T
  BY <1>3, <1>4, SetInduction
<1> QED
  BY <1>1, <1>2, <1>5 DEF T

\* It brings at most its outputs.
LEMMA BlockBrings ==
  ASSUME NEW led \in LedgerType, NEW block, IsBlock(block), FreshBlock(block, led.utxo),
         ApplyBlock(led, block).ok,
         NEW f, \A i \in DOMAIN block.txs : f[i] = TotalOutput(block.txs[i])
  PROVE  ValueOf(ApplyBlock(led, block).led)
           <= ValueOf(led) + SumFunctionOnSet(f, DOMAIN block.txs)
<1>1. PICK a : IsBlockRun(led, block, a) /\ ApplyBlock(led, block) = a[Len(block.txs)]
  BY BlockRunExists
<1> DEFINE n == Len(block.txs)
           V(k) == ValueOf(a[k].led)
           F(k) == SumFunctionOnSet(f, 1..k)
           T == {k \in Nat : k <= n => V(k) <= V(0) + F(k)}
<1>2. /\ n \in Nat /\ DOMAIN block.txs = 1..n /\ block.score \in Nat /\ a[0].led = led
      /\ \A k \in 0..n : a[k].led \in LedgerType
      /\ \A k \in 1..n : block.txs[k] \in TxType
  BY <1>1, RunTypes
<1>3. \A k \in 1..n : /\ ApplyTransaction(a[k - 1].led, block.txs[k], block.score).ok
                      /\ a[k].led = ApplyTransaction(a[k - 1].led, block.txs[k], block.score).led
  <2>1. a[Len(block.txs)].ok
    BY <1>1
  <2> QED
    BY <1>1, <2>1, RunSteps, ZenonT(30)
<1>4. \A k \in 1..n : Fresh(block.txs[k], a[k - 1].led.utxo)
  <2>1. a[Len(block.txs)].ok
    BY <1>1
  <2> QED
    BY <1>1, <2>1, FreshInTurn
<1>5. \A k \in 1..n : f[k] \in Nat
  BY <1>2, BurnNat
<1>6. \A k \in 0..n : V(k) \in Nat
  <2>1. TAKE k \in 0..n
  <2> DEFINE u == a[k].led.utxo
  <2>2. u \in UtxoType /\ a[k].led.burned \in Nat
    BY <1>2 DEF LedgerType
  <2> HIDE DEF u
  <2>3. Holdings(u) \in Nat
    BY <2>2, HoldingsNat
  <2> QED
    BY <2>2, <2>3 DEF ValueOf, u
<1>7. 0 \in T
  <2>1. 1..0 = {}
    OBVIOUS
  <2>2. F(0) = 0 /\ V(0) \in Nat
    BY <1>2, <1>6, <2>1, SumEmpty
  <2> QED
    BY <2>2
<1>8. ASSUME NEW k \in Nat, k \in T PROVE k + 1 \in T
  <2>1. SUFFICES ASSUME k + 1 <= n PROVE V(k + 1) <= V(0) + F(k + 1)
    OBVIOUS
  <2> DEFINE tx == block.txs[k + 1]
             l  == a[k].led
             r  == ApplyTransaction(l, tx, block.score)
  <2>2. k + 1 \in 1..n /\ (k + 1) - 1 = k /\ k \in 0..n /\ k <= n /\ 0 \in 0..n /\ k + 1 \in 0..n
    BY <1>2, <2>1
  <2>3. /\ l \in LedgerType /\ tx \in TxType /\ block.score \in Nat
        /\ r.ok /\ a[k + 1].led = r.led /\ Fresh(tx, l.utxo) /\ f[k + 1] = TotalOutput(tx)
    BY <1>2, <1>3, <1>4, <2>2
  <2>4. /\ TakenAmount(l, tx) \in Nat
        /\ ValueOf(r.led) + TakenAmount(l, tx) = ValueOf(l) + TotalOutput(tx)
    <3> HIDE DEF l, tx
    <3> QED
      BY <2>3, AppliedValue
  <2>5. V(k + 1) + TakenAmount(l, tx) = V(k) + f[k + 1]
    BY <2>3, <2>4
  <2>6. F(k + 1) = f[k + 1] + F(k) /\ F(k) \in Nat
    <3> DEFINE S == 1..k
               x == k + 1
    <3>0. IsFiniteSet(S)
      BY FS_Interval
    <3>4. x \notin S /\ S \cup {x} = 1..(k + 1)
      OBVIOUS
    <3>5. \A y \in S : f[y] \in Nat
      <4>1. \A y \in 1..k : y \in 1..n
        BY <1>2, <2>2
      <4> QED
        BY <1>5, <4>1
    <3>1. IsFiniteSet(S) /\ x \notin S /\ S \cup {x} = 1..(k + 1)
          /\ f[x] \in Nat /\ \A y \in S : f[y] \in Nat
      BY <1>5, <2>2, <3>0, <3>4, <3>5
    <3> HIDE DEF S, x
    <3>2. SumFunctionOnSet(f, S \cup {x}) = f[x] + SumFunctionOnSet(f, S)
      BY <3>1, SumAdd
    <3>3. SumFunctionOnSet(f, S) \in Nat
      BY <3>1, SumNat
    <3> QED
      BY <3>1, <3>2, <3>3 DEF S, x
  <2>7. V(k) <= V(0) + F(k)
    BY <1>8, <2>2
  <2>8. V(k) \in Nat /\ V(0) \in Nat /\ V(k + 1) \in Nat /\ f[k + 1] \in Nat
    BY <1>5, <1>6, <2>2
  <2> DEFINE v0 == V(0)
             v1 == V(k)
             v2 == V(k + 1)
             g  == f[k + 1]
             p  == F(k)
             q  == F(k + 1)
             t  == TakenAmount(l, tx)
  <2>9. /\ v0 \in Nat /\ v1 \in Nat /\ v2 \in Nat /\ g \in Nat /\ p \in Nat /\ t \in Nat
        /\ q = g + p /\ v2 + t = v1 + g /\ v1 <= v0 + p
    BY <2>4, <2>5, <2>6, <2>7, <2>8
  <2> HIDE DEF v0, v1, v2, g, p, q, t
  <2>10. v2 <= v0 + q
    BY <2>9
  <2> QED
    BY <2>10 DEF v0, v2, q
<1> HIDE DEF T
<1>9. Nat \subseteq T
  BY <1>7, <1>8, SetInduction
<1>10. V(n) <= V(0) + F(n)
  BY <1>2, <1>9 DEF T
<1> QED
  BY <1>1, <1>2, <1>10

\* An input of a validated block is a mature output of the ledger, or an output
\* of the block.
LEMMA ValidInputs ==
  ASSUME NEW led \in LedgerType, NEW block, IsBlock(block), Bare(block),
         ValidateTransactions(led, block), NEW op \in Used(block)
  PROVE  \/ op \in DOMAIN led.utxo /\ Mature(led.utxo[op], block.score)
         \/ op \in Created(block)
<1> DEFINE n == Len(block.txs)
           u == led.utxo
<1>1. PICK v : IsValidRun(led, block, v) /\ ValidateEach(led, block) = v[n]
  BY ValidRunExists
<1>2. n \in Nat /\ DOMAIN block.txs = 1..n /\ block.score \in Nat
      /\ \A k \in 1..n : block.txs[k] \in TxType
  BY DEF IsBlock
<1>3. v[n].ok
  BY <1>1 DEF ValidateTransactions
<1>4. \A k \in 1..n : /\ v[k - 1].created \in UtxoType
                      /\ v[k].created = Over(Entries(block.txs[k], block.score), v[k - 1].created)
                      /\ ~block.txs[k].coinbase
                           => TransactionValid(v[k - 1], block.txs[k], u, block.score)
  BY <1>1, <1>3, ValidSteps
<1>5. v[0].created = <<>>
  BY <1>1 DEF IsValidRun, NothingValidated
<1> DEFINE T == {k \in Nat : k <= n => DOMAIN v[k].created \subseteq Created(block)}
<1>6. 0 \in T
  BY <1>5
<1>7. ASSUME NEW k \in Nat, k \in T PROVE k + 1 \in T
  <2>1. SUFFICES ASSUME k + 1 <= n PROVE DOMAIN v[k + 1].created \subseteq Created(block)
    OBVIOUS
  <2> DEFINE tx == block.txs[k + 1]
             e  == Entries(tx, block.score)
             c  == v[k].created
  <2>2. k + 1 \in 1..n /\ (k + 1) - 1 = k /\ k <= n
    BY <1>2, <2>1
  <2>3. c \in UtxoType /\ tx \in TxType /\ v[k + 1].created = Over(e, c) /\ c = v[k].created
    BY <1>2, <1>4, <2>2
  <2>4. e \in UtxoType /\ DOMAIN e = OutPoints(tx)
    <3> HIDE DEF tx
    <3> QED
      BY <1>2, <2>3, EntriesType
  <2>5. OutPoints(tx) \subseteq Created(block)
    BY <1>2, <2>2 DEF Created
  <2>6. DOMAIN c \subseteq Created(block)
    BY <1>7, <2>2
  <2> HIDE DEF c, e
  <2>7. DOMAIN Over(e, c) = DOMAIN e \cup DOMAIN c
    BY <2>3, <2>4, OverType
  <2> QED
    BY <2>3, <2>4, <2>5, <2>6, <2>7
<1> HIDE DEF T
<1>8. Nat \subseteq T
  BY <1>6, <1>7, SetInduction
<1>9. PICK k \in 1..n : op \in Spends(block.txs[k])
  BY <1>2 DEF Used
<1>10. PICK i \in DOMAIN block.txs[k].inputs : op = block.txs[k].inputs[i].op
  BY <1>9 DEF Spends
<1>11. ~block.txs[k].coinbase
  BY <1>2, <1>10 DEF Bare
<1>12. InputValid(v[k - 1], block.txs[k], i, u, block.score)
  BY <1>4, <1>10, <1>11 DEF TransactionValid
<1>13. k - 1 \in T /\ k - 1 <= n
  BY <1>2, <1>8
<1>14. DOMAIN v[k - 1].created \subseteq Created(block)
  BY <1>13 DEF T
<1> QED
  BY <1>10, <1>12, <1>14 DEF InputValid

----------------------------------------------------------------------------
(* The selected chain                                                      *)

\* f[n] is what n steps of F make of base.
IsOrbit(X, base, F, f) ==
  f \in [Nat -> X] /\ f[0] = base /\ \A n \in Nat : f[n + 1] = F[f[n]]

\* A step may be taken again and again.
LEMMA OrbitExists ==
  ASSUME NEW X, NEW base \in X, NEW F \in [X -> X]
  PROVE  \E f : IsOrbit(X, base, F, f)
<1> DEFINE Run(N, f) == f \in [0..N -> X] /\ f[0] = base /\ \A n \in 1..N : f[n] = F[f[n - 1]]
           T == {k \in Nat : \A N, M \in Nat : \A f, g :
                   k <= N /\ k <= M /\ Run(N, f) /\ Run(M, g) => f[k] = g[k]}
<1>1. ASSUME NEW N \in Nat PROVE \E f : Run(N, f)
  <2> DEFINE G == [p \in X \X (1..N) |-> F[p[1]]]
  <2>1. IsStep(X, N, G)
    BY DEF IsStep
  <2>2. \A x \in X, n \in 1..N : G[<<x, n>>] = F[x]
    OBVIOUS
  <2> HIDE DEF G
  <2>3. PICK f : IsRecursion(X, base, N, G, f)
    BY <2>1, RecursionExists
  <2>4. ASSUME NEW n \in 1..N PROVE f[n] = F[f[n - 1]]
    <3>1. n - 1 \in 0..N
      OBVIOUS
    <3>2. f[n - 1] \in X
      BY <2>3, <3>1 DEF IsRecursion
    <3> QED
      BY <2>2, <2>3, <3>2 DEF IsRecursion
  <2> QED
    BY <2>3, <2>4 DEF IsRecursion
<1>2. 0 \in T
  OBVIOUS
<1>3. ASSUME NEW k \in Nat, k \in T PROVE k + 1 \in T
  <2> HIDE DEF Run
  <2>1. SUFFICES ASSUME NEW N \in Nat, NEW M \in Nat, NEW f, NEW g,
                        k + 1 <= N, k + 1 <= M, Run(N, f), Run(M, g)
                 PROVE  f[k + 1] = g[k + 1]
    OBVIOUS
  <2>2. k + 1 \in 1..N /\ k + 1 \in 1..M /\ (k + 1) - 1 = k /\ k <= N /\ k <= M
    BY <2>1
  <2>3. f[k] = g[k]
    BY <1>3, <2>1, <2>2
  <2>4. f[k + 1] = F[f[(k + 1) - 1]] /\ g[k + 1] = F[g[(k + 1) - 1]]
    BY <2>1, <2>2 DEF Run
  <2> QED
    BY <2>2, <2>3, <2>4
<1>4. Nat \subseteq T
  <2> HIDE DEF T
  <2> QED
    BY <1>2, <1>3, SetInduction
<1> DEFINE r(n) == CHOOSE f : Run(n, f)
           u == [n \in Nat |-> r(n)[n]]
<1>5. ASSUME NEW n \in Nat PROVE Run(n, r(n))
  <2> HIDE DEF Run
  <2> QED
    BY <1>1
<1> HIDE DEF r
<1>6. u \in [Nat -> X]
  <2>1. \A n \in Nat : n \in 0..n
    OBVIOUS
  <2>2. \A n \in Nat : r(n)[n] \in X
    BY <1>5, <2>1
  <2> QED
    BY <2>2
<1>7. u[0] = base
  BY <1>5
<1>8. ASSUME NEW n \in Nat PROVE u[n + 1] = F[u[n]]
  <2>1. n + 1 \in Nat /\ n + 1 \in 1..(n + 1) /\ (n + 1) - 1 = n /\ n <= n /\ n <= n + 1
    OBVIOUS
  <2>2. r(n + 1)[n + 1] = F[r(n + 1)[(n + 1) - 1]]
    BY <1>5, <2>1
  <2>3. r(n + 1)[n] = r(n)[n]
    <3>1. n \in T /\ Run(n, r(n)) /\ Run(n + 1, r(n + 1))
      BY <1>4, <1>5, <2>1
    <3> QED
      BY <2>1, <3>1, SMTT(30)
  <2>4. u[n + 1] = r(n + 1)[n + 1] /\ u[n] = r(n)[n]
    BY <2>1
  <2> HIDE DEF u
  <2> QED
    BY <2>1, <2>2, <2>3, <2>4
<1> HIDE DEF u
<1>9. IsOrbit(X, base, F, u)
  BY <1>6, <1>7, <1>8 DEF IsOrbit
<1> QED
  BY <1>9

\* The GhostDAG entries form a tree below root: every other block has a
\* selected parent with an entry, and a lower score.
GdTree(g, root) ==
  /\ IsFiniteSet(DOMAIN g) /\ root \in DOMAIN g /\ Zero \notin DOMAIN g
  /\ g[root].selected = Zero
  /\ \A h \in DOMAIN g : g[h].score \in Nat
  /\ \A h \in DOMAIN g \ {root} :
       g[h].selected \in DOMAIN g /\ g[g[h].selected].score < g[h].score

\* c goes from h along the selected parents to the end.
IsChain(g, h, c) ==
  /\ c \in Seq(DOMAIN g) /\ Len(c) >= 1 /\ c[1] = h
  /\ \A i \in 1..(Len(c) - 1) : c[i + 1] = g[c[i]].selected
  /\ g[c[Len(c)]].selected = Zero

\* get_selected_chain, step by step.
IsClimb(g, start, up) ==
  up = [n \in Nat |-> IF n = 0 THEN start ELSE DataOf(g, up[n - 1]).selected]

\* From every block of the tree there is a way down to the genesis block.
LEMMA ClimbExists ==
  ASSUME NEW g, NEW root, GdTree(g, root), NEW h \in DOMAIN g
  PROVE  \E up : IsClimb(g, h, up)
<1> DEFINE X == DOMAIN g \cup {Zero}
           F == [x \in X |-> DataOf(g, x).selected]
<1>1. ASSUME NEW x \in X PROVE DataOf(g, x).selected \in X
  BY DEF DataOf, GdTree, GenesisData
<1>2. F \in [X -> X] /\ h \in X
  BY <1>1
<1>3. \A x \in X : F[x] = DataOf(g, x).selected
  OBVIOUS
<1> HIDE DEF X, F
<1>4. PICK u : IsOrbit(X, h, F, u)
  BY <1>2, OrbitExists
<1>5. ASSUME NEW n \in Nat PROVE u[n] = IF n = 0 THEN h ELSE DataOf(g, u[n - 1]).selected
  <2>1. CASE n = 0
    BY <1>4, <2>1 DEF IsOrbit
  <2>2. CASE n # 0
    <3>1. n - 1 \in Nat /\ (n - 1) + 1 = n
      BY <2>2
    <3>2. u[n] = F[u[n - 1]] /\ u[n - 1] \in X
      BY <1>4, <3>1 DEF IsOrbit
    <3> QED
      BY <1>3, <2>2, <3>2
  <2> QED
    BY <2>1, <2>2
<1>6. u = [n \in Nat |-> u[n]]
  BY <1>4 DEF IsOrbit
<1>7. u = [n \in Nat |-> IF n = 0 THEN h ELSE DataOf(g, u[n - 1]).selected]
  BY <1>5, <1>6
<1> QED
  BY <1>7 DEF IsClimb

\* A step up a chain is a step to a lower score, so nothing is twice in it, it
\* is no longer than there are blocks, and it ends at the root.
LEMMA ChainFalls ==
  ASSUME NEW g, NEW root, GdTree(g, root), NEW h, NEW c, IsChain(g, h, c)
  PROVE  /\ \A i, j \in 1..Len(c) : i < j => g[c[j]].score < g[c[i]].score
         /\ Once(c) /\ Len(c) <= Cardinality(DOMAIN g)
         /\ c[Len(c)] = root /\ \A i \in 1..(Len(c) - 1) : c[i] # root
<1> DEFINE n == Len(c)
           T == {d \in Nat : \A i \in 1..n : i + d + 1 <= n => g[c[i + d + 1]].score < g[c[i]].score}
<1>1. n \in Nat /\ n >= 1 /\ DOMAIN c = 1..n /\ \A i \in 1..n : c[i] \in DOMAIN g
  BY DEF IsChain
<1>2. \A i \in 1..n : g[c[i]].score \in Nat
  BY <1>1 DEF GdTree
<1>3. ASSUME NEW i \in 1..(n - 1) PROVE c[i] # root
  <2>1. i \in 1..n /\ i + 1 \in 1..n
    BY <1>1
  <2>2. c[i + 1] = g[c[i]].selected /\ c[i + 1] \in DOMAIN g
    BY <1>1, <2>1 DEF IsChain
  <2> QED
    BY <2>2 DEF GdTree
<1>4. ASSUME NEW i \in 1..(n - 1) PROVE g[c[i + 1]].score < g[c[i]].score
  <2>1. i \in 1..n
    BY <1>1
  <2>2. c[i] \in DOMAIN g \ {root} /\ c[i + 1] = g[c[i]].selected
    BY <1>1, <1>3, <2>1 DEF IsChain
  <2> QED
    BY <2>2 DEF GdTree
<1> HIDE DEF n
<1>5. 0 \in T
  <2>1. \A i \in 1..n : i + 0 + 1 <= n => i \in 1..(n - 1) /\ i + 0 + 1 = i + 1
    BY <1>1
  <2> QED
    BY <1>4, <2>1
<1>6. ASSUME NEW d \in Nat, d \in T PROVE d + 1 \in T
  <2>1. SUFFICES ASSUME NEW i \in 1..n, i + (d + 1) + 1 <= n
                 PROVE  g[c[i + (d + 1) + 1]].score < g[c[i]].score
    OBVIOUS
  <2> DEFINE k == i + d + 1
  <2>2. k \in 1..(n - 1) /\ k \in 1..n /\ k + 1 \in 1..n /\ i + (d + 1) + 1 = k + 1 /\ i + d + 1 <= n
    BY <1>1, <2>1
  <2>3. g[c[k]].score < g[c[i]].score
    BY <1>6, <2>2
  <2> HIDE DEF k
  <2>4. g[c[k + 1]].score < g[c[k]].score
    BY <1>4, <2>2
  <2> QED
    BY <1>2, <2>2, <2>3, <2>4
<1>7. Nat \subseteq T
  <2> HIDE DEF T
  <2> QED
    BY <1>5, <1>6, SetInduction
<1>8. ASSUME NEW i \in 1..n, NEW j \in 1..n, i < j PROVE g[c[j]].score < g[c[i]].score
  <2>1. (j - i) - 1 \in Nat /\ i + ((j - i) - 1) + 1 = j /\ j <= n
    BY <1>1, <1>8
  <2>2. (j - i) - 1 \in T
    BY <1>7, <2>1
  <2> QED
    BY <2>1, <2>2
<1>9. Once(c)
  <2>1. SUFFICES ASSUME NEW i \in 1..n, NEW j \in 1..n, c[i] = c[j] PROVE i = j
    BY <1>1 DEF Once
  <2>2. ~(i < j) /\ ~(j < i)
    BY <1>2, <1>8, <2>1
  <2> QED
    BY <1>1, <2>2
<1>10. n <= Cardinality(DOMAIN g)
  <2>1. c \in [1..n -> DOMAIN g] /\ IsInjective(c)
    BY <1>1, <1>9 DEF IsChain, n, Once, IsInjective
  <2>2. c \in Injection(1..n, DOMAIN g)
    BY <2>1 DEF Injection
  <2>3. IsFiniteSet(DOMAIN g)
    BY DEF GdTree
  <2>4. Cardinality(1..n) = n
    BY <1>1, FS_Interval, SMTT(30)
  <2>5. Cardinality(1..n) <= Cardinality(DOMAIN g)
    BY <2>2, <2>3, FS_Injection, Zenon
  <2> QED
    BY <2>4, <2>5
<1>11. c[n] = root
  <2>1. c[n] \in DOMAIN g /\ g[c[n]].selected = Zero
    BY <1>1 DEF IsChain, n
  <2> QED
    BY <2>1 DEF GdTree
<1> QED
  BY <1>3, <1>8, <1>9, <1>10, <1>11 DEF n

\* The steps of get_selected_chain reach the end.
LEMMA ClimbEnds ==
  ASSUME NEW g, NEW root, GdTree(g, root), NEW h \in DOMAIN g, NEW up, IsClimb(g, h, up)
  PROVE  /\ up[0] = h /\ \A n \in Nat : up[n + 1] = DataOf(g, up[n]).selected
         /\ \A n \in Nat : up[n] \in DOMAIN g \cup {Zero}
         /\ \E n \in Nat : up[n] = Zero
<1> DEFINE s == g[h].score
           T == {n \in Nat : \/ up[n] = Zero
                             \/ up[n] \in DOMAIN g /\ g[up[n]].score + n <= s}
<1>1. up[0] = h
  BY DEF IsClimb
<1>2. ASSUME NEW n \in Nat PROVE up[n + 1] = DataOf(g, up[n]).selected
  <2>1. n + 1 \in Nat /\ n + 1 # 0 /\ (n + 1) - 1 = n
    OBVIOUS
  <2>2. up[n + 1] = DataOf(g, up[(n + 1) - 1]).selected
    BY <2>1 DEF IsClimb
  <2> QED
    BY <2>1, <2>2
<1>3. \A x \in DOMAIN g : g[x].score \in Nat /\ x # Zero
  BY DEF GdTree
<1>4. 0 \in T
  BY <1>1, <1>3
<1>5. ASSUME NEW n \in Nat, n \in T PROVE n + 1 \in T
  <2>1. CASE up[n] = Zero
    <3>1. DataOf(g, Zero).selected = Zero
      BY DEF DataOf, GdTree, GenesisData
    <3> QED
      BY <1>2, <2>1, <3>1
  <2>2. CASE up[n] \in DOMAIN g /\ g[up[n]].score + n <= s
    <3> DEFINE x == up[n]
    <3>1. up[n + 1] = g[x].selected
      BY <1>2, <2>2 DEF DataOf
    <3> HIDE DEF x
    <3>2. x \in DOMAIN g /\ g[x].score + n <= s
      BY <2>2 DEF x
    <3>3. \/ up[n + 1] = Zero
          \/ up[n + 1] \in DOMAIN g /\ g[up[n + 1]].score < g[x].score
      BY <3>1, <3>2 DEF GdTree
    <3> QED
      BY <1>3, <3>2, <3>3
  <2> QED
    BY <1>5, <2>1, <2>2
<1>6. Nat \subseteq T
  <2> HIDE DEF T
  <2> QED
    BY <1>4, <1>5, SetInduction
<1>7. up[s + 1] = Zero
  <2>1. s \in Nat /\ s + 1 \in Nat
    BY <1>3
  <2>2. s + 1 \in T
    BY <1>6, <2>1
  <2> HIDE DEF s
  <2>3. ~(up[s + 1] \in DOMAIN g /\ g[up[s + 1]].score + (s + 1) <= s)
    BY <1>3, <2>1
  <2> QED
    BY <2>2, <2>3
<1> QED
  BY <1>1, <1>2, <1>3, <1>6, <1>7

\* A climb that ends at its n-th step is a chain of n blocks.
LEMMA ClimbIsChain ==
  ASSUME NEW g, NEW root, GdTree(g, root), NEW h \in DOMAIN g, NEW up, IsClimb(g, h, up),
         NEW n \in Nat, up[n] = Zero, \A m \in 0..(n - 1) : up[m] # Zero
  PROVE  IsChain(g, h, [i \in 1..n |-> up[i - 1]])
<1> DEFINE c == [i \in 1..n |-> up[i - 1]]
<1>1. /\ up[0] = h /\ h # Zero /\ \A k \in Nat : up[k + 1] = DataOf(g, up[k]).selected
      /\ \A k \in Nat : up[k] \in DOMAIN g \cup {Zero}
  BY ClimbEnds DEF GdTree
<1>2. n >= 1 /\ \A i \in 1..n : i - 1 \in 0..(n - 1) /\ i - 1 \in Nat
  BY <1>1
<1>3. \A i \in 1..n : up[i - 1] \in DOMAIN g
  BY <1>1, <1>2
<1>4. c \in Seq(DOMAIN g) /\ Len(c) = n /\ \A i \in 1..n : c[i] = up[i - 1]
  BY <1>3
<1> HIDE DEF c
<1>5. c[1] = h
  BY <1>1, <1>2, <1>4
<1>6. ASSUME NEW i \in 1..n PROVE up[i] = g[c[i]].selected
  <2>1. i - 1 \in Nat /\ (i - 1) + 1 = i
    OBVIOUS
  <2>2. up[(i - 1) + 1] = DataOf(g, up[i - 1]).selected
    BY <1>1, <2>1
  <2> QED
    BY <1>3, <1>4, <2>1, <2>2 DEF DataOf
<1>7. ASSUME NEW i \in 1..(n - 1) PROVE c[i + 1] = g[c[i]].selected
  <2>1. i \in 1..n /\ i + 1 \in 1..n /\ (i + 1) - 1 = i
    OBVIOUS
  <2>2. c[i + 1] = up[(i + 1) - 1]
    BY <1>4, <2>1
  <2> QED
    BY <1>6, <2>1, <2>2
<1>8. g[c[n]].selected = Zero
  BY <1>2, <1>6
<1>9. IsChain(g, h, c)
  BY <1>2, <1>4, <1>5, <1>7, <1>8 DEF IsChain
<1> QED
  BY <1>9 DEF c

\* get_selected_chain returns the chain.
LEMMA SelectedIsChain ==
  ASSUME NEW g, NEW root, GdTree(g, root), NEW h \in DOMAIN g
  PROVE  IsChain(g, h, SelectedChain(g, h))
<1> DEFINE up == CHOOSE u : IsClimb(g, h, u)
           Ends(n) == up[n] = Zero /\ \A m \in 0..(n - 1) : up[m] # Zero
           N == Cardinality(DOMAIN g)
           len == CHOOSE n \in 0..N : Ends(n)
<1>1. SelectedChain(g, h) = [i \in 1..len |-> up[i - 1]]
  BY DEF SelectedChain, IsClimb
<1>2. IsClimb(g, h, up)
  BY ClimbExists
<1> HIDE DEF up
<1>3. N \in Nat
  BY FS_CardinalityType DEF GdTree
<1>4. \E n \in 0..N : Ends(n)
  <2> DEFINE Z == {n \in Nat : up[n] = Zero}
  <2>1. Z \subseteq Nat /\ Z # {}
    BY <1>2, ClimbEnds
  <2>2. PICK n \in Z : \A m \in Z : n <= m
    <3> HIDE DEF Z
    <3> QED
      BY <2>1, LeastNat
  <2>3. Ends(n) /\ n \in Nat
    <3>1. \A m \in 0..(n - 1) : m \in Nat /\ ~(n <= m)
      BY <2>2
    <3> QED
      BY <2>2, <3>1
  <2> DEFINE c == [i \in 1..n |-> up[i - 1]]
  <2>4. IsChain(g, h, c) /\ Len(c) = n
    BY <1>2, <2>3, ClimbIsChain
  <2> HIDE DEF c
  <2>5. n <= N
    BY <2>4, ChainFalls
  <2> QED
    BY <1>3, <2>3, <2>5
<1>5. len \in 0..N /\ Ends(len)
  <2> HIDE DEF Ends, N
  <2> QED
    BY <1>4
<1> HIDE DEF len
<1>6. IsChain(g, h, [i \in 1..len |-> up[i - 1]])
  BY <1>2, <1>3, <1>5, ClimbIsChain
<1> QED
  BY <1>1, <1>6

\* There is only one chain from a block.
LEMMA ChainUnique ==
  ASSUME NEW g, NEW root, GdTree(g, root), NEW h, NEW c, NEW d, IsChain(g, h, c), IsChain(g, h, d)
  PROVE  c = d
<1> DEFINE T == {k \in Nat : k + 1 <= Len(c) => k + 1 <= Len(d) /\ c[k + 1] = d[k + 1]}
           U == {k \in Nat : k + 1 <= Len(d) => k + 1 <= Len(c)}
<1>1. /\ Len(c) \in Nat /\ Len(d) \in Nat /\ Len(c) >= 1 /\ Len(d) >= 1
      /\ c \in Seq(DOMAIN g) /\ d \in Seq(DOMAIN g)
  BY DEF IsChain
<1>2. ASSUME NEW b, NEW e, IsChain(g, h, b), IsChain(g, h, e), NEW k \in Nat,
             k + 1 <= Len(b), k + 1 <= Len(e), b[k + 1] = e[k + 1], (k + 1) + 1 <= Len(b)
      PROVE  (k + 1) + 1 <= Len(e) /\ b[(k + 1) + 1] = e[(k + 1) + 1]
  <2>1. /\ Len(b) \in Nat /\ Len(e) \in Nat /\ k + 1 \in 1..(Len(b) - 1)
        /\ (k + 1) + 1 \in 1..Len(b)
    BY <1>2 DEF IsChain
  <2>2. b[(k + 1) + 1] = g[b[k + 1]].selected /\ b[(k + 1) + 1] \in DOMAIN g
    BY <1>2, <2>1 DEF IsChain
  <2>3. g[e[k + 1]].selected # Zero
    BY <1>2, <2>2 DEF GdTree
  <2>4. k + 1 # Len(e)
    BY <1>2, <2>3 DEF IsChain
  <2>5. k + 1 \in 1..(Len(e) - 1) /\ (k + 1) + 1 <= Len(e)
    BY <1>2, <2>1, <2>4
  <2>6. e[(k + 1) + 1] = g[e[k + 1]].selected
    BY <1>2, <2>5 DEF IsChain
  <2> QED
    BY <1>2, <2>2, <2>5, <2>6
<1>3. 0 \in T
  BY <1>1 DEF IsChain
<1>4. ASSUME NEW k \in Nat, k \in T PROVE k + 1 \in T
  <2>1. SUFFICES ASSUME (k + 1) + 1 <= Len(c)
                 PROVE  (k + 1) + 1 <= Len(d) /\ c[(k + 1) + 1] = d[(k + 1) + 1]
    OBVIOUS
  <2>2. k + 1 <= Len(c)
    BY <1>1, <2>1
  <2> QED
    BY <1>2, <1>4, <2>1, <2>2
<1>5. Nat \subseteq T
  <2> HIDE DEF T
  <2> QED
    BY <1>3, <1>4, SetInduction
<1>6. ASSUME NEW i \in 1..Len(c) PROVE i <= Len(d) /\ c[i] = d[i]
  <2>1. i - 1 \in Nat /\ (i - 1) + 1 = i /\ i <= Len(c)
    BY <1>1
  <2>2. i - 1 \in T
    BY <1>5, <2>1
  <2> QED
    BY <2>1, <2>2
<1>7. Len(c) <= Len(d)
  BY <1>1, <1>6
<1>8. Len(d) = Len(c)
  <2>1. SUFFICES ASSUME Len(c) < Len(d) PROVE FALSE
    BY <1>1, <1>7
  <2>2. /\ Len(c) \in 1..Len(c) /\ Len(c) \in 1..(Len(d) - 1) /\ Len(c) + 1 \in 1..Len(d)
    BY <1>1, <2>1
  <2>3. d[Len(c) + 1] = g[d[Len(c)]].selected /\ d[Len(c) + 1] \in DOMAIN g
    BY <1>1, <2>2 DEF IsChain
  <2>4. g[c[Len(c)]].selected = Zero /\ c[Len(c)] = d[Len(c)]
    BY <1>6, <2>2 DEF IsChain
  <2> QED
    BY <2>3, <2>4 DEF GdTree
<1> QED
  BY <1>1, <1>6, <1>8

\* The chain of a block is the block and the chain of its selected parent.
LEMMA ChainTail ==
  ASSUME NEW g, NEW root, GdTree(g, root), NEW h, NEW c, IsChain(g, h, c), h # root
  PROVE  /\ Len(c) >= 2
         /\ IsChain(g, g[h].selected, [i \in 1..(Len(c) - 1) |-> c[i + 1]])
<1> DEFINE n == Len(c)
           d == [i \in 1..(n - 1) |-> c[i + 1]]
<1>1. n \in Nat /\ n >= 1 /\ c[1] = h /\ \A i \in 1..n : c[i] \in DOMAIN g
  BY DEF IsChain
<1>2. n >= 2
  <2>1. c[n] = root
    BY ChainFalls
  <2> QED
    BY <1>1, <2>1
<1>3. \A i \in 1..(n - 1) : i + 1 \in 1..n
  BY <1>1
<1>4. /\ d \in Seq(DOMAIN g) /\ Len(d) = n - 1 /\ \A i \in 1..(n - 1) : d[i] = c[i + 1]
  BY <1>1, <1>2, <1>3
<1> HIDE DEF d
<1>5. d[1] = g[h].selected
  <2>1. 1 \in 1..(n - 1) /\ c[1 + 1] = g[c[1]].selected
    BY <1>1, <1>2 DEF IsChain
  <2> QED
    BY <1>1, <1>4, <2>1
<1>6. ASSUME NEW i \in 1..(Len(d) - 1) PROVE d[i + 1] = g[d[i]].selected
  <2>1. i \in 1..(n - 1) /\ i + 1 \in 1..(n - 1)
    BY <1>1, <1>4
  <2>2. c[(i + 1) + 1] = g[c[i + 1]].selected
    BY <2>1 DEF IsChain
  <2> QED
    BY <1>4, <2>1, <2>2
<1>7. g[d[Len(d)]].selected = Zero
  <2>1. n - 1 \in 1..(n - 1) /\ (n - 1) + 1 = n
    BY <1>1, <1>2
  <2> QED
    BY <1>4, <2>1 DEF IsChain
<1>8. IsChain(g, g[h].selected, d)
  BY <1>1, <1>2, <1>4, <1>5, <1>6, <1>7 DEF IsChain
<1> QED
  BY <1>2, <1>8 DEF d

\* The chain of a block does not change when entries are added.
LEMMA ChainStable ==
  ASSUME NEW f, NEW g, NEW root, GdTree(f, root), GdTree(g, root), DOMAIN f \subseteq DOMAIN g,
         \A x \in DOMAIN f : g[x] = f[x], NEW h \in DOMAIN f
  PROVE  SelectedChain(g, h) = SelectedChain(f, h)
<1> DEFINE c == SelectedChain(f, h)
<1>1. IsChain(f, h, c)
  BY SelectedIsChain
<1> HIDE DEF c
<1>2. c \in Seq(DOMAIN g) /\ Len(c) \in Nat /\ Len(c) >= 1 /\ \A i \in 1..Len(c) : c[i] \in DOMAIN f
  BY <1>1 DEF IsChain
<1>3. \A i \in 1..Len(c) : g[c[i]] = f[c[i]]
  BY <1>2
<1>4. \A i \in 1..(Len(c) - 1) : i \in 1..Len(c)
  BY <1>2
<1>5. IsChain(g, h, c)
  BY <1>1, <1>2, <1>3, <1>4 DEF IsChain
<1>6. IsChain(g, h, SelectedChain(g, h))
  BY SelectedIsChain
<1> QED
  BY <1>5, <1>6, ChainUnique DEF c

\* Induction along the selected parents, for a set.
LEMMA TreeInduction ==
  ASSUME NEW g, NEW root, GdTree(g, root), NEW P, root \in P,
         \A h \in DOMAIN g \ {root} : g[h].selected \in P => h \in P
  PROVE  DOMAIN g \subseteq P
<1> DEFINE T == {n \in Nat : \A h \in DOMAIN g : g[h].score < n => h \in P}
<1>1. \A h \in DOMAIN g : g[h].score \in Nat
  BY DEF GdTree
<1>2. 0 \in T
  BY <1>1
<1>3. ASSUME NEW n \in Nat, n \in T PROVE n + 1 \in T
  <2>1. SUFFICES ASSUME NEW h \in DOMAIN g, g[h].score < n + 1 PROVE h \in P
    OBVIOUS
  <2>2. CASE h = root
    BY <2>2
  <2>3. CASE h # root
    <3> DEFINE p == g[h].selected
    <3>1. p \in DOMAIN g /\ g[p].score < g[h].score
      BY <2>3 DEF GdTree
    <3>2. g[p].score < n
      BY <1>1, <2>1, <3>1
    <3>3. p \in P
      BY <1>3, <3>1, <3>2
    <3> QED
      BY <2>3, <3>3
  <2> QED
    BY <2>2, <2>3
<1>4. Nat \subseteq T
  <2> HIDE DEF T
  <2> QED
    BY <1>2, <1>3, SetInduction
<1>5. ASSUME NEW h \in DOMAIN g PROVE h \in P
  <2>1. g[h].score + 1 \in Nat /\ g[h].score < g[h].score + 1
    BY <1>1
  <2>2. g[h].score + 1 \in T
    BY <1>4, <2>1
  <2> QED
    BY <2>1, <2>2
<1> QED
  BY <1>5

----------------------------------------------------------------------------
(* The replay                                                              *)

\* What the replay of a chain makes of a ledger.
ReplayAll(start, s, blk, gd, store) ==
  FoldLeft(LAMBDA a, h : ReplayOne(a, h, blk, gd, store), start, s)

\* ReplayAll has a run.
LEMMA ReplayRuns ==
  ASSUME NEW start, NEW S, NEW s \in Seq(S), NEW blk, NEW gd, NEW store
  PROVE  \E a : /\ IsLoopRun("replay", start, s, blk, gd, store, a)
                /\ ReplayAll(start, s, blk, gd, store) = a[Len(s)]
<1> DEFINE Table(g) ==
             g = [p \in SUBSET DOMAIN s |->
                    IF p = {} THEN start
                    ELSE ReplayOne(g[p \ {Max(p)}], s[Max(p)], blk, gd, store)]
<1>1. ReplayAll(start, s, blk, gd, store) = (CHOOSE g : Table(g))[DOMAIN s]
  BY DEF ReplayAll, FoldLeft, MapThenFoldSet
<1>2. \A g : Table(g) <=> LoopTable("replay", start, s, blk, gd, store, g)
  <2>1. TAKE g
  <2>2. \A a, h : LoopStep("replay", a, h, blk, gd, store) = ReplayOne(a, h, blk, gd, store)
    BY DEF LoopStep
  <2>3. \A p : LoopEntry("replay", start, s, blk, gd, store, g, p) =
                IF p = {} THEN start
                ELSE ReplayOne(g[p \ {Max(p)}], s[Max(p)], blk, gd, store)
    BY <2>2, Zenon DEF LoopEntry
  <2> QED
    BY <2>3 DEF LoopTable
<1>3. \E g : Table(g)
  BY <1>2, LoopTableExists
<1> HIDE DEF Table
<1>4. PICK g : g = (CHOOSE t : Table(t))
  OBVIOUS
<1>5. LoopTable("replay", start, s, blk, gd, store, g)
  BY <1>2, <1>3, <1>4
<1>6. \E a : /\ IsLoopRun("replay", start, s, blk, gd, store, a)
             /\ g[DOMAIN s] = a[Len(s)]
  BY <1>5, LoopTableRun
<1> QED
  BY <1>1, <1>4, <1>6, Zenon

\* Two replays that go through the same blocks agree as far as they do.
LEMMA ReplaysAgree ==
  ASSUME NEW start, NEW s, NEW r, NEW blk, NEW gd, NEW store,
         NEW a, IsLoopRun("replay", start, s, blk, gd, store, a),
         NEW b, IsLoopRun("replay", start, r, blk, gd, store, b),
         NEW n \in Nat, Len(s) \in Nat, Len(r) \in Nat, n <= Len(s), n <= Len(r),
         \A i \in 1..n : s[i] = r[i]
  PROVE  a[n] = b[n]
<1> DEFINE T == {k \in Nat : k <= n => a[k] = b[k]}
<1>1. 0 \in T
  BY DEF IsLoopRun
<1>2. ASSUME NEW k \in Nat, k \in T PROVE k + 1 \in T
  <2>1. SUFFICES ASSUME k + 1 <= n PROVE a[k + 1] = b[k + 1]
    OBVIOUS
  <2>2. /\ k + 1 \in 1..Len(s) /\ k + 1 \in 1..Len(r) /\ k + 1 \in 1..n
        /\ (k + 1) - 1 = k /\ k <= n
    BY <2>1
  <2>3. a[k] = b[k] /\ s[k + 1] = r[k + 1]
    BY <1>2, <2>2
  <2>4. a[k + 1] = LoopStep("replay", a[(k + 1) - 1], s[k + 1], blk, gd, store)
    BY <2>2 DEF IsLoopRun
  <2>5. b[k + 1] = LoopStep("replay", b[(k + 1) - 1], r[k + 1], blk, gd, store)
    BY <2>2 DEF IsLoopRun
  <2> QED
    BY <2>2, <2>3, <2>4, <2>5
<1>3. Nat \subseteq T
  <2> HIDE DEF T
  <2> QED
    BY <1>1, <1>2, SetInduction
<1> QED
  BY <1>3

\* What a replay makes of the empty ledger, block by block.
LEMMA ReplayChain ==
  ASSUME NEW g, NEW root, GdTree(g, root), NEW h \in DOMAIN g, NEW c, IsChain(g, h, c),
         NEW blk, NEW store
  PROVE  \E a : /\ IsLoopRun("replay", EmptyLedger, Reverse(c), blk, g, store, a)
                /\ Replay(h, blk, g, store) = a[Len(c)]
                /\ Len(Reverse(c)) = Len(c)
                /\ \A i \in 1..Len(c) : Reverse(c)[i] = c[(Len(c) - i) + 1]
<1>1. c = SelectedChain(g, h)
  BY SelectedIsChain, ChainUnique
<1>2. c \in Seq(DOMAIN g) /\ Len(c) \in 0..Len(c) /\ SubSeq(c, 1, Len(c)) = c
  BY DEF IsChain
<1>3. /\ Reverse(c) \in Seq(DOMAIN g) /\ Len(Reverse(c)) = Len(c)
      /\ \A i \in 1..Len(c) : Reverse(c)[i] = c[(Len(c) - i) + 1]
  <2>1. /\ Reverse(SubSeq(c, 1, Len(c))) \in Seq(DOMAIN g) /\ Len(Reverse(SubSeq(c, 1, Len(c)))) = Len(c)
        /\ \A i \in 1..Len(c) : Reverse(SubSeq(c, 1, Len(c)))[i] = c[(Len(c) - i) + 1]
    BY <1>2, PrefixFacts
  <2> QED
    BY <1>2, <2>1
<1>4. Replay(h, blk, g, store) = ReplayAll(EmptyLedger, Reverse(c), blk, g, store)
  BY <1>1 DEF Replay, ReplayAll
<1>5. \E a : /\ IsLoopRun("replay", EmptyLedger, Reverse(c), blk, g, store, a)
             /\ ReplayAll(EmptyLedger, Reverse(c), blk, g, store) = a[Len(Reverse(c))]
  BY <1>3, ReplayRuns
<1> QED
  BY <1>3, <1>4, <1>5

\* The replay starts with the root ...
LEMMA ReplayRoot ==
  ASSUME NEW g, NEW root, GdTree(g, root), NEW blk, NEW store
  PROVE  Replay(root, blk, g, store) = ReplayOne(EmptyLedger, root, blk, g, store)
<1> DEFINE c == SelectedChain(g, root)
           s == Reverse(c)
<1>1. root \in DOMAIN g
  BY DEF GdTree
<1>2. IsChain(g, root, c)
  BY <1>1, SelectedIsChain
<1> HIDE DEF c
<1>3. Len(c) = 1 /\ c[1] = root
  <2>1. Len(c) \in Nat /\ Len(c) >= 1 /\ c[1] = root
    BY <1>2 DEF IsChain
  <2>2. \A i \in 1..(Len(c) - 1) : c[i] # root
    BY <1>2, ChainFalls
  <2>3. 1 \notin 1..(Len(c) - 1)
    BY <2>1, <2>2
  <2> QED
    BY <2>1, <2>3
<1>4. PICK a : /\ IsLoopRun("replay", EmptyLedger, s, blk, g, store, a)
               /\ Replay(root, blk, g, store) = a[Len(c)]
               /\ Len(s) = Len(c) /\ \A i \in 1..Len(c) : s[i] = c[(Len(c) - i) + 1]
  BY <1>1, <1>2, ReplayChain, SMTT(30)
<1> HIDE DEF s
<1>5. a[0] = EmptyLedger /\ a[1] = LoopStep("replay", a[1 - 1], s[1], blk, g, store)
  BY <1>3, <1>4 DEF IsLoopRun
<1>6. s[1] = root
  BY <1>3, <1>4
<1>7. a[1] = LoopStep("replay", EmptyLedger, root, blk, g, store)
  BY <1>5, <1>6
<1> QED
  BY <1>3, <1>4, <1>7 DEF LoopStep

\* ... and ends with the block, on what its selected parent was replayed to.
LEMMA ReplayLast ==
  ASSUME NEW g, NEW root, GdTree(g, root), NEW h \in DOMAIN g, h # root, NEW blk, NEW store
  PROVE  Replay(h, blk, g, store)
           = ReplayOne(Replay(g[h].selected, blk, g, store), h, blk, g, store)
<1> DEFINE c == SelectedChain(g, h)
           n == Len(c)
           d == [i \in 1..(n - 1) |-> c[i + 1]]
           s == Reverse(c)
           r == Reverse(d)
           p == g[h].selected
<1>1. IsChain(g, h, c)
  BY SelectedIsChain
<1> HIDE DEF c
<1>2. n \in Nat /\ n >= 2 /\ IsChain(g, p, d) /\ p \in DOMAIN g
  <2>1. n \in Nat
    BY <1>1 DEF IsChain
  <2>2. p \in DOMAIN g
    BY DEF GdTree
  <2>3. n >= 2 /\ IsChain(g, p, d)
    BY <1>1, ChainTail
  <2> QED
    BY <2>1, <2>2, <2>3
<1>3. Len(d) = n - 1 /\ \A i \in 1..(n - 1) : d[i] = c[i + 1]
  BY <1>2
<1> HIDE DEF d, p
<1>4. PICK a : /\ IsLoopRun("replay", EmptyLedger, s, blk, g, store, a)
               /\ Replay(h, blk, g, store) = a[Len(c)]
               /\ Len(s) = Len(c) /\ \A i \in 1..Len(c) : s[i] = c[(Len(c) - i) + 1]
  BY <1>1, ReplayChain
<1>5. PICK b : /\ IsLoopRun("replay", EmptyLedger, r, blk, g, store, b)
               /\ Replay(p, blk, g, store) = b[Len(d)]
               /\ Len(r) = Len(d) /\ \A i \in 1..Len(d) : r[i] = d[(Len(d) - i) + 1]
  <2>1. IsChain(g, p, d) /\ p \in DOMAIN g
    BY <1>2
  <2> QED
    BY <2>1, ReplayChain, SMTT(30)
<1> HIDE DEF s, r
<1>6. ASSUME NEW i \in 1..(n - 1) PROVE s[i] = r[i]
  <2>1. /\ i \in 1..n /\ i \in 1..Len(d) /\ ((n - 1) - i) + 1 \in 1..(n - 1)
        /\ (((n - 1) - i) + 1) + 1 = (n - i) + 1
    BY <1>2, <1>3
  <2>2. r[i] = d[((n - 1) - i) + 1]
    BY <1>3, <1>5, <2>1
  <2>3. d[((n - 1) - i) + 1] = c[(((n - 1) - i) + 1) + 1]
    BY <1>3, <2>1
  <2> QED
    BY <1>4, <2>1, <2>2, <2>3
<1>7. a[n - 1] = b[n - 1]
  <2> DEFINE k == n - 1
  <2>1. k \in Nat /\ Len(s) \in Nat /\ Len(r) \in Nat /\ k <= Len(s) /\ k <= Len(r)
    BY <1>2, <1>3, <1>4, <1>5
  <2>2. \A i \in 1..k : s[i] = r[i]
    BY <1>6
  <2> HIDE DEF k
  <2>3. a[k] = b[k]
    BY <1>4, <1>5, <2>1, <2>2, ReplaysAgree
  <2> QED
    BY <2>3 DEF k
<1>8. a[n] = LoopStep("replay", a[n - 1], s[n], blk, g, store)
  BY <1>2, <1>4 DEF IsLoopRun
<1>9. s[n] = h
  <2>1. n \in 1..n /\ (n - n) + 1 = 1
    BY <1>2
  <2>2. s[n] = c[1]
    BY <1>4, <2>1
  <2> QED
    BY <1>1, <2>2 DEF IsChain
<1>10. a[n] = ReplayOne(a[n - 1], h, blk, g, store)
  BY <1>8, <1>9 DEF LoopStep
<1> QED
  BY <1>3, <1>4, <1>5, <1>7, <1>10 DEF p

\* What the merge blocks are paid depends on nothing but them.
LEMMA SamePaid ==
  ASSUME NEW led, NEW merges, NEW blk, NEW blk2, \A m \in merges : blk2[m] = blk[m]
  PROVE  PayMerges(led, merges, blk2) = PayMerges(led, merges, blk)
<1>1. \A s \in SUBSET merges : s # {} => blk2[AnyOf(s)] = blk[AnyOf(s)]
  BY AnyOfIn
<1>2. ASSUME NEW g PROVE MergeTable(led, merges, blk2, g) <=> MergeTable(led, merges, blk, g)
  <2> DEFINE E(s, b) == IF s = {} THEN [led |-> led, created |-> {}]
                        ELSE PayOne(g[s \ {AnyOf(s)}], b[AnyOf(s)])
  <2>1. \A s \in SUBSET merges : E(s, blk2) = E(s, blk)
    BY <1>1
  <2> HIDE DEF E
  <2>2. [s \in SUBSET merges |-> E(s, blk2)] = [s \in SUBSET merges |-> E(s, blk)]
    BY <2>1
  <2>3. /\ MergeTable(led, merges, blk2, g) <=> g = [s \in SUBSET merges |-> E(s, blk2)]
        /\ MergeTable(led, merges, blk, g) <=> g = [s \in SUBSET merges |-> E(s, blk)]
    BY DEF MergeTable, E
  <2> QED
    BY <2>2, <2>3
<1>3. (CHOOSE g : MergeTable(led, merges, blk2, g)) = (CHOOSE g : MergeTable(led, merges, blk, g))
  BY <1>2
<1> QED
  BY <1>3, MergesAreChosen

\* The blocks that are read when h is applied are the same in both.
SameInputs(h, blk, g, store, blk2, g2, store2) ==
  /\ blk2[h] = blk[h] /\ DataOf(g2, h) = DataOf(g, h)
  /\ MergesOf(h, g2, store2) = MergesOf(h, g, store)
  /\ \A m \in MergesOf(h, g, store) : blk2[m] = blk[m]

\* Then it is applied in the same way.
LEMMA SameApplied ==
  ASSUME NEW h, NEW blk, NEW g, NEW store, NEW blk2, NEW g2, NEW store2,
         SameInputs(h, blk, g, store, blk2, g2, store2), NEW l
  PROVE  /\ ReplayOne(l, h, blk2, g2, store2) = ReplayOne(l, h, blk, g, store)
         /\ ApplyBlockWithMerges(l, h, blk2, g2, store2) = ApplyBlockWithMerges(l, h, blk, g, store)
<1> DEFINE b == ApplyBlock(l, blk[h])
           m == MergesOf(h, g, store)
<1>1. ApplyBlock(l, blk2[h]) = b /\ DataOf(g2, h).blues \cap store2 = m
  BY DEF SameInputs, MergesOf
<1>2. DataOf(g, h).blues \cap store = m
  BY DEF MergesOf
<1>3. PayMerges(b.led, m, blk2) = PayMerges(b.led, m, blk)
  <2>1. \A x \in m : blk2[x] = blk[x]
    BY DEF SameInputs
  <2> HIDE DEF b, m
  <2> QED
    BY <2>1, SamePaid
<1> HIDE DEF b, m
<1>4. AfterBlock(b, m, blk2) = AfterBlock(b, m, blk)
  BY <1>3 DEF AfterBlock
<1>5. ReplayOne(l, h, blk2, g2, store2) = ReplayOne(l, h, blk, g, store)
  BY <1>1, <1>2, <1>3 DEF ReplayOne, b
<1>6. ApplyBlockWithMerges(l, h, blk2, g2, store2) = ApplyBlockWithMerges(l, h, blk, g, store)
  BY <1>1, <1>2, <1>4 DEF ApplyBlockWithMerges, b
<1> QED
  BY <1>5, <1>6

\* The replay of a block does not change when blocks are added.
LEMMA ReplayStable ==
  ASSUME NEW g, NEW g2, NEW root, GdTree(g, root), GdTree(g2, root), DOMAIN g \subseteq DOMAIN g2,
         NEW blk, NEW blk2, NEW store, NEW store2,
         \A x \in DOMAIN g : SameInputs(x, blk, g, store, blk2, g2, store2), NEW h \in DOMAIN g
  PROVE  Replay(h, blk2, g2, store2) = Replay(h, blk, g, store)
<1> DEFINE P == {x \in DOMAIN g : Replay(x, blk2, g2, store2) = Replay(x, blk, g, store)}
<1>1. root \in P
  <2>1. root \in DOMAIN g /\ SameInputs(root, blk, g, store, blk2, g2, store2)
    BY DEF GdTree
  <2>2. Replay(root, blk2, g2, store2) = ReplayOne(EmptyLedger, root, blk2, g2, store2)
    BY ReplayRoot
  <2>3. Replay(root, blk, g, store) = ReplayOne(EmptyLedger, root, blk, g, store)
    BY ReplayRoot
  <2> QED
    BY <2>1, <2>2, <2>3, SameApplied
<1>2. ASSUME NEW x \in DOMAIN g \ {root}, g[x].selected \in P PROVE x \in P
  <2> DEFINE p == g[x].selected
  <2>1. SameInputs(x, blk, g, store, blk2, g2, store2) /\ x \in DOMAIN g2
    OBVIOUS
  <2>2. g2[x].selected = p
    BY <2>1 DEF SameInputs, DataOf
  <2>3. Replay(x, blk2, g2, store2) = ReplayOne(Replay(p, blk2, g2, store2), x, blk2, g2, store2)
    BY <2>1, <2>2, ReplayLast
  <2>4. Replay(x, blk, g, store) = ReplayOne(Replay(p, blk, g, store), x, blk, g, store)
    BY ReplayLast
  <2>5. Replay(p, blk2, g2, store2) = Replay(p, blk, g, store)
    BY <1>2
  <2> QED
    BY <2>1, <2>3, <2>4, <2>5, SameApplied
<1> HIDE DEF P
<1>3. DOMAIN g \subseteq P
  BY <1>1, <1>2, TreeInduction
<1> QED
  BY <1>3 DEF P

\* The merge blocks of every block, and the block itself, are blocks.
Typed(blk, g, store) ==
  \A h \in DOMAIN g : /\ IsBlock(blk[h]) /\ IsFiniteSet(MergesOf(h, g, store))
                      /\ \A m \in MergesOf(h, g, store) : IsBlock(blk[m])

\* One block keeps the ledger a ledger.
LEMMA ReplayOneType ==
  ASSUME NEW g, NEW blk, NEW store, Typed(blk, g, store), NEW h \in DOMAIN g, NEW l \in LedgerType
  PROVE  ReplayOne(l, h, blk, g, store) \in LedgerType
<1> DEFINE b == ApplyBlock(l, blk[h]).led
           m == MergesOf(h, g, store)
           r == PayMerges(b, m, blk)
<1>1. b \in LedgerType
  <2>1. ApplyBlock(l, blk[h]) \in AppliedType
    BY ApplyBlockType DEF Typed
  <2> QED
    BY <2>1 DEF AppliedType
<1> HIDE DEF b
<1>2. IsFiniteSet(m) /\ \A x \in m : IsBlock(blk[x]) /\ RewardPoints(blk[x]) \cap {} = {}
  BY DEF Typed
<1> HIDE DEF m
<1>3. r \in PaidType(b, {})
  BY <1>1, <1>2, MergesExtend
<1>4. r.led \in LedgerType
  BY <1>3 DEF PaidType
<1> QED
  BY <1>4 DEF ReplayOne, b, m, MergesOf

\* The empty ledger is a ledger.
LEMMA EmptyType == EmptyLedger \in LedgerType
<1> DEFINE none == [x \in {} |-> x]
<1>1. {} \in FiniteOutPoints
  BY FS_EmptySet DEF FiniteOutPoints
<1>2. none \in [{} -> EntryType] /\ <<>> = none
  OBVIOUS
<1>3. <<>> \in UtxoType
  BY <1>1, <1>2 DEF UtxoType
<1> QED
  BY <1>3 DEF EmptyLedger, LedgerType

\* The replay makes a ledger.
LEMMA ReplayType ==
  ASSUME NEW g, NEW root, GdTree(g, root), NEW blk, NEW store, Typed(blk, g, store),
         NEW h \in DOMAIN g
  PROVE  Replay(h, blk, g, store) \in LedgerType
<1> DEFINE P == {x \in DOMAIN g : Replay(x, blk, g, store) \in LedgerType}
<1>1. EmptyLedger \in LedgerType
  BY EmptyType
<1>2. root \in P
  BY <1>1, ReplayRoot, ReplayOneType DEF GdTree
<1>3. ASSUME NEW x \in DOMAIN g \ {root}, g[x].selected \in P PROVE x \in P
  BY <1>3, ReplayLast, ReplayOneType
<1> HIDE DEF P
<1>4. DOMAIN g \subseteq P
  BY <1>2, <1>3, TreeInduction
<1> QED
  BY <1>4 DEF P

\* A block that is connected makes of the ledger what its replay makes of it.
LEMMA ConnectedIsReplayed ==
  ASSUME NEW l \in LedgerType, NEW h, NEW blk, NEW g, NEW store, IsBlock(blk[h]),
         ApplyBlockWithMerges(l, h, blk, g, store).ok
  PROVE  ApplyBlockWithMerges(l, h, blk, g, store).led = ReplayOne(l, h, blk, g, store)
<1> DEFINE b == ApplyBlock(l, blk[h])
           m == DataOf(g, h).blues \cap store
           paid == PayMerges(b.led, m, blk)
<1>1. b \in AppliedType
  BY ApplyBlockType
<1>2. ApplyBlockWithMerges(l, h, blk, g, store) = AfterBlock(b, m, blk)
  BY DEF ApplyBlockWithMerges
<1>3. ReplayOne(l, h, blk, g, store) = paid.led
  BY DEF ReplayOne
<1> HIDE DEF b, m
<1>4. AfterBlock(b, m, blk) = WithPaid(b, paid)
  BY <1>2 DEF AfterBlock
<1> HIDE DEF paid
<1>5. b = [ok |-> b.ok, led |-> b.led, undo |-> b.undo]
  BY <1>1 DEF AppliedType
<1>6. WithPaid(b, paid).led = paid.led
  BY <1>5 DEF WithPaid
<1> QED
  BY <1>2, <1>3, <1>4, <1>6

----------------------------------------------------------------------------
(* Switching from one chain to another                                     *)

\* A branch ends before the first block that the other chain has too.
LEMMA BranchEnds ==
  ASSUME NEW S, NEW c \in Seq(S), NEW d, \E i \in DOMAIN c : c[i] \in Range(d)
  PROVE  \E k \in 0..(Len(c) - 1) :
           /\ c[k + 1] \in Range(d) /\ \A i \in 1..k : c[i] \notin Range(d)
           /\ Branch(c, d) = SubSeq(c, 1, k)
<1> DEFINE shared == {i \in DOMAIN c : c[i] \in Range(d)}
           m == Min(shared)
<1>1. Len(c) \in Nat /\ DOMAIN c = 1..Len(c) /\ shared \in SUBSET (1..Len(c)) /\ shared # {}
  OBVIOUS
<1>2. m \in shared /\ \A i \in shared : m <= i
  <2> HIDE DEF shared
  <2> QED
    BY <1>1, MinOfSet
<1>3. Branch(c, d) = SubSeq(c, 1, m - 1)
  BY <1>1 DEF Branch
<1> HIDE DEF m
<1>4. m \in 1..Len(c) /\ c[m] \in Range(d)
  BY <1>1, <1>2
<1>5. m - 1 \in 0..(Len(c) - 1) /\ (m - 1) + 1 = m
  BY <1>1, <1>4
<1>6. \A i \in 1..(m - 1) : i \in DOMAIN c /\ ~(m <= i)
  BY <1>1, <1>4
<1>7. \A i \in 1..(m - 1) : c[i] \notin Range(d)
  BY <1>2, <1>6
<1> QED
  BY <1>3, <1>4, <1>5, <1>7

\* Two chains meet: each branch ends before the same block, and from there on
\* the blocks of the one are blocks of the other.
LEMMA ChainsMeet ==
  ASSUME NEW g, NEW root, GdTree(g, root), NEW old, NEW new,
         NEW c, NEW d, IsChain(g, old, c), IsChain(g, new, d)
  PROVE  \E k \in 0..(Len(c) - 1), m \in 0..(Len(d) - 1) :
           /\ c[k + 1] = d[m + 1]
           /\ Branch(c, d) = SubSeq(c, 1, k) /\ Branch(d, c) = SubSeq(d, 1, m)
           /\ \A j \in 1..Len(d) : j <= m \/ d[j] \in Range(c)
<1>1. /\ c \in Seq(DOMAIN g) /\ d \in Seq(DOMAIN g) /\ Len(c) \in Nat /\ Len(d) \in Nat
      /\ Len(c) >= 1 /\ Len(d) >= 1 /\ DOMAIN c = 1..Len(c) /\ DOMAIN d = 1..Len(d)
  BY DEF IsChain
<1>2. c[Len(c)] = root /\ d[Len(d)] = root
  BY ChainFalls
<1>3. Len(c) \in DOMAIN c /\ Len(d) \in DOMAIN d
  BY <1>1
<1>4. root \in Range(c) /\ root \in Range(d)
  BY <1>2, <1>3 DEF Range
<1>5. PICK k \in 0..(Len(c) - 1) :
        /\ c[k + 1] \in Range(d) /\ \A i \in 1..k : c[i] \notin Range(d)
        /\ Branch(c, d) = SubSeq(c, 1, k)
  BY <1>1, <1>2, <1>3, <1>4, BranchEnds, ZenonT(30)
<1>6. PICK m \in 0..(Len(d) - 1) :
        /\ d[m + 1] \in Range(c) /\ \A i \in 1..m : d[i] \notin Range(c)
        /\ Branch(d, c) = SubSeq(d, 1, m)
  BY <1>1, <1>2, <1>3, <1>4, BranchEnds, ZenonT(30)
<1>7. k + 1 \in 1..Len(c) /\ m + 1 \in 1..Len(d) /\ k \in Nat /\ m \in Nat
  BY <1>1
<1>8. PICK p \in 1..Len(d) : c[k + 1] = d[p]
  BY <1>1, <1>5 DEF Range
<1>9. PICK q \in 1..Len(c) : d[m + 1] = c[q]
  BY <1>1, <1>6 DEF Range
<1>10. p >= m + 1 /\ q >= k + 1
  <2>1. c[k + 1] \in Range(c) /\ d[m + 1] \in Range(d)
    BY <1>1, <1>7 DEF Range
  <2>2. p \notin 1..m
    BY <1>6, <1>8, <2>1
  <2>3. q \notin 1..k
    BY <1>5, <1>9, <2>1
  <2> QED
    BY <1>1, <1>7, <2>2, <2>3
<1>11. \A i, j \in 1..Len(c) : i < j => g[c[j]].score < g[c[i]].score
  BY ChainFalls
<1>12. \A i, j \in 1..Len(d) : i < j => g[d[j]].score < g[d[i]].score
  BY ChainFalls
<1>13. /\ \A i \in 1..Len(c) : g[c[i]].score \in Nat
       /\ \A i \in 1..Len(d) : g[d[i]].score \in Nat
  BY <1>1 DEF GdTree
<1>14. p = m + 1
  <2>1. SUFFICES ASSUME m + 1 < p PROVE FALSE
    BY <1>7, <1>10
  <2>2. g[d[p]].score < g[d[m + 1]].score
    BY <1>7, <1>12, <2>1
  <2>3. q = k + 1 \/ g[c[q]].score < g[c[k + 1]].score
    BY <1>7, <1>10, <1>11
  <2> QED
    BY <1>7, <1>8, <1>9, <1>13, <2>2, <2>3
<1>15. c[k + 1] = d[m + 1]
  BY <1>8, <1>14
<1> DEFINE T == {i \in Nat : (m + 1) + i <= Len(d) => d[(m + 1) + i] \in Range(c)}
<1>16. 0 \in T
  BY <1>6, <1>7
<1>17. ASSUME NEW i \in Nat, i \in T PROVE i + 1 \in T
  <2> DEFINE j == (m + 1) + i
  <2>1. SUFFICES ASSUME (m + 1) + (i + 1) <= Len(d) PROVE d[(m + 1) + (i + 1)] \in Range(c)
    OBVIOUS
  <2>2. j \in 1..(Len(d) - 1) /\ j + 1 \in 1..Len(d) /\ (m + 1) + (i + 1) = j + 1 /\ j <= Len(d)
    BY <1>1, <1>7, <2>1
  <2>3. d[j] \in Range(c)
    BY <1>17, <2>2
  <2> HIDE DEF j
  <2>4. PICK x \in 1..Len(c) : d[j] = c[x]
    BY <1>1, <2>3 DEF Range
  <2>5. d[j + 1] = g[d[j]].selected /\ d[j + 1] \in DOMAIN g
    BY <1>1, <2>2 DEF IsChain
  <2>6. x # Len(c)
    BY <2>4, <2>5, SMTT(30) DEF IsChain, GdTree
  <2>7. x \in 1..(Len(c) - 1) /\ x + 1 \in DOMAIN c
    <3>1. Len(c) \in Nat /\ x \in 1..Len(c) /\ x # Len(c)
      BY <1>1, <2>4, <2>6, ZenonT(30)
    <3>2. x \in 1..(Len(c) - 1) /\ x + 1 \in 1..Len(c)
      BY <3>1
    <3> QED
      BY <1>1, <3>2
  <2>8. c[x + 1] = g[c[x]].selected
    BY <2>7 DEF IsChain
  <2>9. d[j + 1] = c[x + 1] /\ c[x + 1] \in Range(c)
    BY <2>4, <2>5, <2>7, <2>8 DEF Range
  <2> QED
    BY <2>2, <2>9
<1>18. Nat \subseteq T
  <2> HIDE DEF T
  <2> QED
    BY <1>16, <1>17, SetInduction
<1>19. ASSUME NEW j \in 1..Len(d) PROVE j <= m \/ d[j] \in Range(c)
  <2>1. SUFFICES ASSUME ~(j <= m) PROVE d[j] \in Range(c)
    OBVIOUS
  <2>2. j - (m + 1) \in Nat /\ (m + 1) + (j - (m + 1)) = j /\ j <= Len(d)
    BY <1>1, <1>7, <2>1
  <2>3. j - (m + 1) \in T
    BY <1>18, <2>2
  <2> QED
    BY <2>2, <2>3
<1> QED
  BY <1>5, <1>6, <1>15, <1>19

\* What reorganize works on: the tree of the blocks, all of them typed and with
\* a stored selected parent; a stored block that is valid where it stands can be
\* connected there.
World(blk, g, root, store) ==
  /\ GdTree(g, root) /\ Typed(blk, g, store) /\ store \subseteq DOMAIN g
  /\ \A h \in DOMAIN g \ {root} : g[h].selected \in store
  /\ \A h \in store \ {root} :
       LET l == Replay(g[h].selected, blk, g, store)
       IN  ValidateTransactions(l, blk[h]) => Connectable(l, h, blk, g, store)

\* The undo data of a block is what connecting it on its selected parent gave.
UndoOf(undos, h, blk, g, root, store) ==
  LET l == Replay(g[h].selected, blk, g, store)
  IN  /\ h \in store \ {root} /\ ValidateTransactions(l, blk[h])
      /\ undos[h] = ApplyBlockWithMerges(l, h, blk, g, store).undo

\* A valid block is connected on its selected parent.
LEMMA StoredConnects ==
  ASSUME NEW blk, NEW g, NEW root, NEW store, World(blk, g, root, store),
         NEW h \in store \ {root},
         ValidateTransactions(Replay(g[h].selected, blk, g, store), blk[h])
  PROVE  LET l == Replay(g[h].selected, blk, g, store)
             r == ApplyBlockWithMerges(l, h, blk, g, store)
         IN  /\ l \in LedgerType /\ Connectable(l, h, blk, g, store)
             /\ r.ok /\ r.led = Replay(h, blk, g, store)
<1> DEFINE l == Replay(g[h].selected, blk, g, store)
           r == ApplyBlockWithMerges(l, h, blk, g, store)
<1>1. h \in DOMAIN g /\ h # root /\ g[h].selected \in DOMAIN g /\ GdTree(g, root) /\ Typed(blk, g, store)
  BY DEF World
<1>2. Connectable(l, h, blk, g, store)
  BY DEF World
<1>3. l \in LedgerType
  BY <1>1, ReplayType
<1>4. Replay(h, blk, g, store) = ReplayOne(l, h, blk, g, store)
  BY <1>1, ReplayLast
<1>5. ValidateTransactions(l, blk[h]) /\ IsBlock(blk[h])
  BY <1>2 DEF Connectable
<1> HIDE DEF l
<1>6. r.ok
  BY <1>2, <1>3, <1>5, ValidatedConnects
<1>7. r.led = ReplayOne(l, h, blk, g, store)
  BY <1>3, <1>5, <1>6, ConnectedIsReplayed
<1> QED
  BY <1>2, <1>3, <1>4, <1>6, <1>7 DEF l

\* The chain of a stored block is stored.
LEMMA ChainStored ==
  ASSUME NEW blk, NEW g, NEW root, NEW store, World(blk, g, root, store),
         NEW h \in store, NEW c, IsChain(g, h, c)
  PROVE  \A i \in 1..Len(c) : c[i] \in store
<1> SUFFICES ASSUME NEW i \in 1..Len(c) PROVE c[i] \in store
  OBVIOUS
<1>1. Len(c) \in Nat /\ c[1] = h /\ \A j \in 1..Len(c) : c[j] \in DOMAIN g
  BY DEF IsChain
<1>2. CASE i = 1
  BY <1>1, <1>2
<1>3. CASE i # 1
  <2>1. i - 1 \in 1..(Len(c) - 1) /\ i - 1 \in 1..Len(c) /\ (i - 1) + 1 = i
    BY <1>1, <1>3
  <2>2. c[(i - 1) + 1] = g[c[i - 1]].selected
    BY <2>1 DEF IsChain
  <2>3. c[i - 1] # root
    BY <2>1, ChainFalls DEF World
  <2>4. c[i - 1] \in DOMAIN g \ {root}
    BY <1>1, <2>1, <2>3
  <2> QED
    BY <2>1, <2>2, <2>4 DEF World
<1> QED
  BY <1>2, <1>3

\* Going back along the old chain, from the ledger of its tip.
LEMMA OldUnwinds ==
  ASSUME NEW blk, NEW g, NEW root, NEW store, World(blk, g, root, store),
         NEW h \in store, NEW c, IsChain(g, h, c), NEW k \in 0..(Len(c) - 1), NEW undos,
         \A x \in DOMAIN undos : UndoOf(undos, x, blk, g, root, store),
         NEW o, o = SubSeq(c, 1, k),
         NEW L, L = [i \in 0..k |-> Replay(c[i + 1], blk, g, store)]
  PROVE  Unwinds(Replay(h, blk, g, store), undos, o, blk, g, store, L)
<1>1. /\ Len(c) \in Nat /\ c[1] = h /\ c \in Seq(DOMAIN g) /\ \A j \in 1..Len(c) : c[j] \in DOMAIN g
      /\ k \in 0..Len(c) /\ k \in Nat
  BY DEF IsChain
<1>2. Len(o) = k /\ \A i \in 1..k : o[i] = c[i]
  BY <1>1, PrefixFacts
<1>3. \A i \in 0..k : L[i] = Replay(c[i + 1], blk, g, store)
  OBVIOUS
<1>4. L[0] = Replay(h, blk, g, store)
  BY <1>1, <1>3
<1>5. ASSUME NEW i \in 1..k, o[i] \in DOMAIN undos
      PROVE  /\ L[i] \in LedgerType /\ Connectable(L[i], o[i], blk, g, store)
             /\ LET r == ApplyBlockWithMerges(L[i], o[i], blk, g, store)
                IN  r.ok /\ r.led = L[i - 1] /\ r.undo = undos[o[i]]
  <2> DEFINE x == c[i]
  <2>1. /\ i \in 1..(Len(c) - 1) /\ i \in 0..k /\ i - 1 \in 0..k /\ (i - 1) + 1 = i
    BY <1>1
  <2>2. x = o[i] /\ c[i + 1] = g[x].selected
    BY <1>2, <2>1 DEF IsChain
  <2>3. L[i] = Replay(g[x].selected, blk, g, store) /\ L[i - 1] = Replay(x, blk, g, store)
    BY <1>3, <2>1, <2>2
  <2> HIDE DEF x
  <2>4. UndoOf(undos, x, blk, g, root, store)
    BY <1>5, <2>2
  <2>5. /\ x \in store \ {root} /\ ValidateTransactions(Replay(g[x].selected, blk, g, store), blk[x])
        /\ undos[x] = ApplyBlockWithMerges(Replay(g[x].selected, blk, g, store), x, blk, g, store).undo
    BY <2>4 DEF UndoOf
  <2>6. LET l == Replay(g[x].selected, blk, g, store)
            r == ApplyBlockWithMerges(l, x, blk, g, store)
        IN  /\ l \in LedgerType /\ Connectable(l, x, blk, g, store)
            /\ r.ok /\ r.led = Replay(x, blk, g, store)
    BY <2>5, StoredConnects
  <2> QED
    BY <2>2, <2>3, <2>5, <2>6
<1>6. \A i \in 1..k : i \in 1..i
  BY <1>1
<1>7. ASSUME NEW i \in 1..Len(o), \A j \in 1..i : o[j] \in DOMAIN undos /\ o[j] \in store
      PROVE  /\ L[i] \in LedgerType /\ Connectable(L[i], o[i], blk, g, store)
             /\ LET r == ApplyBlockWithMerges(L[i], o[i], blk, g, store)
                IN  r.ok /\ r.led = L[i - 1] /\ r.undo = undos[o[i]]
  <2>1. i \in 1..k /\ o[i] \in DOMAIN undos
    BY <1>2, <1>6, <1>7
  <2> QED
    BY <1>5, <2>1
<1> QED
  BY <1>4, <1>7 DEF Unwinds

\* The ledgers of the last m blocks of a chain, and of the block before them.
LedgersUp(d, m, blk, g, store) == [j \in 0..m |-> Replay(d[(m - j) + 1], blk, g, store)]

\* n leads up the chain d to its tip h, and K has the ledgers on the way.
LeadsUp(n, K, h, d, m, blk, g, root, store) ==
  /\ Winds(Replay(d[m + 1], blk, g, store), n, blk, g, store, K)
  /\ Len(n) = m /\ K[m] = Replay(h, blk, g, store)
  /\ \A j \in 1..m : /\ n[j] \in store \ {root} /\ n[j] = d[(m - j) + 1]
                     /\ K[j - 1] = Replay(g[n[j]].selected, blk, g, store)

\* Going up the new chain, from the ledger of the block where the chains meet.
LEMMA NewWinds ==
  ASSUME NEW blk, NEW g, NEW root, NEW store, World(blk, g, root, store),
         NEW h \in store, NEW d, IsChain(g, h, d), NEW m \in 0..(Len(d) - 1),
         NEW n, n = Reverse(SubSeq(d, 1, m)),
         NEW K, K = LedgersUp(d, m, blk, g, store)
  PROVE  LeadsUp(n, K, h, d, m, blk, g, root, store)
<1>1. /\ Len(d) \in Nat /\ d[1] = h /\ d \in Seq(DOMAIN g) /\ \A j \in 1..Len(d) : d[j] \in DOMAIN g
      /\ m \in 0..Len(d) /\ m \in Nat
  BY DEF IsChain
<1>2. Len(n) = m /\ \A i \in 1..m : n[i] = d[(m - i) + 1]
  BY <1>1, PrefixFacts
<1>3. \A j \in 0..m : K[j] = Replay(d[(m - j) + 1], blk, g, store)
  BY DEF LedgersUp
<1>4. K[0] = Replay(d[m + 1], blk, g, store)
  <2>1. 0 \in 0..m /\ (m - 0) + 1 = m + 1
    BY <1>1
  <2> QED
    BY <1>3, <2>1
<1>5. K[m] = Replay(h, blk, g, store)
  <2>1. m \in 0..m /\ (m - m) + 1 = 1
    BY <1>1
  <2> QED
    BY <1>1, <1>3, <2>1
<1>6. ASSUME NEW j \in 1..m
      PROVE  /\ n[j] \in store \ {root} /\ K[j] = Replay(n[j], blk, g, store)
             /\ K[j - 1] = Replay(g[n[j]].selected, blk, g, store)
  <2> DEFINE i == (m - j) + 1
  <2>1. /\ i \in 1..(Len(d) - 1) /\ i \in 1..Len(d) /\ (m - (j - 1)) + 1 = i + 1
        /\ j \in 0..m /\ j - 1 \in 0..m
    BY <1>1
  <2>2. n[j] = d[i] /\ K[j] = Replay(d[i], blk, g, store) /\ K[j - 1] = Replay(d[i + 1], blk, g, store)
    BY <1>2, <1>3, <2>1
  <2> HIDE DEF i
  <2>3. d[i + 1] = g[d[i]].selected
    BY <2>1 DEF IsChain
  <2>4. d[i] \in store
    BY <2>1, ChainStored
  <2>5. d[i] # root
    BY <2>1, ChainFalls DEF World
  <2> QED
    BY <2>2, <2>3, <2>4, <2>5
<1>7. ASSUME NEW j \in 1..m, ValidateTransactions(K[j - 1], blk[n[j]])
      PROVE  /\ Connectable(K[j - 1], n[j], blk, g, store)
             /\ K[j] = ApplyBlockWithMerges(K[j - 1], n[j], blk, g, store).led
  <2> DEFINE x == n[j]
  <2>1. /\ x \in store \ {root} /\ K[j] = Replay(x, blk, g, store)
        /\ K[j - 1] = Replay(g[x].selected, blk, g, store)
    BY <1>6
  <2> HIDE DEF x
  <2>2. ValidateTransactions(Replay(g[x].selected, blk, g, store), blk[x])
    BY <1>7, <2>1 DEF x
  <2>3. LET l == Replay(g[x].selected, blk, g, store)
            r == ApplyBlockWithMerges(l, x, blk, g, store)
        IN  /\ l \in LedgerType /\ Connectable(l, x, blk, g, store)
            /\ r.ok /\ r.led = Replay(x, blk, g, store)
    BY <2>1, <2>2, StoredConnects
  <2> QED
    BY <2>1, <2>3 DEF x
<1>8. ASSUME NEW j \in 1..Len(n),
             \A i \in 1..j : n[i] \in store /\ ValidateTransactions(K[i - 1], blk[n[i]])
      PROVE  /\ Connectable(K[j - 1], n[j], blk, g, store)
             /\ K[j] = ApplyBlockWithMerges(K[j - 1], n[j], blk, g, store).led
  <2>1. j \in 1..j /\ j \in 1..m
    BY <1>1, <1>2
  <2> QED
    BY <1>7, <1>8, <2>1
<1>9. Winds(Replay(d[m + 1], blk, g, store), n, blk, g, store, K)
  BY <1>4, <1>8 DEF Winds
<1> QED
  BY <1>2, <1>5, <1>6, <1>9 DEF LeadsUp

\* Some block of the chain of the old tip has no undo data.
NoUndo(undos, old, g, root) ==
  \E x \in Range(SelectedChain(g, old)) \ {root} : x \notin DOMAIN undos

\* Some stored block is not valid on its selected parent.
Unfit(blk, g, root, store) ==
  \E x \in store \ {root} : ~ValidateTransactions(Replay(g[x].selected, blk, g, store), blk[x])

\* What a reorganization from old to new has done when it ends.
Switched(r, undos, old, new, blk, g, root, store) ==
  /\ r.ok => /\ r.led = Replay(new, blk, g, store)
             /\ \A x \in DOMAIN r.undos : UndoOf(r.undos, x, blk, g, root, store)
             /\ DOMAIN undos \subseteq DOMAIN r.undos
             /\ \A x \in Range(SelectedChain(g, new)) :
                  x \in DOMAIN r.undos \/ x \in Range(SelectedChain(g, old))
  /\ ~r.ok => /\ r.led = Replay(old, blk, g, store)
              /\ NoUndo(undos, old, g, root) \/ Unfit(blk, g, root, store)

\* BlockProcessor::reorganize agrees with the replay of ZentraNode::new: it
\* turns the ledger that replaying the old chain gives into the one that
\* replaying the new chain gives, keeping exact undo data of the blocks of the
\* new chain; or it leaves the ledger as it was, and then a block of the old
\* chain had no undo data or a stored block is refused by its own chain.
THEOREM ReorganizeAgreesWithReplay ==
  ASSUME NEW blk, NEW g, NEW root, NEW store, World(blk, g, root, store),
         NEW undos, \A x \in DOMAIN undos : UndoOf(undos, x, blk, g, root, store),
         NEW old \in store, NEW new \in store, old # new
  PROVE  Switched(Reorganize(Replay(old, blk, g, store), undos, old, new, blk, g, store),
                  undos, old, new, blk, g, root, store)
<1> DEFINE c == SelectedChain(g, old)
           d == SelectedChain(g, new)
           o == OldBranch(g, old, new)
           n == NewBranch(g, old, new)
           led == Replay(old, blk, g, store)
           r == Reorganize(led, undos, old, new, blk, g, store)
<1>1. GdTree(g, root) /\ old \in DOMAIN g /\ new \in DOMAIN g /\ Typed(blk, g, store)
  BY DEF World
<1>2. IsChain(g, old, c) /\ IsChain(g, new, d)
  BY <1>1, SelectedIsChain
<1>3. c \in Seq(DOMAIN g) /\ d \in Seq(DOMAIN g) /\ Once(d)
  BY <1>1, <1>2, ChainFalls DEF IsChain
<1>4. o = Branch(c, d) /\ n = Reverse(Branch(d, c))
  BY DEF OldBranch, NewBranch
<1> HIDE DEF c, d
<1>5. PICK k \in 0..(Len(c) - 1), m \in 0..(Len(d) - 1) :
           /\ c[k + 1] = d[m + 1]
           /\ Branch(c, d) = SubSeq(c, 1, k) /\ Branch(d, c) = SubSeq(d, 1, m)
           /\ \A j \in 1..Len(d) : j <= m \/ d[j] \in Range(c)
  BY <1>1, <1>2, ChainsMeet
<1> DEFINE L == [i \in 0..k |-> Replay(c[i + 1], blk, g, store)]
           K == LedgersUp(d, m, blk, g, store)
<1>6. o = SubSeq(c, 1, k) /\ n = Reverse(SubSeq(d, 1, m))
  BY <1>4, <1>5
<1>7. Len(c) \in Nat /\ Len(d) \in Nat /\ k \in Nat /\ m \in Nat /\ k \in 0..Len(c)
  BY <1>3
<1>8. Len(o) = k /\ \A i \in 1..k : o[i] = c[i] /\ i \in 1..Len(c)
  <2>1. Len(SubSeq(c, 1, k)) = k /\ \A i \in 1..k : SubSeq(c, 1, k)[i] = c[i]
    BY <1>3, <1>7, PrefixFacts
  <2>2. \A i \in 1..k : i \in 1..Len(c)
    BY <1>7
  <2> QED
    BY <1>6, <2>1, <2>2
<1>9. L[k] = Replay(d[m + 1], blk, g, store)
  BY <1>5, <1>7
<1> HIDE DEF L, K, led, o, n
<1>10. Unwinds(led, undos, o, blk, g, store, L)
  BY <1>2, <1>6, OldUnwinds DEF L, led
<1>11. /\ Winds(Replay(d[m + 1], blk, g, store), n, blk, g, store, K)
       /\ Len(n) = m /\ K[m] = Replay(new, blk, g, store)
       /\ \A j \in 1..m : /\ n[j] \in store \ {root} /\ n[j] = d[(m - j) + 1]
                          /\ K[j - 1] = Replay(g[n[j]].selected, blk, g, store)
  <2>1. LeadsUp(n, K, new, d, m, blk, g, root, store)
    BY <1>2, <1>6, NewWinds DEF K
  <2> QED
    BY <2>1 DEF LeadsUp
<1>12. led \in LedgerType
  BY <1>1, ReplayType DEF led
<1>13. Atomic(r, led, undos, o, n, blk, g, store, K)
  <2>1. Winds(L[Len(o)], n, blk, g, store, K)
    BY <1>8, <1>9, <1>11
  <2> QED
    BY <1>3, <1>10, <1>12, <2>1, ReorganizeIsAtomic DEF o, n, c, d
<1> HIDE DEF r
<1>14. ASSUME r.ok
       PROVE  /\ r.led = Replay(new, blk, g, store)
              /\ \A x \in DOMAIN r.undos : UndoOf(r.undos, x, blk, g, root, store)
              /\ DOMAIN undos \subseteq DOMAIN r.undos
              /\ \A x \in Range(d) : x \in DOMAIN r.undos \/ x \in Range(c)
  <2>1. r.led = K[Len(n)] /\ Wound(Len(n), r.undos, n, blk, g, store, K) /\ Keeps(undos, r.undos, n)
    BY <1>13, <1>14 DEF Atomic
  <2>2. \A i \in 1..m : /\ ValidateTransactions(K[i - 1], blk[n[i]]) /\ n[i] \in DOMAIN r.undos
                        /\ r.undos[n[i]] = ApplyBlockWithMerges(K[i - 1], n[i], blk, g, store).undo
    BY <1>11, <2>1 DEF Wound
  <2>3. ASSUME NEW x \in DOMAIN r.undos PROVE UndoOf(r.undos, x, blk, g, root, store)
    <3>1. CASE x \in Range(n)
      <4>1. PICK i \in 1..m : x = n[i]
        <5>1. DOMAIN n = 1..m
          <6>1. n \in Seq(DOMAIN g)
            BY <1>3, BranchFacts DEF n, NewBranch, c, d
          <6> QED
            BY <1>11, <6>1
        <5> QED
          BY <3>1, <5>1 DEF Range
      <4>2. /\ x \in store \ {root} /\ ValidateTransactions(Replay(g[x].selected, blk, g, store), blk[x])
            /\ r.undos[x] = ApplyBlockWithMerges(Replay(g[x].selected, blk, g, store), x, blk, g, store).undo
        BY <1>11, <2>2, <4>1
      <4> QED
        BY <4>2 DEF UndoOf
    <3>2. CASE x \notin Range(n)
      <4>1. x \in DOMAIN undos /\ r.undos[x] = undos[x]
        BY <2>1, <3>2 DEF Keeps
      <4>2. UndoOf(undos, x, blk, g, root, store)
        BY <4>1
      <4> QED
        BY <4>1, <4>2 DEF UndoOf
    <3> QED
      BY <3>1, <3>2
  <2>4. ASSUME NEW x \in Range(d) PROVE x \in DOMAIN r.undos \/ x \in Range(c)
    <3>1. PICK j \in 1..Len(d) : x = d[j]
      BY <1>3 DEF Range
    <3>2. CASE j <= m
      <4>1. (m - j) + 1 \in 1..m /\ (m - ((m - j) + 1)) + 1 = j
        BY <1>7, <3>1, <3>2
      <4>2. n[(m - j) + 1] = d[(m - ((m - j) + 1)) + 1]
        BY <1>11, <4>1
      <4> QED
        BY <2>2, <3>1, <4>1, <4>2
    <3> QED
      BY <1>5, <3>1, <3>2
  <2> QED
    BY <1>11, <2>1, <2>3, <2>4 DEF Keeps
<1>15. ASSUME ~r.ok
       PROVE  /\ r.led = led
              /\ NoUndo(undos, old, g, root) \/ Unfit(blk, g, root, store)
  <2>1. r.led = led /\ (Lacks(o, undos, store) \/ Invalid(n, blk, store, K))
    BY <1>13, <1>15 DEF Atomic
  <2>2. CASE Lacks(o, undos, store)
    <3>1. PICK j \in 1..k : ~(o[j] \in DOMAIN undos /\ o[j] \in store)
      BY <1>8, <2>2 DEF Lacks
    <3>2. o[j] = c[j] /\ j \in 1..Len(c) /\ j \in 1..(Len(c) - 1)
      BY <1>7, <1>8, <3>1
    <3>3. c[j] \in store
      BY <1>2, <3>2, ChainStored
    <3>4. c[j] # root
      BY <1>1, <1>2, <3>2, ChainFalls
    <3>5. c[j] \in Range(c)
      BY <1>3, <3>2 DEF Range
    <3>6. NoUndo(undos, old, g, root)
      BY <3>1, <3>2, <3>3, <3>4, <3>5 DEF NoUndo, c
    <3> QED
      BY <2>1, <3>6
  <2>3. CASE Invalid(n, blk, store, K)
    <3>1. PICK j \in 1..m : ~(n[j] \in store /\ ValidateTransactions(K[j - 1], blk[n[j]]))
      BY <1>11, <2>3 DEF Invalid
    <3>2. /\ n[j] \in store \ {root}
          /\ ~ValidateTransactions(Replay(g[n[j]].selected, blk, g, store), blk[n[j]])
      BY <1>11, <3>1
    <3>3. Unfit(blk, g, root, store)
      BY <3>2 DEF Unfit
    <3> QED
      BY <2>1, <3>3
  <2> QED
    BY <2>1, <2>2, <2>3
<1>16. Switched(r, undos, old, new, blk, g, root, store)
  BY <1>14, <1>15 DEF Switched, led, c, d
<1> QED
  BY <1>16 DEF r, led

----------------------------------------------------------------------------
(* The selected parent and the selected tip                                *)

\* In a finite set some element has the greatest value.
LEMMA GreatestBy ==
  ASSUME NEW T, IsFiniteSet(T), T # {}, NEW f, \A x \in T : f[x] \in Nat
  PROVE  \E m \in T : \A x \in T : f[x] <= f[m]
<1> DEFINE Has(s) == \E m \in s : \A x \in s : f[x] <= f[m]
           N == {n \in Nat : \A s \in SUBSET T : Cardinality(s) = n /\ s # {} => Has(s)}
<1>1. \A s \in SUBSET T : IsFiniteSet(s) /\ Cardinality(s) \in Nat
  BY FS_Subset, FS_CardinalityType
<1>2. 0 \in N
  <2>1. \A s \in SUBSET T : Cardinality(s) = 0 => s = {}
    BY <1>1, FS_EmptySet
  <2> QED
    BY <2>1
<1>3. ASSUME NEW n \in Nat, n \in N PROVE n + 1 \in N
  <2>1. SUFFICES ASSUME NEW s \in SUBSET T, Cardinality(s) = n + 1, s # {} PROVE Has(s)
    <3> HIDE DEF Has
    <3> QED
      OBVIOUS
  <2>2. PICK y \in s : TRUE
    BY <2>1
  <2> DEFINE r == s \ {y}
  <2>3. r \in SUBSET T /\ Cardinality(r) = n
    <3>1. Cardinality(s \ {y}) = Cardinality(s) - 1
      BY <1>1, <2>1, <2>2, FS_RemoveElement
    <3> QED
      BY <2>1, <3>1
  <2>4. CASE r = {}
    <3>1. \A x \in s : x = y
      BY <2>4
    <3> QED
      BY <2>1, <2>2, <3>1
  <2>5. CASE r # {}
    <3>1. Has(r)
      <4> HIDE DEF Has, r
      <4> QED
        BY <1>3, <2>3, <2>5
    <3>2. PICK m \in r : \A x \in r : f[x] <= f[m]
      BY <3>1
    <3>3. m \in s /\ \A x \in s : x \in r \/ x = y
      BY <3>2
    <3>4. f[m] \in Nat /\ f[y] \in Nat /\ \A x \in s : f[x] \in Nat
      BY <2>1, <2>2, <3>3
    <3>5. CASE f[y] <= f[m]
      <4>1. \A x \in s : f[x] <= f[m]
        BY <3>2, <3>3, <3>5
      <4> QED
        BY <3>3, <4>1
    <3>6. CASE ~(f[y] <= f[m])
      <4>1. \A x \in s : f[x] <= f[y]
        BY <3>2, <3>3, <3>4, <3>6
      <4> QED
        BY <2>2, <4>1
    <3> QED
      BY <3>5, <3>6
  <2> QED
    BY <2>4, <2>5
<1>4. Nat \subseteq N
  <2> HIDE DEF N
  <2> QED
    BY <1>2, <1>3, SetInduction
<1>5. Cardinality(T) \in N
  BY <1>1, <1>4
<1> QED
  BY <1>5

\* get_selected_tip finds a tip: it is better than every other one.
LEMMA BestTipExists ==
  ASSUME NEW T, T \subseteq Nat, IsFiniteSet(T), T # {}, NEW hdr,
         \A t \in T : hdr[t].score \in Nat /\ hdr[t].work \in Nat
  PROVE  /\ BestTip(hdr, T) \in T
         /\ \A t \in T : hdr[t].score <= hdr[BestTip(hdr, T)].score
<1> DEFINE f == [t \in T |-> hdr[t].score]
           w == [t \in T |-> hdr[t].work]
<1>1. \A t \in T : f[t] = hdr[t].score /\ w[t] = hdr[t].work
  OBVIOUS
<1> HIDE DEF f, w
<1>2. PICK a \in T : \A t \in T : f[t] <= f[a]
  BY <1>1, GreatestBy
<1> DEFINE U == {t \in T : f[t] = f[a]}
<1>3. PICK b \in U : \A t \in U : w[t] <= w[b]
  <2>1. IsFiniteSet(U) /\ U # {} /\ \A t \in U : w[t] \in Nat
    BY <1>1, <1>2, FS_Subset
  <2> HIDE DEF U
  <2> QED
    BY <2>1, GreatestBy
<1> DEFINE V == {t \in U : w[t] = w[b]}
<1>4. PICK c \in V : \A t \in V : c <= t
  <2>1. V \subseteq Nat /\ V # {}
    BY <1>3
  <2> HIDE DEF V
  <2> QED
    BY <2>1, LeastNat
<1>5. ASSUME NEW t \in T \ {c} PROVE BetterTip(hdr, c, t)
  <2>1. /\ c \in Nat /\ t \in Nat /\ f[c] \in Nat /\ f[t] \in Nat /\ w[c] \in Nat /\ w[t] \in Nat
        /\ f[t] <= f[c] /\ (f[t] = f[c] => w[t] <= w[c])
        /\ (f[t] = f[c] /\ w[t] = w[c] => c <= t)
    BY <1>1, <1>2, <1>3, <1>4
  <2>2. \/ f[c] > f[t]
        \/ f[c] = f[t] /\ w[c] > w[t]
        \/ f[c] = f[t] /\ w[c] = w[t] /\ c < t
    BY <2>1
  <2>3. c \in T
    BY <1>4
  <2> QED
    BY <1>1, <2>2, <2>3 DEF BetterTip
<1>6. c \in T
  BY <1>4
<1>7. BestTip(hdr, T) \in T /\ \A t \in T \ {BestTip(hdr, T)} : BetterTip(hdr, BestTip(hdr, T), t)
  BY <1>5, <1>6, Zenon DEF BestTip
<1> DEFINE top == BestTip(hdr, T)
<1> HIDE DEF top
<1>8. top \in T /\ \A t \in T \ {top} : BetterTip(hdr, top, t)
  BY <1>7 DEF top
<1>9. \A t \in T : hdr[t].score <= hdr[top].score
  <2>1. TAKE t \in T
  <2>2. CASE t = top
    <3>1. hdr[t].score \in Nat
      OBVIOUS
    <3> QED
      BY <2>2, <3>1
  <2>3. CASE t # top
    <3>1. BetterTip(hdr, top, t) /\ hdr[t].score \in Nat /\ hdr[top].score \in Nat
      BY <1>8, <2>3
    <3> QED
      BY <3>1 DEF BetterTip
  <2> QED
    BY <2>2, <2>3
<1> QED
  BY <1>8, <1>9 DEF top

\* The choice depends on the headers of the tips only.
LEMMA SameBestTip ==
  ASSUME NEW T, NEW hdr, NEW hdr2, \A t \in T : hdr2[t] = hdr[t]
  PROVE  BestTip(hdr2, T) = BestTip(hdr, T)
<1> DEFINE Best(h, t) == t \in T /\ \A u \in T \ {t} : BetterTip(h, t, u)
<1>1. ASSUME NEW t PROVE Best(hdr2, t) <=> Best(hdr, t)
  <2>1. \A u \in T : t \in T => (BetterTip(hdr2, t, u) <=> BetterTip(hdr, t, u))
    BY DEF BetterTip
  <2> QED
    BY <2>1
<1> HIDE DEF Best
<1>2. (CHOOSE t : Best(hdr2, t)) = (CHOOSE t : Best(hdr, t))
  BY <1>1
<1>3. BestTip(hdr2, T) = (CHOOSE t : Best(hdr2, t)) /\ BestTip(hdr, T) = (CHOOSE t : Best(hdr, t))
  BY DEF BestTip, Best
<1> QED
  BY <1>2, <1>3

\* process_block: the selected parent and the blue merge blocks are parents,
\* and the score is above that of the selected parent.
LEMMA ProcessFacts ==
  ASSUME NEW S, NEW parents \in Seq(S), parents # <<>>, NEW g, Range(parents) \subseteq DOMAIN g,
         \A p \in Range(parents) : g[p].score \in Nat /\ g[p].work \in Nat
  PROVE  LET d == ProcessBlock(parents, g)
         IN  /\ d.selected \in Range(parents) /\ d.blues \subseteq Range(parents)
             /\ d.score \in Nat /\ d.work \in Nat /\ g[d.selected].score < d.score
             /\ \A p \in Range(parents) : g[p].score < d.score
<1> DEFINE pd == ParentData(parents, g)
           n == Len(parents)
           s == SelectedIndex(pd)
           blue == BluePositions(parents, pd)
<1>1. n \in Nat /\ n # 0 /\ DOMAIN parents = 1..n
  OBVIOUS
<1>2. DOMAIN pd = 1..n /\ \A i \in 1..n : parents[i] \in Range(parents) /\ pd[i] = g[parents[i]]
  <2>1. \A i \in 1..n : parents[i] \in Range(parents)
    BY <1>1 DEF Range
  <2> QED
    BY <1>1, <2>1 DEF ParentData, DataOf
<1>3. \A i \in 1..n : pd[i].score \in Nat /\ pd[i].work \in Nat
  BY <1>2
<1> HIDE DEF pd, n
<1>4. s \in 1..n /\ \A j \in 1..n : pd[j].score < pd[s].score \/ pd[j].score = pd[s].score
  <2> DEFINE f == [i \in 1..n |-> pd[i].score]
  <2>1. IsFiniteSet(1..n) /\ 1..n # {} /\ \A i \in 1..n : f[i] \in Nat /\ f[i] = pd[i].score
    <3>1. 1 \in 1..n
      BY <1>1
    <3>2. IsFiniteSet(1..n)
      BY <1>1, FS_Interval
    <3> QED
      BY <1>3, <3>1, <3>2
  <2> HIDE DEF f
  <2>2. PICK a \in 1..n : \A i \in 1..n : f[i] <= f[a]
    BY <2>1, GreatestBy
  <2> DEFINE U == {i \in 1..n : f[i] = f[a]}
             b == Max(U)
  <2>3. b \in U /\ \A i \in U : i <= b
    <3>1. U \in SUBSET (1..n) /\ U # {}
      BY <2>2
    <3> HIDE DEF U
    <3> QED
      BY <1>1, <3>1, MaxOfSet
  <2> HIDE DEF b
  <2>4. b \in 1..n /\ \A j \in 1..n : \/ pd[j].score < pd[b].score
                                      \/ pd[j].score = pd[b].score /\ j <= b
    BY <1>1, <1>3, <2>1, <2>2, <2>3
  <2> QED
    BY <1>2, <2>4 DEF SelectedIndex
<1> HIDE DEF s
<1>5. blue \subseteq 1..n
  BY DEF BluePositions, n
<1> HIDE DEF blue
<1>6. Cardinality(blue) \in Nat
  <2>1. IsFiniteSet(1..n) /\ blue \in SUBSET (1..n)
    BY <1>1, <1>5, FS_Interval
  <2>2. IsFiniteSet(blue)
    BY <2>1, FS_Subset, Zenon
  <2> QED
    BY <2>2, FS_CardinalityType
<1>7. ProcessBlock(parents, g) = MergeData(parents, pd)
  BY DEF ProcessBlock, pd
<1>8. /\ MergeData(parents, pd).score = pd[s].score + 1 + Cardinality(blue)
      /\ MergeData(parents, pd).work = pd[s].work + 1
      /\ MergeData(parents, pd).selected = parents[s]
      /\ MergeData(parents, pd).blues = {parents[i] : i \in blue}
  BY DEF MergeData, s, blue
<1>9. {parents[i] : i \in blue} \subseteq Range(parents)
  BY <1>2, <1>5
<1>10. /\ pd[s].score \in Nat /\ pd[s].work \in Nat /\ parents[s] \in Range(parents)
       /\ pd[s] = g[parents[s]]
  BY <1>2, <1>3, <1>4
<1>11. /\ pd[s].score + 1 + Cardinality(blue) \in Nat /\ pd[s].work + 1 \in Nat
       /\ pd[s].score < pd[s].score + 1 + Cardinality(blue)
  BY <1>6, <1>10
<1>12. ASSUME NEW p \in Range(parents) PROVE g[p].score < pd[s].score + 1 + Cardinality(blue)
  <2>1. PICK j \in 1..n : parents[j] = p
    BY <1>1 DEF Range
  <2>2. pd[j] = g[p] /\ pd[j].score \in Nat
    BY <1>2, <1>3, <2>1
  <2>3. pd[j].score < pd[s].score \/ pd[j].score = pd[s].score
    BY <1>4
  <2> QED
    BY <1>6, <1>10, <2>2, <2>3
<1> QED
  BY <1>7, <1>8, <1>9, <1>10, <1>11, <1>12

----------------------------------------------------------------------------
(* The selected chain of a block, as a set                                 *)

Path(g, x) == Range(SelectedChain(g, x))

\* The chain of the root is the root.
LEMMA PathRoot ==
  ASSUME NEW g, NEW root, GdTree(g, root)
  PROVE  Path(g, root) = {root}
<1> DEFINE c == SelectedChain(g, root)
<1>1. IsChain(g, root, c)
  BY SelectedIsChain DEF GdTree
<1> HIDE DEF c
<1>2. /\ \A i \in 1..(Len(c) - 1) : c[i] # root
      /\ c \in Seq(DOMAIN g) /\ Len(c) >= 1 /\ c[1] = root
  BY <1>1, ChainFalls DEF IsChain
<1>3. Len(c) \in Nat /\ DOMAIN c = 1..Len(c)
  BY <1>2
<1>4. Len(c) = 1
  <2>1. SUFFICES ASSUME Len(c) # 1 PROVE FALSE
    OBVIOUS
  <2>2. 1 \in 1..(Len(c) - 1)
    BY <1>2, <1>3, <2>1
  <2> QED
    BY <1>2, <2>2
<1>5. DOMAIN c = {1}
  BY <1>3, <1>4
<1> QED
  BY <1>2, <1>5 DEF Path, Range, c

\* The chain of another block is the block and the chain of its selected parent.
LEMMA PathStep ==
  ASSUME NEW g, NEW root, GdTree(g, root), NEW x \in DOMAIN g, x # root
  PROVE  /\ g[x].selected \in DOMAIN g
         /\ Path(g, x) = {x} \cup Path(g, g[x].selected)
         /\ x \notin Path(g, g[x].selected)
<1> DEFINE c == SelectedChain(g, x)
           d == SelectedChain(g, g[x].selected)
           r == [i \in 1..(Len(c) - 1) |-> c[i + 1]]
<1>1. g[x].selected \in DOMAIN g
  BY DEF GdTree
<1>2. IsChain(g, x, c) /\ IsChain(g, g[x].selected, d)
  BY <1>1, SelectedIsChain
<1> HIDE DEF c, d
<1>3. Len(c) >= 2 /\ IsChain(g, g[x].selected, r)
  BY <1>2, ChainTail
<1>4. d = r
  <2> HIDE DEF r
  <2> QED
    BY <1>2, <1>3, ChainUnique
<1>5. Once(c) /\ c \in Seq(DOMAIN g) /\ c[1] = x
  BY <1>2, ChainFalls DEF IsChain
<1>6. DOMAIN c = 1..Len(c) /\ Len(c) \in Nat
  BY <1>5
<1>7. DOMAIN d = 1..(Len(c) - 1) /\ \A i \in 1..(Len(c) - 1) : d[i] = c[i + 1]
  BY <1>4
<1>8. Range(c) = {x} \cup Range(d)
  <2>1. Range(c) \subseteq {x} \cup Range(d)
    <3>1. SUFFICES ASSUME NEW i \in 1..Len(c), i # 1 PROVE c[i] \in Range(d)
      BY <1>5, <1>6 DEF Range
    <3>2. i - 1 \in 1..(Len(c) - 1) /\ (i - 1) + 1 = i
      BY <1>6, <3>1
    <3> QED
      BY <1>7, <3>2 DEF Range
  <2>2. x \in Range(c)
    BY <1>3, <1>5, <1>6 DEF Range
  <2>3. Range(d) \subseteq Range(c)
    <3>1. SUFFICES ASSUME NEW i \in 1..(Len(c) - 1) PROVE c[i + 1] \in Range(c)
      BY <1>7 DEF Range
    <3>2. i + 1 \in 1..Len(c)
      BY <1>6
    <3> QED
      BY <1>6, <3>2 DEF Range
  <2> QED
    BY <2>1, <2>2, <2>3
<1>9. x \notin Range(d)
  <2>1. SUFFICES ASSUME NEW i \in 1..(Len(c) - 1), c[i + 1] = c[1] PROVE FALSE
    BY <1>5, <1>7 DEF Range
  <2>2. i + 1 \in DOMAIN c /\ 1 \in DOMAIN c /\ i + 1 # 1
    BY <1>3, <1>6
  <2> QED
    BY <1>5, <2>1, <2>2 DEF Once
<1> QED
  BY <1>1, <1>8, <1>9 DEF Path, c, d

\* It is a finite set of blocks of the tree, the block and the root among them.
LEMMA PathFacts ==
  ASSUME NEW g, NEW root, GdTree(g, root), NEW x \in DOMAIN g
  PROVE  Path(g, x) \subseteq DOMAIN g /\ IsFiniteSet(Path(g, x)) /\ x \in Path(g, x)
         /\ root \in Path(g, x)
<1> DEFINE P == {y \in DOMAIN g : Path(g, y) \subseteq DOMAIN g /\ y \in Path(g, y) /\ root \in Path(g, y)}
<1>1. root \in P
  BY PathRoot DEF GdTree
<1>2. ASSUME NEW h \in DOMAIN g \ {root}, g[h].selected \in P PROVE h \in P
  BY <1>2, PathStep
<1> HIDE DEF P
<1>3. DOMAIN g \subseteq P
  BY <1>1, <1>2, TreeInduction
<1>4. Path(g, x) \subseteq DOMAIN g /\ x \in Path(g, x) /\ root \in Path(g, x)
  BY <1>3 DEF P
<1> QED
  BY <1>4, FS_Subset DEF GdTree

\* The merge blocks that the chain of a block has paid.
PathMerges(g, x) == UNION {g[h].blues : h \in Path(g, x)}

\* What takes effect on the chain of a block: its transactions, by block and
\* position, and the coinbases of the merge blocks.
Effects(blk, g, x) ==
  {e \in Path(g, x) \X Nat : e[2] \in DOMAIN blk[e[1]].txs} \cup (PathMerges(g, x) \X {1})

\* The transaction of an effect.
TxOf(blk, e) == blk[e[1]].txs[e[2]]

\* No two of them have an output in common.
Distinct(blk, S) ==
  \A d, e \in S : d # e => OutPoints(TxOf(blk, d)) \cap OutPoints(TxOf(blk, e)) = {}

\* What the chain of its selected parent paid, and what the block pays.
LEMMA MergesStep ==
  ASSUME NEW g, NEW root, GdTree(g, root), NEW x \in DOMAIN g, x # root
  PROVE  PathMerges(g, x) = g[x].blues \cup PathMerges(g, g[x].selected)
BY PathStep DEF PathMerges

\* A block of the chain has an effect when its selected parent has one.
LEMMA EffectsStep ==
  ASSUME NEW g, NEW root, GdTree(g, root), NEW x \in DOMAIN g, x # root, NEW blk
  PROVE  Effects(blk, g, x)
           = Effects(blk, g, g[x].selected)
             \cup {<<x, i>> : i \in DOMAIN blk[x].txs \cap Nat} \cup (g[x].blues \X {1})
<1>1. /\ Path(g, x) = {x} \cup Path(g, g[x].selected)
      /\ PathMerges(g, x) = g[x].blues \cup PathMerges(g, g[x].selected)
  BY PathStep, MergesStep
<1> DEFINE s == g[x].selected
           A(p) == {e \in p \X Nat : e[2] \in DOMAIN blk[e[1]].txs}
<1>2. A({x} \cup Path(g, s)) = A(Path(g, s)) \cup {<<x, i>> : i \in DOMAIN blk[x].txs \cap Nat}
  OBVIOUS
<1> QED
  BY <1>1, <1>2 DEF Effects

----------------------------------------------------------------------------
(* Where the coins of the chain of a block come from                       *)

\* The stored blocks are typed and have a first transaction; the merge blocks
\* of a block of the tree are stored.
Staged(blk, g, root, store) ==
  /\ GdTree(g, root) /\ Typed(blk, g, store) /\ store \subseteq DOMAIN g
  /\ \A h \in DOMAIN g : 1 \in DOMAIN blk[h].txs /\ g[h].blues \subseteq store

\* Every entry of u was made by one of the effects S.
Sourced(u, blk, S) ==
  \A op \in DOMAIN u : \E e \in S : Made(u, TxOf(blk, e), blk[e[1]].score, op)

\* The merge blocks of a block of the tree.
LEMMA StagedMerges ==
  ASSUME NEW blk, NEW g, NEW root, NEW store, Staged(blk, g, root, store), NEW x \in DOMAIN g
  PROVE  /\ IsBlock(blk[x]) /\ MergesOf(x, g, store) = g[x].blues /\ IsFiniteSet(g[x].blues)
         /\ \A m \in g[x].blues : /\ IsBlock(blk[m]) /\ blk[m].txs # <<>>
                                  /\ Head(blk[m].txs) = blk[m].txs[1]
                                  /\ RewardValue(blk[m]) \in Nat
<1>1. /\ IsBlock(blk[x]) /\ MergesOf(x, g, store) = g[x].blues /\ IsFiniteSet(g[x].blues)
      /\ g[x].blues \subseteq DOMAIN g
  BY DEF Staged, Typed, MergesOf, DataOf
<1>2. ASSUME NEW m \in g[x].blues
      PROVE  /\ IsBlock(blk[m]) /\ blk[m].txs # <<>> /\ Head(blk[m].txs) = blk[m].txs[1]
             /\ RewardValue(blk[m]) \in Nat
  <2>1. IsBlock(blk[m]) /\ 1 \in DOMAIN blk[m].txs
    BY <1>1 DEF Staged, Typed
  <2>2. blk[m].txs \in Seq(TxType)
    BY <2>1 DEF IsBlock
  <2>3. blk[m].txs # <<>> /\ Head(blk[m].txs) = blk[m].txs[1]
    BY <2>1, <2>2
  <2>4. EmptyLedger \in LedgerType
    BY EmptyType
  <2> QED
    BY <2>1, <2>3, <2>4, MergeEffect
<1> QED
  BY <1>1, <1>2

\* One block: the entries are old, or its own, or rewards of its merge blocks.
LEMMA BlockSourced ==
  ASSUME NEW blk, NEW g, NEW root, NEW store, Staged(blk, g, root, store), NEW x \in DOMAIN g,
         NEW l \in LedgerType, NEW S, Sourced(l.utxo, blk, S)
  PROVE  Sourced(ReplayOne(l, x, blk, g, store).utxo, blk,
                 S \cup {<<x, i>> : i \in DOMAIN blk[x].txs \cap Nat} \cup (g[x].blues \X {1}))
<1> DEFINE b  == ApplyBlock(l, blk[x]).led
           M  == g[x].blues
           l2 == PayMerges(b, M, blk).led
           f  == [m \in M |-> RewardValue(blk[m])]
           S2 == S \cup {<<x, i>> : i \in DOMAIN blk[x].txs \cap Nat} \cup (M \X {1})
<1>1. /\ IsBlock(blk[x]) /\ MergesOf(x, g, store) = M /\ IsFiniteSet(M)
      /\ \A m \in M : /\ IsBlock(blk[m]) /\ blk[m].txs # <<>> /\ Head(blk[m].txs) = blk[m].txs[1]
                      /\ f[m] = RewardValue(blk[m]) /\ f[m] \in Nat
  BY StagedMerges
<1>2. b \in LedgerType
  BY <1>1, ApplyBlockType DEF AppliedType
<1>3. ReplayOne(l, x, blk, g, store) = l2
  BY <1>1 DEF ReplayOne, MergesOf
<1>4. \A op \in DOMAIN b.utxo :
        \/ Stays(b.utxo, l.utxo, op)
        \/ \E i \in DOMAIN blk[x].txs : Made(b.utxo, blk[x].txs[i], blk[x].score, op)
  BY <1>1, BlockEntries
<1> HIDE DEF b, f
<1>5. PaidUpTo(b, M, l2, blk, f)
  <2> HIDE DEF M
  <2> QED
    BY <1>1, <1>2, PaidEffect
<1> HIDE DEF l2
<1>6. \A op \in DOMAIN l2.utxo :
        \/ Stays(l2.utxo, b.utxo, op)
        \/ \E m \in M : Made(l2.utxo, Head(blk[m].txs), blk[m].score, op)
  BY <1>5 DEF PaidUpTo
<1>7. DOMAIN blk[x].txs \subseteq Nat
  <2>1. blk[x].txs \in Seq(TxType)
    BY <1>1 DEF IsBlock
  <2> QED
    BY <2>1
<1> HIDE DEF M
<1>8. ASSUME NEW op \in DOMAIN l2.utxo
      PROVE  \E e \in S2 : Made(l2.utxo, TxOf(blk, e), blk[e[1]].score, op)
  <2>1. CASE \E m \in M : Made(l2.utxo, Head(blk[m].txs), blk[m].score, op)
    <3>1. PICK m \in M : Made(l2.utxo, Head(blk[m].txs), blk[m].score, op)
      BY <2>1
    <3>2. <<m, 1>> \in S2 /\ TxOf(blk, <<m, 1>>) = Head(blk[m].txs)
      BY <1>1, <3>1 DEF TxOf
    <3> QED
      BY <3>1, <3>2
  <2>2. CASE Stays(l2.utxo, b.utxo, op)
    <3>1. op \in DOMAIN b.utxo /\ l2.utxo[op] = b.utxo[op]
      BY <2>2 DEF Stays
    <3>2. CASE Stays(b.utxo, l.utxo, op)
      <4>1. op \in DOMAIN l.utxo /\ b.utxo[op] = l.utxo[op]
        BY <3>2 DEF Stays
      <4>2. PICK e \in S : Made(l.utxo, TxOf(blk, e), blk[e[1]].score, op)
        BY <4>1 DEF Sourced
      <4>3. Made(l2.utxo, TxOf(blk, e), blk[e[1]].score, op)
        BY <3>1, <4>1, <4>2 DEF Made
      <4> QED
        BY <4>2, <4>3
    <3>3. CASE \E i \in DOMAIN blk[x].txs : Made(b.utxo, blk[x].txs[i], blk[x].score, op)
      <4>1. PICK i \in DOMAIN blk[x].txs : Made(b.utxo, blk[x].txs[i], blk[x].score, op)
        BY <3>3
      <4>2. <<x, i>> \in S2 /\ TxOf(blk, <<x, i>>) = blk[x].txs[i] /\ <<x, i>>[1] = x
        BY <1>7, <4>1 DEF TxOf
      <4>3. Made(l2.utxo, blk[x].txs[i], blk[x].score, op)
        BY <3>1, <4>1 DEF Made
      <4> QED
        BY <4>2, <4>3
    <3> QED
      BY <1>4, <3>1, <3>2, <3>3
  <2> QED
    BY <1>6, <2>1, <2>2
<1> QED
  BY <1>3, <1>8 DEF Sourced, M

\* What the replay of the root makes.
LEMMA RootSourced ==
  ASSUME NEW blk, NEW g, NEW root, NEW store, Staged(blk, g, root, store), g[root].blues = {}
  PROVE  Effects(blk, g, root) = {<<root, i>> : i \in DOMAIN blk[root].txs \cap Nat}
<1>1. Path(g, root) = {root}
  BY PathRoot DEF Staged
<1>2. PathMerges(g, root) = {}
  BY <1>1 DEF PathMerges
<1> QED
  BY <1>1, <1>2 DEF Effects

\* Every output of the ledger of a block was made by what took effect on the
\* chain of the block.
LEMMA LedgerSourced ==
  ASSUME NEW blk, NEW g, NEW root, NEW store, Staged(blk, g, root, store), g[root].blues = {},
         NEW x \in DOMAIN g
  PROVE  /\ Replay(x, blk, g, store) \in LedgerType
         /\ Sourced(Replay(x, blk, g, store).utxo, blk, Effects(blk, g, x))
<1> DEFINE L(y) == Replay(y, blk, g, store)
           P == {y \in DOMAIN g : Sourced(L(y).utxo, blk, Effects(blk, g, y))}
<1>1. GdTree(g, root) /\ Typed(blk, g, store)
  BY DEF Staged
<1>2. \A y \in DOMAIN g : L(y) \in LedgerType
  BY <1>1, ReplayType
<1>3. root \in P
  <2>1. root \in DOMAIN g /\ L(root) = ReplayOne(EmptyLedger, root, blk, g, store)
    BY <1>1, ReplayRoot DEF GdTree
  <2>2. EmptyLedger \in LedgerType /\ Sourced(EmptyLedger.utxo, blk, {})
    BY EmptyType DEF EmptyLedger, Sourced
  <2> DEFINE R == {} \cup {<<root, i>> : i \in DOMAIN blk[root].txs \cap Nat} \cup (g[root].blues \X {1})
  <2>3. Sourced(ReplayOne(EmptyLedger, root, blk, g, store).utxo, blk, R)
    BY <2>1, <2>2, BlockSourced
  <2>4. Effects(blk, g, root) = R
    BY RootSourced
  <2> HIDE DEF R
  <2> QED
    BY <2>1, <2>3, <2>4
<1>4. ASSUME NEW h \in DOMAIN g \ {root}, g[h].selected \in P PROVE h \in P
  <2> DEFINE s == g[h].selected
             R == Effects(blk, g, s) \cup {<<h, i>> : i \in DOMAIN blk[h].txs \cap Nat}
                  \cup (g[h].blues \X {1})
  <2>1. s \in DOMAIN g /\ Sourced(L(s).utxo, blk, Effects(blk, g, s)) /\ L(s) \in LedgerType
    BY <1>2, <1>4
  <2>2. L(h) = ReplayOne(L(s), h, blk, g, store)
    BY <1>1, ReplayLast
  <2>3. Sourced(ReplayOne(L(s), h, blk, g, store).utxo, blk, R)
    <3> HIDE DEF s, L
    <3> QED
      BY <2>1, BlockSourced
  <2>4. Effects(blk, g, h) = R
    BY <1>1, EffectsStep
  <2> HIDE DEF R
  <2> QED
    BY <2>2, <2>3, <2>4
<1> HIDE DEF P
<1>5. DOMAIN g \subseteq P
  BY <1>1, <1>3, <1>4, TreeInduction
<1> QED
  BY <1>2, <1>5 DEF P

\* The chain of a block of the chain is part of it.
LEMMA PathInside ==
  ASSUME NEW g, NEW root, GdTree(g, root), NEW tip \in DOMAIN g, NEW x \in Path(g, tip)
  PROVE  x \in DOMAIN g /\ Path(g, x) \subseteq Path(g, tip)
<1> DEFINE P == {y \in DOMAIN g : \A z \in Path(g, y) : Path(g, z) \subseteq Path(g, y)}
<1>1. root \in P
  BY PathRoot DEF GdTree
<1>2. ASSUME NEW h \in DOMAIN g \ {root}, g[h].selected \in P PROVE h \in P
  BY <1>2, PathStep
<1> HIDE DEF P
<1>3. DOMAIN g \subseteq P
  BY <1>1, <1>2, TreeInduction
<1>4. \A z \in Path(g, tip) : Path(g, z) \subseteq Path(g, tip)
  BY <1>3 DEF P
<1> QED
  BY <1>4, PathFacts

\* And so is what takes effect on it.
LEMMA EffectsInside ==
  ASSUME NEW g, NEW root, GdTree(g, root), NEW tip \in DOMAIN g, NEW x \in Path(g, tip), NEW blk
  PROVE  Effects(blk, g, x) \subseteq Effects(blk, g, tip)
<1>1. Path(g, x) \subseteq Path(g, tip)
  BY PathInside
<1> QED
  BY <1>1 DEF Effects, PathMerges

\* The blocks of the chain were accepted where they stand, their coinbases
\* spend nothing, and neither does the root.
ChainValid(blk, g, root, store, tip) ==
  /\ \A i \in DOMAIN blk[root].txs : blk[root].txs[i].inputs = <<>>
  /\ \A y \in Path(g, tip) \ {root} :
       /\ ValidateTransactions(Replay(g[y].selected, blk, g, store), blk[y])
       /\ blk[y].txs[1].inputs = <<>>

\* In an accepted block only the first transaction is a coinbase.
LEMMA ValidIsBare ==
  ASSUME NEW led, NEW block, ValidateTransactions(led, block), block.txs[1].inputs = <<>>
  PROVE  Bare(block)
BY DEF ValidateTransactions, Bare

\* Nobody on the chain spends a coinbase of another block before its time.
LEMMA ChainMatures ==
  ASSUME NEW blk, NEW g, NEW root, NEW store, Staged(blk, g, root, store), g[root].blues = {},
         NEW tip \in DOMAIN g, ChainValid(blk, g, root, store, tip),
         Distinct(blk, Effects(blk, g, tip)),
         NEW h \in Path(g, tip), NEW c \in Path(g, tip) \cup PathMerges(g, tip), c # h,
         blk[c].txs[1].coinbase,
         NEW i \in DOMAIN blk[h].txs, NEW op \in Spends(blk[h].txs[i]),
         op \in OutPoints(blk[c].txs[1])
  PROVE  blk[h].score >= blk[c].score + COINBASE_MATURITY
<1>1. GdTree(g, root) /\ h \in DOMAIN g
  BY PathInside DEF Staged
<1>2. h # root
  <2>1. SUFFICES ASSUME h = root PROVE FALSE
    OBVIOUS
  <2>2. blk[h].txs[i].inputs = <<>>
    BY <2>1 DEF ChainValid
  <2>3. Spends(blk[h].txs[i]) = {}
    BY <2>2 DEF Spends
  <2> QED
    BY <2>3
<1> DEFINE s == g[h].selected
           led == Replay(s, blk, g, store)
           C  == <<c, 1>>
<1>3. s \in DOMAIN g /\ s \in Path(g, tip)
  <2>1. s \in DOMAIN g /\ Path(g, h) = {h} \cup Path(g, s)
    BY <1>1, <1>2, PathStep
  <2>2. s \in Path(g, s)
    BY <1>1, <2>1, PathFacts
  <2> QED
    BY <1>1, <2>1, <2>2, PathInside
<1>4. /\ led \in LedgerType /\ Sourced(led.utxo, blk, Effects(blk, g, s))
  BY <1>3, LedgerSourced
<1>5. IsBlock(blk[h]) /\ DOMAIN blk[h].txs \subseteq Nat
  <2>1. IsBlock(blk[h])
    BY <1>1, StagedMerges
  <2>2. blk[h].txs \in Seq(TxType)
    BY <2>1 DEF IsBlock
  <2> QED
    BY <2>1, <2>2
<1>6. ValidateTransactions(led, blk[h]) /\ Bare(blk[h])
  <2>1. ValidateTransactions(led, blk[h]) /\ blk[h].txs[1].inputs = <<>>
    BY <1>2 DEF ChainValid
  <2> QED
    BY <2>1, ValidIsBare
<1>7. op \in Used(blk[h])
  BY DEF Used
<1>8. (op \in DOMAIN led.utxo /\ Mature(led.utxo[op], blk[h].score)) \/ op \in Created(blk[h])
  <2> HIDE DEF led
  <2> QED
    BY <1>4, <1>5, <1>6, <1>7, ValidInputs
<1>9. C \in Effects(blk, g, tip) /\ op \in OutPoints(TxOf(blk, C)) /\ C[1] = c
  <2>1. PathMerges(g, tip) \subseteq DOMAIN g
    BY <1>1, PathFacts DEF Staged, PathMerges
  <2>2. Path(g, tip) \subseteq DOMAIN g
    BY <1>1, PathFacts
  <2>3. 1 \in DOMAIN blk[c].txs
    BY <2>1, <2>2 DEF Staged
  <2> QED
    BY <2>3 DEF Effects, TxOf
<1>10. CASE op \in Created(blk[h])
  <2>1. PICK j \in DOMAIN blk[h].txs : op \in OutPoints(blk[h].txs[j])
    BY <1>10 DEF Created
  <2>2. <<h, j>> \in Effects(blk, g, tip) /\ op \in OutPoints(TxOf(blk, <<h, j>>)) /\ <<h, j>> # C
    BY <1>5, <2>1 DEF Effects, TxOf
  <2> QED
    BY <1>9, <2>2 DEF Distinct
<1>11. CASE op \in DOMAIN led.utxo /\ Mature(led.utxo[op], blk[h].score)
  <2>1. PICK e \in Effects(blk, g, s) : Made(led.utxo, TxOf(blk, e), blk[e[1]].score, op)
    BY <1>4, <1>11 DEF Sourced
  <2>2. e \in Effects(blk, g, tip)
    BY <1>1, <1>3, <2>1, EffectsInside
  <2>3. op \in OutPoints(TxOf(blk, e))
    BY <2>1 DEF Made
  <2>4. e = C
    BY <1>9, <2>2, <2>3 DEF Distinct
  <2>5. led.utxo[op] = Entries(blk[c].txs[1], blk[c].score)[op]
    BY <2>1, <2>4 DEF Made, TxOf
  <2>6. led.utxo[op].height = blk[c].score /\ led.utxo[op].coinbase = TRUE
    BY <2>5 DEF Entries
  <2> QED
    BY <1>11, <2>6 DEF Mature
<1> QED
  BY <1>8, <1>10, <1>11

----------------------------------------------------------------------------
(* What the chain of a block creates and spends                            *)

\* classify_mergeset never colours the selected parent: it is not among the
\* merge blocks that are paid.
LEMMA SelectedNotBlue ==
  ASSUME NEW S, NEW parents \in Seq(S), NEW g
  PROVE  ProcessBlock(parents, g).selected \notin ProcessBlock(parents, g).blues
<1>1. CASE parents = <<>>
  BY <1>1 DEF ProcessBlock, GenesisData
<1>2. CASE parents # <<>>
  <2> DEFINE pd == ParentData(parents, g)
             n  == Len(parents)
             s  == SelectedIndex(pd)
             Far(c, i) == /\ parents[i] # parents[s]
                          /\ Cardinality(EstimateAnticone(parents[i], pd[i],
                                 BlueSet(parents, pd, pd[s], c))) <= GHOSTDAG_K
             Step(c, i) == IF Far(c, i) THEN c \cup {i} ELSE c
             IsColour(f) == f = [i \in 0..n |-> IF i = 0 THEN {} ELSE Step(f[i - 1], i)]
             colour == CHOOSE f : IsColour(f)
  <2>1. n \in Nat
    OBVIOUS
  <2>2. BluePositions(parents, pd) = {i \in 1..n : i \in colour[n]}
    BY DEF BluePositions
  <2> HIDE DEF pd, s, n, Far
  <2>3. \E f : IsColour(f)
    <3> DEFINE X == SUBSET (1..n)
               F == [p \in X \X (1..n) |-> Step(p[1], p[2])]
    <3>1. \A c \in X : \A i \in 1..n : Step(c, i) \in X /\ F[<<c, i>>] = Step(c, i)
      OBVIOUS
    <3>2. IsStep(X, n, F)
      BY DEF IsStep
    <3> HIDE DEF F
    <3>3. {} \in X
      OBVIOUS
    <3> HIDE DEF X
    <3>4. PICK f : IsRecursion(X, {}, n, F, f)
      BY <2>1, <3>2, <3>3, RecursionExists
    <3>5. f \in [0..n -> X] /\ f[0] = {} /\ \A i \in 1..n : f[i] = F[<<f[i - 1], i>>]
      BY <3>4 DEF IsRecursion
    <3>6. \A i \in 1..n : f[i] = Step(f[i - 1], i)
      <4>1. TAKE i \in 1..n
      <4>2. i - 1 \in 0..n
        BY <2>1
      <4> HIDE DEF Step
      <4> QED
        BY <3>1, <3>5, <4>2
    <3>7. \A i \in 0..n : f[i] = IF i = 0 THEN {} ELSE Step(f[i - 1], i)
      <4> HIDE DEF Step
      <4> QED
        BY <2>1, <3>5, <3>6
    <3>8. IsColour(f)
      <4> HIDE DEF Step
      <4> QED
        BY <3>5, <3>7
    <3> QED
      BY <3>8
  <2>4. IsColour(colour)
    <3> HIDE DEF IsColour
    <3> QED
      BY <2>3
  <2>5. \A i \in 0..n : colour[i] = IF i = 0 THEN {} ELSE Step(colour[i - 1], i)
    <3> HIDE DEF Step, colour
    <3> QED
      BY <2>4
  <2> HIDE DEF IsColour, colour
  <2> DEFINE T == {k \in Nat : k <= n => \A i \in colour[k] : parents[i] # parents[s]}
  <2>6. 0 \in T
    <3>1. 0 \in 0..n
      BY <2>1
    <3> QED
      BY <2>5, <3>1
  <2>7. ASSUME NEW k \in Nat, k \in T PROVE k + 1 \in T
    <3>1. SUFFICES ASSUME k + 1 <= n PROVE \A i \in colour[k + 1] : parents[i] # parents[s]
      OBVIOUS
    <3>2. k + 1 \in 0..n /\ k + 1 # 0 /\ (k + 1) - 1 = k /\ k <= n
      BY <2>1, <3>1
    <3>3. colour[k + 1] = Step(colour[k], k + 1)
      <4> HIDE DEF Step
      <4> QED
        BY <2>5, <3>2
    <3>4. \A i \in colour[k] : parents[i] # parents[s]
      BY <2>7, <3>2
    <3>5. Far(colour[k], k + 1) => parents[k + 1] # parents[s]
      BY DEF Far
    <3> QED
      BY <3>3, <3>4, <3>5
  <2> HIDE DEF T
  <2>8. Nat \subseteq T
    BY <2>6, <2>7, SetInduction
  <2>9. \A i \in BluePositions(parents, pd) : parents[i] # parents[s]
    BY <2>1, <2>2, <2>8 DEF T
  <2>10. ProcessBlock(parents, g) = MergeData(parents, pd)
    BY <1>2 DEF ProcessBlock, pd
  <2>11. /\ MergeData(parents, pd).selected = parents[s]
         /\ MergeData(parents, pd).blues = {parents[i] : i \in BluePositions(parents, pd)}
    BY DEF MergeData, s
  <2> QED
    BY <2>9, <2>10, <2>11
<1> QED
  BY <1>1, <1>2

\* What effects create and spend.
Creates(blk, S) == UNION {OutPoints(TxOf(blk, e)) : e \in S}
Consumes(blk, S) == UNION {Spends(TxOf(blk, e)) : e \in S}

\* A block, and those it merges, are not paid yet on the chain it extends.
Apart(g, h) ==
  LET s == g[h].selected
  IN  /\ h \notin PathMerges(g, s)
      /\ g[h].blues \cap (Path(g, s) \cup PathMerges(g, s)) = {}

\* The blocks of the chain of a block: valid where they stand, and none paid
\* twice; the root spends nothing, and its outputs are distinct.
ChainSound(blk, g, root, store, tip) ==
  /\ World(blk, g, root, store) /\ Staged(blk, g, root, store)
  /\ Path(g, tip) \subseteq store /\ g[root].blues = {}
  /\ ChainValid(blk, g, root, store, tip)
  /\ \A i, j \in DOMAIN blk[root].txs :
       i # j => OutPoints(blk[root].txs[i]) \cap OutPoints(blk[root].txs[j]) = {}
  /\ \A y \in Path(g, tip) \ {root} : Apart(g, y)
  /\ \A y \in PathMerges(g, tip) : blk[y].txs[1].coinbase /\ blk[y].txs[1].inputs = <<>>

\* What a block of the tree makes of a ledger: its transactions, then the
\* rewards of the blocks it merges.
LEMMA PaidBlock ==
  ASSUME NEW blk, NEW g, NEW root, NEW store, Staged(blk, g, root, store), NEW h \in DOMAIN g,
         NEW l \in LedgerType,
         NEW f, \A m \in g[h].blues : f[m] = RewardValue(blk[m])
  PROVE  PaidUpTo(ApplyBlock(l, blk[h]).led, g[h].blues, ReplayOne(l, h, blk, g, store), blk, f)
<1> DEFINE b == ApplyBlock(l, blk[h]).led
           M == g[h].blues
<1>1. /\ IsBlock(blk[h]) /\ MergesOf(h, g, store) = M /\ IsFiniteSet(M)
      /\ \A m \in M : /\ IsBlock(blk[m]) /\ blk[m].txs # <<>>
                      /\ f[m] = RewardValue(blk[m]) /\ f[m] \in Nat
  BY StagedMerges
<1>2. b \in LedgerType
  BY <1>1, ApplyBlockType DEF AppliedType
<1>3. ReplayOne(l, h, blk, g, store) = PayMerges(b, M, blk).led
  BY <1>1 DEF ReplayOne, MergesOf
<1> HIDE DEF b, M
<1>4. PaidUpTo(b, M, PayMerges(b, M, blk).led, blk, f)
  BY <1>1, <1>2, PaidEffect
<1> QED
  BY <1>3, <1>4 DEF b, M

\* A block of a sound chain.
LEMMA SoundBlock ==
  ASSUME NEW blk, NEW g, NEW root, NEW store, NEW tip \in DOMAIN g,
         ChainSound(blk, g, root, store, tip),
         NEW h \in Path(g, tip), h # root
  PROVE  LET s == g[h].selected
             l == Replay(s, blk, g, store)
         IN  /\ h \in DOMAIN g /\ s \in DOMAIN g /\ s \in Path(g, tip) /\ Apart(g, h)
             /\ Path(g, h) = {h} \cup Path(g, s) /\ h \notin Path(g, s)
             /\ l \in LedgerType /\ Connectable(l, h, blk, g, store)
             /\ ValidateTransactions(l, blk[h]) /\ Bare(blk[h])
             /\ ApplyBlock(l, blk[h]).ok
             /\ Replay(h, blk, g, store) = ReplayOne(l, h, blk, g, store)
<1> DEFINE s == g[h].selected
           l == Replay(s, blk, g, store)
<1>1. World(blk, g, root, store) /\ GdTree(g, root) /\ h \in store \ {root} /\ h \in DOMAIN g
  BY PathInside DEF ChainSound, World
<1>2. s \in DOMAIN g /\ Path(g, h) = {h} \cup Path(g, s) /\ h \notin Path(g, s)
  BY <1>1, PathStep
<1>3. s \in Path(g, tip)
  <2>1. s \in Path(g, s)
    BY <1>1, <1>2, PathFacts
  <2> QED
    BY <1>1, <1>2, <2>1, PathInside
<1>4. ValidateTransactions(l, blk[h]) /\ blk[h].txs[1].inputs = <<>> /\ Apart(g, h)
  BY DEF ChainSound, ChainValid
<1>5. Bare(blk[h])
  BY <1>4, ValidIsBare
<1>6. /\ l \in LedgerType /\ Connectable(l, h, blk, g, store)
      /\ ApplyBlockWithMerges(l, h, blk, g, store).ok
  BY <1>1, <1>4, StoredConnects
<1>7. Replay(h, blk, g, store) = ReplayOne(l, h, blk, g, store)
  BY <1>1, ReplayLast
<1> HIDE DEF l
<1>8. ApplyBlock(l, blk[h]).ok
  BY <1>6 DEF ApplyBlockWithMerges, AfterBlock
<1> QED
  BY <1>1, <1>2, <1>3, <1>4, <1>5, <1>6, <1>7, <1>8 DEF l

\* What the effects of a block of the chain create and spend.
LEMMA StepCreates ==
  ASSUME NEW blk, NEW g, NEW root, NEW store, NEW tip \in DOMAIN g,
         ChainSound(blk, g, root, store, tip),
         NEW h \in Path(g, tip), h # root
  PROVE  LET E == Effects(blk, g, g[h].selected)
         IN  /\ Creates(blk, Effects(blk, g, h))
                  = Creates(blk, E) \cup Created(blk[h]) \cup Rewards(g[h].blues, blk)
             /\ Consumes(blk, Effects(blk, g, h)) = Consumes(blk, E) \cup Used(blk[h])
<1> DEFINE s == g[h].selected
           M == g[h].blues
           E == Effects(blk, g, s)
           H == {<<h, i>> : i \in DOMAIN blk[h].txs \cap Nat}
           R == M \X {1}
<1>1. GdTree(g, root) /\ h \in DOMAIN g /\ Staged(blk, g, root, store)
  BY PathInside DEF ChainSound, World
<1>2. Effects(blk, g, h) = E \cup H \cup R
  BY <1>1, EffectsStep
<1>3. DOMAIN blk[h].txs \subseteq Nat
  <2>1. blk[h].txs \in Seq(TxType)
    BY <1>1, StagedMerges DEF IsBlock
  <2> QED
    BY <2>1
<1>4. Creates(blk, H) = Created(blk[h]) /\ Consumes(blk, H) = Used(blk[h])
  <2>1. \A e \in H : \E i \in DOMAIN blk[h].txs : TxOf(blk, e) = blk[h].txs[i]
    BY DEF TxOf
  <2>2. \A i \in DOMAIN blk[h].txs : <<h, i>> \in H /\ TxOf(blk, <<h, i>>) = blk[h].txs[i]
    BY <1>3 DEF TxOf
  <2> HIDE DEF H
  <2>3. Creates(blk, H) = Created(blk[h])
    BY <2>1, <2>2, Zenon DEF Creates, Created
  <2>4. Consumes(blk, H) = Used(blk[h])
    BY <2>1, <2>2, Zenon DEF Consumes, Used
  <2> QED
    BY <2>3, <2>4
<1>5. /\ \A m \in M : m \in PathMerges(g, tip)
      /\ \A m \in M : blk[m].txs # <<>> /\ Head(blk[m].txs) = blk[m].txs[1]
  BY <1>1, StagedMerges DEF PathMerges
<1>6. \A m \in M : /\ RewardPoints(blk[m]) = OutPoints(blk[m].txs[1])
                   /\ Spends(blk[m].txs[1]) = {}
  BY <1>5 DEF RewardPoints, ChainSound, Spends
<1>7. Creates(blk, R) = Rewards(M, blk) /\ Consumes(blk, R) = {}
  <2>1. \A e \in R : TxOf(blk, e) = blk[e[1]].txs[1] /\ e[1] \in M
    BY DEF TxOf
  <2>2. \A m \in M : <<m, 1>> \in R /\ TxOf(blk, <<m, 1>>) = blk[m].txs[1]
    BY DEF TxOf
  <2> HIDE DEF R, M
  <2>3. \A e \in R : \E m \in M : OutPoints(TxOf(blk, e)) = RewardPoints(blk[m])
    BY <1>6, <2>1
  <2>4. \A m \in M : \E e \in R : OutPoints(TxOf(blk, e)) = RewardPoints(blk[m])
    BY <1>6, <2>2
  <2>5. \A e \in R : Spends(TxOf(blk, e)) = {}
    BY <1>6, <2>1
  <2>6. Creates(blk, R) = Rewards(M, blk)
    BY <2>3, <2>4, Zenon DEF Creates, Rewards
  <2>7. Consumes(blk, R) = {}
    BY <2>5, Zenon DEF Consumes
  <2> QED
    BY <2>6, <2>7
<1> HIDE DEF E, H, R, M
<1> QED
  BY <1>2, <1>4, <1>7 DEF Creates, Consumes, E, M

\* On a sound chain: the unspent outputs are those that the chain has created
\* and not spent, and it spends nothing else.
Exact(blk, g, store, h) ==
  LET E == Effects(blk, g, h)
  IN  /\ DOMAIN Replay(h, blk, g, store).utxo = Creates(blk, E) \ Consumes(blk, E)
      /\ Consumes(blk, E) \subseteq Creates(blk, E)

\* The root.
LEMMA RootExact ==
  ASSUME NEW blk, NEW g, NEW root, NEW store, NEW tip \in DOMAIN g,
         ChainSound(blk, g, root, store, tip)
  PROVE  Exact(blk, g, store, root)
<1> DEFINE b == ApplyBlock(EmptyLedger, blk[root])
           f == [m \in {} |-> RewardValue(blk[m])]
           r == Replay(root, blk, g, store)
           E == Effects(blk, g, root)
<1>1. /\ GdTree(g, root) /\ Staged(blk, g, root, store) /\ root \in DOMAIN g
      /\ g[root].blues = {} /\ \A i \in DOMAIN blk[root].txs : blk[root].txs[i].inputs = <<>>
  BY DEF ChainSound, World, GdTree, ChainValid
<1>2. IsBlock(blk[root]) /\ EmptyLedger \in LedgerType
  BY <1>1, StagedMerges, EmptyType
<1>3. EmptyLedger.utxo = <<>> /\ DOMAIN EmptyLedger.utxo = {}
  BY DEF EmptyLedger
<1>4. FreshBlock(blk[root], EmptyLedger.utxo) /\ Bare(blk[root])
  BY <1>1, <1>3 DEF ChainSound, FreshBlock, Fresh, Bare
<1>5. b.ok
  BY <1>1, <1>2, BlockCanApply
<1>6. DOMAIN b.led.utxo = Created(blk[root]) \ Used(blk[root])
  <2>1. DOMAIN b.led.utxo = (DOMAIN EmptyLedger.utxo \cup Created(blk[root])) \ Used(blk[root])
    BY <1>2, <1>4, <1>5, BlockDomain
  <2> QED
    BY <1>3, <2>1
<1>7. r = ReplayOne(EmptyLedger, root, blk, g, store)
  BY <1>1, ReplayRoot
<1>8. PaidUpTo(b.led, {}, r, blk, f)
  BY <1>1, <1>2, <1>7, PaidBlock
<1>9. DOMAIN r.utxo = DOMAIN b.led.utxo
  <2>1. Rewards({}, blk) = {}
    BY DEF Rewards
  <2> HIDE DEF b, r, f
  <2> QED
    BY <1>8, <2>1 DEF PaidUpTo
<1>10. DOMAIN blk[root].txs \subseteq Nat
  <2>1. blk[root].txs \in Seq(TxType)
    BY <1>2 DEF IsBlock
  <2> QED
    BY <2>1
<1>11. E = {<<root, i>> : i \in DOMAIN blk[root].txs \cap Nat}
  BY <1>1, RootSourced
<1>12. Creates(blk, E) = Created(blk[root]) /\ Consumes(blk, E) = {}
  <2>1. \A e \in E : \E i \in DOMAIN blk[root].txs : TxOf(blk, e) = blk[root].txs[i]
    BY <1>11 DEF TxOf
  <2>2. \A i \in DOMAIN blk[root].txs : <<root, i>> \in E /\ TxOf(blk, <<root, i>>) = blk[root].txs[i]
    BY <1>10, <1>11 DEF TxOf
  <2> HIDE DEF E
  <2>3. Creates(blk, E) = Created(blk[root])
    BY <2>1, <2>2, Zenon DEF Creates, Created
  <2>4. Consumes(blk, E) = Used(blk[root])
    BY <2>1, <2>2, Zenon DEF Consumes, Used
  <2>5. Used(blk[root]) = {}
    BY <1>1 DEF Used, Spends
  <2> QED
    BY <2>3, <2>4, <2>5
<1>13. Used(blk[root]) = {}
  BY <1>1 DEF Used, Spends
<1> HIDE DEF b, r, E
<1> QED
  BY <1>6, <1>9, <1>12, <1>13 DEF Exact, r, E

\* The sets of one block: what was unspent, with the outputs of the block,
\* less what it spends, with the rewards.
LEMMA SpentSets ==
  ASSUME NEW O, NEW S, NEW C, NEW U, NEW R,
         S \subseteq O, U \subseteq (O \ S) \cup C,
         C \cap S = {}, R \cap S = {}, R \cap U = {}
  PROVE  /\ (((O \ S) \cup C) \ U) \cup R = (O \cup C \cup R) \ (S \cup U)
         /\ S \cup U \subseteq O \cup C \cup R
OBVIOUS

\* Another block of the chain.
LEMMA StepExact ==
  ASSUME NEW blk, NEW g, NEW root, NEW store, NEW tip \in DOMAIN g,
         ChainSound(blk, g, root, store, tip), Distinct(blk, Effects(blk, g, tip)),
         NEW h \in Path(g, tip), h # root, Exact(blk, g, store, g[h].selected)
  PROVE  Exact(blk, g, store, h)
<1> DEFINE s == g[h].selected
           M == g[h].blues
           l == Replay(s, blk, g, store)
           r == Replay(h, blk, g, store)
           E == Effects(blk, g, s)
           F == Effects(blk, g, h)
           O == Creates(blk, E)
           S == Consumes(blk, E)
           C == Created(blk[h])
           U == Used(blk[h])
           R == Rewards(M, blk)
           f == [m \in M |-> RewardValue(blk[m])]
           b == ApplyBlock(l, blk[h])
<1>1. /\ h \in DOMAIN g /\ s \in DOMAIN g /\ s \in Path(g, tip) /\ Apart(g, h)
      /\ Path(g, h) = {h} \cup Path(g, s) /\ h \notin Path(g, s)
      /\ l \in LedgerType /\ Connectable(l, h, blk, g, store)
      /\ Bare(blk[h]) /\ b.ok
      /\ r = ReplayOne(l, h, blk, g, store)
  BY SoundBlock
<1>2. GdTree(g, root) /\ Staged(blk, g, root, store)
  BY DEF ChainSound, World
<1>3. Creates(blk, F) = O \cup C \cup R /\ Consumes(blk, F) = S \cup U
  BY StepCreates
<1>4. IsBlock(blk[h]) /\ FreshBlock(blk[h], l.utxo)
  BY <1>1 DEF Connectable
<1>5. DOMAIN b.led.utxo = (DOMAIN l.utxo \cup C) \ U /\ U \subseteq DOMAIN l.utxo \cup C
  <2> HIDE DEF l
  <2> QED
    BY <1>1, <1>4, BlockDomain
<1>6. DOMAIN r.utxo = DOMAIN b.led.utxo \cup R
  <2>1. PaidUpTo(b.led, M, ReplayOne(l, h, blk, g, store), blk, f)
    <3>1. \A m \in g[h].blues : f[m] = RewardValue(blk[m])
      OBVIOUS
    <3> HIDE DEF f, l
    <3> QED
      BY <1>1, <1>2, <3>1, PaidBlock
  <2> HIDE DEF b, r, f, M, l
  <2> QED
    BY <1>1, <2>1 DEF PaidUpTo
<1>7. DOMAIN l.utxo = O \ S /\ S \subseteq O
  BY DEF Exact
<1>8. C \cap S = {} /\ R \cap S = {}
  <2>1. /\ Effects(blk, g, h) = E \cup {<<h, i>> : i \in DOMAIN blk[h].txs \cap Nat} \cup (M \X {1})
    BY <1>1, <1>2, EffectsStep
  <2>2. F \subseteq Effects(blk, g, tip)
    BY <1>2, EffectsInside
  <2>3. \A e \in E : e[1] \in Path(g, s) \cup PathMerges(g, s)
                     /\ (e[1] \in Path(g, s) \/ e[1] \in PathMerges(g, s))
    BY DEF Effects
  <2>4. ASSUME NEW i \in DOMAIN blk[h].txs
        PROVE  OutPoints(blk[h].txs[i]) \cap O = {}
    <3>1. i \in Nat
      BY <1>4 DEF IsBlock
    <3>2. <<h, i>> \in F /\ TxOf(blk, <<h, i>>) = blk[h].txs[i]
      BY <2>1, <3>1 DEF TxOf
    <3>3. \A e \in E : e # <<h, i>> /\ e \in F
      BY <1>1, <2>1, <2>3 DEF Apart
    <3>4. \A e \in E : OutPoints(TxOf(blk, <<h, i>>)) \cap OutPoints(TxOf(blk, e)) = {}
      BY <2>2, <3>2, <3>3 DEF Distinct
    <3> HIDE DEF E, F
    <3> QED
      BY <3>2, <3>4 DEF Creates
  <2>5. ASSUME NEW m \in M
        PROVE  RewardPoints(blk[m]) \cap O = {}
    <3>1. <<m, 1>> \in F /\ TxOf(blk, <<m, 1>>) = blk[m].txs[1]
      BY <2>1 DEF TxOf
    <3>2. \A e \in E : e # <<m, 1>> /\ e \in F
      BY <1>1, <2>1, <2>3 DEF Apart
    <3>3. \A e \in E : OutPoints(TxOf(blk, <<m, 1>>)) \cap OutPoints(TxOf(blk, e)) = {}
      BY <2>2, <3>1, <3>2 DEF Distinct
    <3>4. RewardPoints(blk[m]) \subseteq OutPoints(blk[m].txs[1])
      <4>1. Head(blk[m].txs) = blk[m].txs[1]
        BY <1>1, <1>2, StagedMerges
      <4> QED
        BY <4>1 DEF RewardPoints
    <3> HIDE DEF E, F
    <3> QED
      BY <3>1, <3>3, <3>4 DEF Creates
  <2>6. C \cap O = {}
    <3> HIDE DEF O
    <3> QED
      BY <2>4 DEF Created
  <2>7. R \cap O = {}
    <3> HIDE DEF O, M
    <3> QED
      BY <2>5 DEF Rewards
  <2> QED
    BY <1>7, <2>6, <2>7
<1>9. R \cap U = {}
  <2>1. \A m \in M : \A i \in DOMAIN blk[h].txs : RewardPoints(blk[m]) \cap Spends(blk[h].txs[i]) = {}
    <3>1. MergesOf(h, g, store) = M
      BY <1>1, <1>2, StagedMerges
    <3> HIDE DEF M, l
    <3> QED
      BY <1>1, <3>1 DEF Connectable
  <2> HIDE DEF M
  <2> QED
    BY <2>1 DEF Rewards, Used
<1> HIDE DEF O, S, C, U, R, E, F, r, b, l
<1>10. U \subseteq (O \ S) \cup C
  BY <1>5, <1>7
<1>11. /\ (((O \ S) \cup C) \ U) \cup R = (O \cup C \cup R) \ (S \cup U)
       /\ S \cup U \subseteq O \cup C \cup R
  BY <1>7, <1>8, <1>9, <1>10, SpentSets
<1>12. DOMAIN r.utxo = Creates(blk, F) \ Consumes(blk, F) /\ Consumes(blk, F) \subseteq Creates(blk, F)
  BY <1>3, <1>5, <1>6, <1>7, <1>11
<1> QED
  BY <1>12 DEF Exact, r, F

\* So it is all along a sound chain.
LEMMA ChainExact ==
  ASSUME NEW blk, NEW g, NEW root, NEW store, NEW tip \in DOMAIN g,
         ChainSound(blk, g, root, store, tip), Distinct(blk, Effects(blk, g, tip))
  PROVE  Exact(blk, g, store, tip)
<1> DEFINE P == {y \in DOMAIN g : y \in Path(g, tip) => Exact(blk, g, store, y)}
<1>1. GdTree(g, root) /\ root \in DOMAIN g
  BY DEF ChainSound, World, GdTree
<1>2. root \in P
  BY <1>1, RootExact
<1>3. ASSUME NEW h \in DOMAIN g \ {root}, g[h].selected \in P PROVE h \in P
  <2>1. SUFFICES ASSUME h \in Path(g, tip) PROVE Exact(blk, g, store, h)
    OBVIOUS
  <2>2. g[h].selected \in Path(g, tip)
    BY <2>1, SoundBlock
  <2> QED
    BY <1>3, <2>1, <2>2, StepExact
<1> HIDE DEF P
<1>4. DOMAIN g \subseteq P
  BY <1>1, <1>2, <1>3, TreeInduction
<1> QED
  BY <1>1, <1>4, PathFacts DEF P

\* The chain of a stored block is stored.
LEMMA PathStored ==
  ASSUME NEW blk, NEW g, NEW root, NEW store, World(blk, g, root, store), NEW tip \in store
  PROVE  Path(g, tip) \subseteq store
<1> DEFINE c == SelectedChain(g, tip)
<1>1. IsChain(g, tip, c)
  BY SelectedIsChain DEF World
<1> HIDE DEF c
<1>2. \A i \in 1..Len(c) : c[i] \in store
  BY <1>1, ChainStored
<1>3. DOMAIN c = 1..Len(c)
  BY <1>1 DEF IsChain
<1> QED
  BY <1>2, <1>3 DEF Path, Range, c

----------------------------------------------------------------------------
(* What the chain of a block mints                                         *)

\* What the ledger of block h is worth: at most what the root brings, the
\* subsidies fr of the chain and the rewards fm of the merge blocks.
Bounded(blk, g, root, store, h, gen, fr, fm) ==
  LET v == ValueOf(Replay(h, blk, g, store))
  IN  v \in Nat /\ v <= gen + SumFunctionOnSet(fr, Path(g, h) \ {root})
                            + SumFunctionOnSet(fm, PathMerges(g, h))

\* The subsidies and rewards of the blocks of the chain.
Paying(blk, g, root, tip, fr, fm) ==
  /\ \A h \in Path(g, tip) \ {root} : fr[h] = BlockReward(Schedule, blk[h].score)
  /\ \A m \in PathMerges(g, tip) : fm[m] = RewardValue(blk[m])

\* The root brings its outputs.
RootBrings(blk, root, gen) ==
  \E f : /\ \A i \in DOMAIN blk[root].txs : f[i] = TotalOutput(blk[root].txs[i])
         /\ gen = SumFunctionOnSet(f, DOMAIN blk[root].txs)

\* An empty ledger is worth nothing.
LEMMA EmptyValue == ValueOf(EmptyLedger) = 0
<1>1. EmptyLedger.utxo = <<>> /\ EmptyLedger.burned = 0
  BY DEF EmptyLedger
<1>2. Holdings(<<>>) = 0
  <2>1. DOMAIN <<>> = {}
    OBVIOUS
  <2> QED
    BY <2>1, SumEmpty DEF Holdings
<1> QED
  BY <1>1, <1>2 DEF ValueOf

\* The root.
LEMMA RootBounded ==
  ASSUME NEW blk, NEW g, NEW root, NEW store, NEW tip \in DOMAIN g,
         ChainSound(blk, g, root, store, tip),
         NEW gen \in Nat, RootBrings(blk, root, gen), NEW fr, NEW fm
  PROVE  Bounded(blk, g, root, store, root, gen, fr, fm)
<1> DEFINE b == ApplyBlock(EmptyLedger, blk[root])
           e == [m \in {} |-> RewardValue(blk[m])]
           r == Replay(root, blk, g, store)
<1>1. /\ GdTree(g, root) /\ Staged(blk, g, root, store) /\ root \in DOMAIN g
      /\ g[root].blues = {} /\ \A i \in DOMAIN blk[root].txs : blk[root].txs[i].inputs = <<>>
  BY DEF ChainSound, World, GdTree, ChainValid
<1>2. IsBlock(blk[root]) /\ EmptyLedger \in LedgerType
  BY <1>1, StagedMerges, EmptyType
<1>3. EmptyLedger.utxo = <<>> /\ DOMAIN EmptyLedger.utxo = {}
  BY DEF EmptyLedger
<1>4. FreshBlock(blk[root], EmptyLedger.utxo)
  BY <1>3 DEF ChainSound, FreshBlock, Fresh
<1>5. b.ok
  BY <1>1, <1>2, BlockCanApply
<1>6. ValueOf(b.led) <= 0 + gen
  <2>1. PICK f : /\ \A i \in DOMAIN blk[root].txs : f[i] = TotalOutput(blk[root].txs[i])
                 /\ gen = SumFunctionOnSet(f, DOMAIN blk[root].txs)
    BY DEF RootBrings
  <2>2. ValueOf(b.led) <= ValueOf(EmptyLedger) + SumFunctionOnSet(f, DOMAIN blk[root].txs)
    BY <1>2, <1>4, <1>5, <2>1, BlockBrings
  <2> QED
    BY <2>1, <2>2, EmptyValue
<1>7. r = ReplayOne(EmptyLedger, root, blk, g, store)
  BY <1>1, ReplayRoot
<1>8. PaidUpTo(b.led, {}, r, blk, e)
  BY <1>1, <1>2, <1>7, PaidBlock
<1> HIDE DEF b, r, e
<1>9. ValueOf(b.led) \in Nat /\ ValueOf(r) \in Nat /\ ValueOf(r) <= ValueOf(b.led) + 0
  <2>1. SumFunctionOnSet(e, {}) = 0
    BY SumEmpty
  <2> QED
    BY <1>8, <2>1 DEF PaidUpTo
<1>10. SumFunctionOnSet(fr, Path(g, root) \ {root}) = 0
  <2>1. Path(g, root) \ {root} = {}
    BY <1>1, PathRoot
  <2> QED
    BY <2>1, SumEmpty
<1>11. SumFunctionOnSet(fm, PathMerges(g, root)) = 0
  <2>1. PathMerges(g, root) = {}
    BY <1>1, PathRoot DEF PathMerges
  <2> QED
    BY <2>1, SumEmpty
<1>12. ValueOf(r) <= gen + 0 + 0
  BY <1>6, <1>9
<1> QED
  BY <1>9, <1>10, <1>11, <1>12 DEF Bounded, r

\* Another block of the chain.
LEMMA StepBounded ==
  ASSUME NEW blk, NEW g, NEW root, NEW store, NEW tip \in DOMAIN g,
         ChainSound(blk, g, root, store, tip), NEW gen \in Nat, NEW fr, NEW fm,
         Paying(blk, g, root, tip, fr, fm),
         NEW h \in Path(g, tip), h # root,
         Bounded(blk, g, root, store, g[h].selected, gen, fr, fm)
  PROVE  Bounded(blk, g, root, store, h, gen, fr, fm)
<1> DEFINE s == g[h].selected
           M == g[h].blues
           l == Replay(s, blk, g, store)
           r == Replay(h, blk, g, store)
           b == ApplyBlock(l, blk[h])
           A == Path(g, s) \ {root}
           B == PathMerges(g, s)
<1>1. /\ h \in DOMAIN g /\ s \in DOMAIN g /\ s \in Path(g, tip) /\ Apart(g, h)
      /\ Path(g, h) = {h} \cup Path(g, s) /\ h \notin Path(g, s)
      /\ l \in LedgerType /\ Connectable(l, h, blk, g, store)
      /\ ValidateTransactions(l, blk[h])
      /\ r = ReplayOne(l, h, blk, g, store)
  BY SoundBlock
<1>2. GdTree(g, root) /\ Staged(blk, g, root, store) /\ IsFiniteSet(DOMAIN g)
  BY DEF ChainSound, World, GdTree
<1>3. IsBlock(blk[h]) /\ FreshBlock(blk[h], l.utxo)
  BY <1>1 DEF Connectable
<1>4. /\ BlockReward(Schedule, blk[h].score) \in Nat /\ ValueOf(l) \in Nat
      /\ ValueOf(b.led) <= ValueOf(l) + BlockReward(Schedule, blk[h].score)
  <2> HIDE DEF l
  <2> QED
    BY <1>1, <1>3, BlockMintsSubsidy
<1>5. M \subseteq PathMerges(g, tip) /\ PathMerges(g, h) = M \cup B /\ M \cap B = {}
      /\ PathMerges(g, h) \subseteq PathMerges(g, tip)
  <2>1. PathMerges(g, h) = M \cup B
    BY <1>1, <1>2, MergesStep
  <2>2. Path(g, h) \subseteq Path(g, tip)
    BY <1>2, PathInside
  <2>3. PathMerges(g, h) \subseteq PathMerges(g, tip)
    BY <2>2 DEF PathMerges
  <2> QED
    BY <1>1, <2>1, <2>3 DEF Apart
<1>6. PaidUpTo(b.led, M, ReplayOne(l, h, blk, g, store), blk, fm)
  <2>1. \A m \in M : fm[m] = RewardValue(blk[m])
    BY <1>5 DEF Paying
  <2> HIDE DEF l
  <2> QED
    BY <1>1, <1>2, <2>1, PaidBlock
<1>7. /\ ValueOf(b.led) \in Nat /\ ValueOf(r) \in Nat
      /\ ValueOf(r) <= ValueOf(b.led) + SumFunctionOnSet(fm, M)
  <2> HIDE DEF b, r, M, l
  <2> QED
    BY <1>1, <1>6 DEF PaidUpTo
<1>8. SumFunctionOnSet(fr, Path(g, h) \ {root}) = fr[h] + SumFunctionOnSet(fr, A)
      /\ SumFunctionOnSet(fr, A) \in Nat
  <2>1. Path(g, h) \ {root} = A \cup {h} /\ h \notin A
    BY <1>1
  <2>2. A \subseteq Path(g, tip)
    BY <1>1, <1>2, PathInside
  <2>3. IsFiniteSet(A)
    <3>1. IsFiniteSet(Path(g, s))
      BY <1>1, <1>2, PathFacts
    <3> QED
      BY <3>1, FS_Subset
  <2>4. fr[h] \in Nat
    BY <1>4 DEF Paying
  <2>5. \A y \in A : fr[y] \in Nat
    <3>1. TAKE y \in A
    <3> DEFINE k == Replay(g[y].selected, blk, g, store)
    <3>2. y \in Path(g, tip) /\ y # root
      BY <2>2
    <3>3. k \in LedgerType /\ Connectable(k, y, blk, g, store) /\ ValidateTransactions(k, blk[y])
      BY <3>2, SoundBlock
    <3>4. IsBlock(blk[y]) /\ FreshBlock(blk[y], k.utxo)
      BY <3>3 DEF Connectable
    <3> HIDE DEF k
    <3>5. BlockReward(Schedule, blk[y].score) \in Nat
      BY <3>3, <3>4, BlockMintsSubsidy
    <3> QED
      BY <3>2, <3>5 DEF Paying
  <2> HIDE DEF A
  <2>6. SumFunctionOnSet(fr, A \cup {h}) = fr[h] + SumFunctionOnSet(fr, A)
    BY <2>1, <2>3, <2>4, <2>5, SumAdd
  <2>7. SumFunctionOnSet(fr, A) \in Nat
    BY <2>3, <2>5, SumNat
  <2> QED
    BY <2>1, <2>6, <2>7
<1>9. SumFunctionOnSet(fm, PathMerges(g, h)) = SumFunctionOnSet(fm, M) + SumFunctionOnSet(fm, B)
      /\ SumFunctionOnSet(fm, M) \in Nat /\ SumFunctionOnSet(fm, B) \in Nat
  <2> DEFINE W == PathMerges(g, h)
  <2>1. \A m \in W : fm[m] \in Nat
    <3>1. TAKE m \in W
    <3>2. PICK y \in Path(g, h) : m \in g[y].blues
      BY DEF PathMerges
    <3>3. y \in DOMAIN g
      BY <1>1, <1>2, PathFacts
    <3>4. RewardValue(blk[m]) \in Nat
      BY <1>2, <3>2, <3>3, StagedMerges
    <3> QED
      BY <1>5, <3>4 DEF Paying
  <2>2. IsFiniteSet(W)
    <3>1. W \subseteq DOMAIN g
      <4>1. Path(g, h) \subseteq DOMAIN g
        BY <1>1, <1>2, PathFacts
      <4> QED
        BY <1>2, <4>1 DEF PathMerges, Staged
    <3> QED
      BY <1>2, <3>1, FS_Subset
  <2>3. M \subseteq W /\ W \ M = B
    BY <1>5
  <2> HIDE DEF W, M, B
  <2>4. SumFunctionOnSet(fm, W) = SumFunctionOnSet(fm, M) + SumFunctionOnSet(fm, W \ M)
    BY <2>1, <2>2, <2>3, SumSplit
  <2>5. SumFunctionOnSet(fm, M) \in Nat
    <3>1. IsFiniteSet(M)
      BY <2>2, <2>3, FS_Subset
    <3> QED
      BY <2>1, <2>3, <3>1, SumNat
  <2>6. SumFunctionOnSet(fm, B) \in Nat
    <3>1. IsFiniteSet(B) /\ B \subseteq W
      BY <2>2, <2>3, FS_Subset
    <3> QED
      BY <2>1, <3>1, SumNat
  <2> QED
    BY <2>3, <2>4, <2>5, <2>6 DEF W
<1>10. fr[h] = BlockReward(Schedule, blk[h].score)
  BY DEF Paying
<1>11. ValueOf(l) <= gen + SumFunctionOnSet(fr, A) + SumFunctionOnSet(fm, B)
  BY DEF Bounded
<1> DEFINE v0 == ValueOf(l)
           v1 == ValueOf(b.led)
           v2 == ValueOf(r)
           p == SumFunctionOnSet(fr, A)
           q == SumFunctionOnSet(fm, B)
           m == SumFunctionOnSet(fm, M)
           y == BlockReward(Schedule, blk[h].score)
           P == SumFunctionOnSet(fr, Path(g, h) \ {root})
           Q == SumFunctionOnSet(fm, PathMerges(g, h))
<1>12. /\ v0 \in Nat /\ v1 \in Nat /\ v2 \in Nat /\ p \in Nat /\ q \in Nat /\ m \in Nat /\ y \in Nat
       /\ v1 <= v0 + y /\ v2 <= v1 + m /\ v0 <= gen + p + q /\ P = y + p /\ Q = m + q
  BY <1>4, <1>7, <1>8, <1>9, <1>10, <1>11, Zenon
<1> HIDE DEF v0, v1, v2, p, q, m, y, P, Q
<1>13. v2 \in Nat /\ v2 <= gen + P + Q
  BY <1>12
<1> QED
  BY <1>13 DEF Bounded, v2, P, Q

\* So it is all along a sound chain.
LEMMA ChainBounded ==
  ASSUME NEW blk, NEW g, NEW root, NEW store, NEW tip \in DOMAIN g,
         ChainSound(blk, g, root, store, tip),
         NEW gen \in Nat, RootBrings(blk, root, gen), NEW fr, NEW fm,
         Paying(blk, g, root, tip, fr, fm)
  PROVE  Bounded(blk, g, root, store, tip, gen, fr, fm)
<1> DEFINE P == {y \in DOMAIN g : y \in Path(g, tip) => Bounded(blk, g, root, store, y, gen, fr, fm)}
<1>1. GdTree(g, root) /\ root \in DOMAIN g
  BY DEF ChainSound, World, GdTree
<1>2. root \in P
  BY <1>1, RootBounded
<1>3. ASSUME NEW h \in DOMAIN g \ {root}, g[h].selected \in P PROVE h \in P
  <2>1. SUFFICES ASSUME h \in Path(g, tip) PROVE Bounded(blk, g, root, store, h, gen, fr, fm)
    OBVIOUS
  <2>2. g[h].selected \in Path(g, tip)
    BY <2>1, SoundBlock
  <2> QED
    BY <1>3, <2>1, <2>2, StepBounded
<1> HIDE DEF P
<1>4. DOMAIN g \subseteq P
  BY <1>1, <1>2, <1>3, TreeInduction
<1> QED
  BY <1>1, <1>4, PathFacts DEF P

----------------------------------------------------------------------------
(* Ids that do not collide                                                 *)

\* An id names one transaction, and a transaction that spends nothing, such as
\* a coinbase, occurs once.
OneName(blk, S) ==
  \A d, e \in S :
    TxOf(blk, d).id = TxOf(blk, e).id =>
      /\ TxOf(blk, d) = TxOf(blk, e)
      /\ TxOf(blk, d).coinbase \/ TxOf(blk, d).inputs = <<>> => d = e

\* The ledger when the transactions of A have been applied, each for the first
\* time: what is unspent was made by them, and what they took was made by them
\* and is gone.
Apt(u, blk, A) ==
  /\ DOMAIN u \subseteq Creates(blk, A)
  /\ \A e \in A : Consumed(TxOf(blk, e)) \subseteq Creates(blk, A) \ DOMAIN u

\* What one more effect creates.
LEMMA CreatesOneMore ==
  ASSUME NEW blk, NEW A, NEW e
  PROVE  Creates(blk, A \cup {e}) = Creates(blk, A) \cup OutPoints(TxOf(blk, e))
BY Zenon DEF Creates

\* What two sets of effects create.
LEMMA CreatesUnion ==
  ASSUME NEW blk, NEW A, NEW B
  PROVE  Creates(blk, A \cup B) = Creates(blk, A) \cup Creates(blk, B)
BY Zenon DEF Creates

\* An output is created where some effect creates it.
LEMMA CreatesMember ==
  ASSUME NEW blk, NEW A, NEW op
  PROVE  op \in Creates(blk, A) <=> \E e \in A : op \in OutPoints(TxOf(blk, e))
BY Zenon DEF Creates

\* A transaction that can be applied has not been applied before, so its
\* outputs are new: if it takes nothing it occurs only once, and what it took
\* the first time would be gone.
LEMMA AptIsNew ==
  ASSUME NEW blk, NEW S, OneName(blk, S), NEW A \in SUBSET S, NEW e \in S, e \notin A,
         NEW led \in LedgerType, Apt(led.utxo, blk, A),
         TxOf(blk, e) \in TxType, NEW height \in Nat,
         ApplyTransaction(led, TxOf(blk, e), height).ok
  PROVE  /\ \A d \in A : TxOf(blk, d).id # TxOf(blk, e).id
         /\ OutPoints(TxOf(blk, e)) \cap Creates(blk, A) = {}
         /\ Consumed(TxOf(blk, e)) \subseteq Creates(blk, A)
<1> DEFINE tx == TxOf(blk, e)
<1>1. Consumed(tx) \subseteq DOMAIN led.utxo
  <2>1. tx \in TxType /\ ApplyTransaction(led, tx, height).ok
    OBVIOUS
  <2> HIDE DEF tx
  <2> QED
    BY <2>1, AppliedEntries
<1>2. ASSUME NEW d \in A, TxOf(blk, d).id = tx.id PROVE FALSE
  <2>1. TxOf(blk, d) = tx /\ ~(tx.coinbase \/ tx.inputs = <<>>)
    BY <1>2 DEF OneName
  <2>2. tx.inputs \in Seq(InputType)
    BY DEF TxType
  <2>3. 1 \in DOMAIN tx.inputs
    BY <2>1, <2>2
  <2>4. tx.inputs[1].op \in Consumed(tx)
    BY <2>1, <2>3 DEF Consumed, Spends
  <2>5. Consumed(tx) \cap DOMAIN led.utxo = {}
    <3>1. Consumed(TxOf(blk, d)) \cap DOMAIN led.utxo = {}
      BY DEF Apt
    <3> QED
      BY <2>1, <3>1
  <2> QED
    BY <1>1, <2>4, <2>5
<1>3. OutPoints(tx) \cap Creates(blk, A) = {}
  <2> SUFFICES ASSUME NEW op \in OutPoints(tx), op \in Creates(blk, A) PROVE FALSE
    OBVIOUS
  <2>1. PICK d \in A : op \in OutPoints(TxOf(blk, d))
    BY CreatesMember
  <2>2. TxOf(blk, d).id = tx.id
    BY <2>1 DEF OutPoints
  <2> QED
    BY <1>2, <2>2
<1>4. Consumed(tx) \subseteq Creates(blk, A)
  BY <1>1 DEF Apt
<1> QED
  BY <1>2, <1>3, <1>4

\* The ledger after it.
LEMMA AptNext ==
  ASSUME NEW blk, NEW S, OneName(blk, S), NEW A \in SUBSET S, NEW e \in S, e \notin A,
         NEW led \in LedgerType, Apt(led.utxo, blk, A),
         TxOf(blk, e) \in TxType, NEW height \in Nat,
         ApplyTransaction(led, TxOf(blk, e), height).ok
  PROVE  Apt(ApplyTransaction(led, TxOf(blk, e), height).led.utxo, blk, A \cup {e})
<1> DEFINE tx == TxOf(blk, e)
           u == led.utxo
           v == ApplyTransaction(led, tx, height).led.utxo
           C == Creates(blk, A)
           D == Creates(blk, A \cup {e})
<1>1. DOMAIN v = OutPoints(tx) \cup (DOMAIN u \ Consumed(tx))
  <2>1. tx \in TxType /\ ApplyTransaction(led, tx, height).ok
    OBVIOUS
  <2> HIDE DEF tx
  <2> QED
    BY <2>1, AppliedEntries
<1>2. OutPoints(tx) \cap C = {} /\ Consumed(tx) \subseteq C
  BY AptIsNew
<1>3. D = C \cup OutPoints(tx)
  BY CreatesOneMore
<1>4. DOMAIN u \subseteq C /\ \A d \in A : Consumed(TxOf(blk, d)) \subseteq C \ DOMAIN u
  BY DEF Apt
<1> HIDE DEF u, v, C, D
<1>5. DOMAIN v \subseteq D
  BY <1>1, <1>3, <1>4
<1>6. ASSUME NEW d \in A \cup {e} PROVE Consumed(TxOf(blk, d)) \subseteq D \ DOMAIN v
  <2>1. CASE d \in A
    <3>1. Consumed(TxOf(blk, d)) \subseteq C \ DOMAIN u
      BY <1>4, <2>1
    <3> QED
      BY <1>1, <1>2, <1>3, <3>1
  <2>2. CASE d = e
    <3>1. Consumed(TxOf(blk, d)) = Consumed(tx)
      BY <2>2
    <3> QED
      BY <1>1, <1>2, <1>3, <3>1
  <2> QED
    BY <2>1, <2>2
<1> QED
  BY <1>5, <1>6 DEF Apt, v, D

\* Taking entries out changes nothing.
LEMMA AptLess ==
  ASSUME NEW u, NEW v, DOMAIN v \subseteq DOMAIN u, NEW blk, NEW A, Apt(u, blk, A)
  PROVE  Apt(v, blk, A)
BY DEF Apt

\* A transaction that fails adds nothing.
LEMMA FailedTakes ==
  ASSUME NEW led \in LedgerType, NEW tx \in TxType, NEW height \in Nat,
         ~ApplyTransaction(led, tx, height).ok
  PROVE  DOMAIN ApplyTransaction(led, tx, height).led.utxo \subseteq DOMAIN led.utxo
<1> DEFINE u == led.utxo
           ops == TakenOps(tx, Taken(u, tx))
           rest == Without(u, ops)
<1>1. ApplyTransaction(led, tx, height).led = [utxo |-> rest, burned |-> led.burned]
  BY ApplyType
<1>2. u \in UtxoType
  BY DEF LedgerType
<1>3. ApplyTransaction(led, tx, height).led.utxo = rest
  BY <1>1
<1> HIDE DEF u, ops
<1>4. DOMAIN rest = DOMAIN u \ ops
  BY <1>2, WithoutType
<1> HIDE DEF rest
<1> QED
  BY <1>3, <1>4 DEF u

\* The first k transactions of a block, as effects.
Slots(h, k) == {<<h, i>> : i \in 1..k}

\* One transaction more.
LEMMA SlotsMore ==
  ASSUME NEW h, NEW k \in Nat
  PROVE  /\ Slots(h, k + 1) = Slots(h, k) \cup {<<h, k + 1>>}
         /\ <<h, k + 1>> \notin Slots(h, k) /\ Slots(h, 0) = {}
<1>1. 1..(k + 1) = 1..k \cup {k + 1} /\ k + 1 \notin 1..k /\ 1..0 = {}
  OBVIOUS
<1>2. Slots(h, k + 1) = Slots(h, k) \cup {<<h, k + 1>>}
  <2> DEFINE I == 1..k
             J == 1..(k + 1)
  <2>1. J = I \cup {k + 1}
    BY <1>1
  <2>2. Slots(h, k) = {<<h, i>> : i \in I} /\ Slots(h, k + 1) = {<<h, i>> : i \in J}
    BY DEF Slots
  <2> HIDE DEF I, J
  <2> QED
    BY <2>1, <2>2, Zenon
<1>3. Slots(h, 0) = {} /\ <<h, k + 1>> \notin Slots(h, k)
  BY <1>1 DEF Slots
<1> QED
  BY <1>2, <1>3

\* The ledgers of a block whose transactions are applied one by one: an error
\* ends the block and leaves what went before it.
RunApt(blk, h, A, a, k) ==
  \E B \in SUBSET (A \cup Slots(h, k)) :
    /\ A \subseteq B /\ Apt(a[k].led.utxo, blk, B)
    /\ a[k].ok => B = A \cup Slots(h, k)

\* Whatever prefix of the block is applied, the ledger comes from effects of it.
LEMMA AptRun ==
  ASSUME NEW blk, NEW S, OneName(blk, S), NEW h, IsBlock(blk[h]), NEW led \in LedgerType,
         NEW A \in SUBSET S, Apt(led.utxo, blk, A),
         Slots(h, Len(blk[h].txs)) \subseteq S, Slots(h, Len(blk[h].txs)) \cap A = {},
         NEW a, IsBlockRun(led, blk[h], a)
  PROVE  \A k \in 0..Len(blk[h].txs) : RunApt(blk, h, A, a, k)
<1> DEFINE n == Len(blk[h].txs)
           T == {k \in Nat : k <= n => RunApt(blk, h, A, a, k)}
<1>1. /\ n \in Nat /\ a[0].led = led /\ blk[h].score \in Nat
      /\ \A k \in 0..n : a[k].led \in LedgerType
      /\ \A k \in 1..n : blk[h].txs[k] \in TxType /\ k - 1 \in 0..n
  <2> DEFINE b == blk[h]
  <2>1. IsBlock(b) /\ IsBlockRun(led, b, a)
    OBVIOUS
  <2> HIDE DEF b
  <2>2. /\ Len(b.txs) \in Nat /\ a[0].led = led /\ b.score \in Nat
        /\ \A k \in 0..Len(b.txs) : a[k].led \in LedgerType
        /\ \A k \in 1..Len(b.txs) : b.txs[k] \in TxType /\ k - 1 \in 0..Len(b.txs)
    BY <2>1, RunTypes
  <2> QED
    BY <2>2 DEF b
<1>2. 0 \in T
  <2>1. A \cup Slots(h, 0) = A
    BY SlotsMore
  <2>2. Apt(a[0].led.utxo, blk, A)
    BY <1>1
  <2>3. RunApt(blk, h, A, a, 0)
    BY <2>1, <2>2 DEF RunApt
  <2> QED
    BY <2>3
<1>3. ASSUME NEW k \in Nat, k \in T PROVE k + 1 \in T
  <2>1. SUFFICES ASSUME k + 1 <= n PROVE RunApt(blk, h, A, a, k + 1)
    OBVIOUS
  <2>2. k \in 0..n /\ k + 1 \in 1..n /\ (k + 1) - 1 = k /\ k <= n
    BY <1>1, <2>1
  <2> DEFINE tx == blk[h].txs[k + 1]
             l == a[k].led
             r == ApplyTransaction(l, tx, blk[h].score)
             e == <<h, k + 1>>
  <2>3. PICK B \in SUBSET (A \cup Slots(h, k)) :
          /\ A \subseteq B /\ Apt(l.utxo, blk, B)
          /\ a[k].ok => B = A \cup Slots(h, k)
    BY <1>3, <2>2 DEF RunApt
  <2>4. l \in LedgerType /\ tx \in TxType /\ TxOf(blk, e) = tx
    BY <1>1, <2>2 DEF TxOf
  <2>5. a[k + 1] = ApplyNext(a[k], tx, blk[h].score)
    BY <2>2 DEF IsBlockRun
  <2>6. /\ Slots(h, k + 1) = Slots(h, k) \cup {e} /\ e \notin Slots(h, k)
    BY SlotsMore
  <2>7. Slots(h, k + 1) \subseteq Slots(h, n)
    BY <2>2, <1>1 DEF Slots
  <2>8. CASE ~a[k].ok
    <3>1. a[k + 1] = a[k]
      BY <2>5, <2>8 DEF ApplyNext
    <3>2. B \in SUBSET (A \cup Slots(h, k + 1))
      BY <2>6
    <3> QED
      BY <2>3, <2>8, <3>1, <3>2 DEF RunApt
  <2>9. CASE a[k].ok /\ ~r.ok
    <3>1. a[k + 1].led = r.led /\ a[k + 1].ok = r.ok
      BY <2>5, <2>9 DEF ApplyNext, AfterTransaction
    <3>2. Apt(r.led.utxo, blk, B)
      <4>1. DOMAIN r.led.utxo \subseteq DOMAIN l.utxo
        <5>1. ~ApplyTransaction(l, tx, blk[h].score).ok
          BY <2>9
        <5> HIDE DEF l, tx
        <5> QED
          BY <1>1, <2>4, <5>1, FailedTakes
      <4> HIDE DEF r, l
      <4> QED
        BY <2>3, <4>1, AptLess
    <3>3. B \in SUBSET (A \cup Slots(h, k + 1))
      BY <2>6
    <3> HIDE DEF r
    <3> QED
      BY <2>3, <2>9, <3>1, <3>2, <3>3 DEF RunApt
  <2>10. CASE a[k].ok /\ r.ok
    <3>1. a[k + 1].led = r.led /\ a[k + 1].ok = r.ok
      BY <2>5, <2>10 DEF ApplyNext, AfterTransaction
    <3>2. B = A \cup Slots(h, k)
      BY <2>3, <2>10
    <3>3. B \in SUBSET S /\ e \in S /\ e \notin B
      BY <2>6, <2>7, <3>2
    <3>4. Apt(r.led.utxo, blk, B \cup {e})
      <4>1. ApplyTransaction(l, TxOf(blk, e), blk[h].score).ok
        BY <2>4, <2>10
      <4>2. TxOf(blk, e) \in TxType /\ l \in LedgerType /\ Apt(l.utxo, blk, B) /\ blk[h].score \in Nat
        BY <1>1, <2>3, <2>4
      <4>3. r = ApplyTransaction(l, TxOf(blk, e), blk[h].score)
        BY <2>4
      <4> HIDE DEF r, l, e, tx
      <4> QED
        BY <3>3, <4>1, <4>2, <4>3, AptNext
    <3>5. B \cup {e} = A \cup Slots(h, k + 1)
      BY <2>6, <3>2
    <3> HIDE DEF r, e
    <3> QED
      BY <3>1, <3>4, <3>5 DEF RunApt
  <2> QED
    BY <2>8, <2>9, <2>10
<1> HIDE DEF T
<1>4. Nat \subseteq T
  BY <1>2, <1>3, SetInduction
<1> QED
  BY <1>1, <1>4 DEF T

\* Each transaction of a block that was applied was new when its turn came.
LEMMA AptSteps ==
  ASSUME NEW blk, NEW S, OneName(blk, S), NEW h, IsBlock(blk[h]), NEW led \in LedgerType,
         NEW A \in SUBSET S, Apt(led.utxo, blk, A),
         Slots(h, Len(blk[h].txs)) \subseteq S, Slots(h, Len(blk[h].txs)) \cap A = {},
         NEW a, IsBlockRun(led, blk[h], a), a[Len(blk[h].txs)].ok
  PROVE  \A k \in 1..Len(blk[h].txs) :
           LET B == A \cup Slots(h, k - 1)
           IN  /\ OutPoints(blk[h].txs[k]) \cap Creates(blk, B) = {}
               /\ Consumed(blk[h].txs[k]) \subseteq Creates(blk, B)
<1> DEFINE n == Len(blk[h].txs)
<1>1. /\ n \in Nat /\ blk[h].score \in Nat
      /\ \A k \in 0..n : a[k].led \in LedgerType
      /\ \A k \in 1..n : blk[h].txs[k] \in TxType /\ k - 1 \in 0..n
      /\ \A k \in 0..n : a[k].ok
      /\ \A k \in 1..n : ApplyTransaction(a[k - 1].led, blk[h].txs[k], blk[h].score).ok
  <2> DEFINE b == blk[h]
  <2>1. IsBlock(b) /\ IsBlockRun(led, b, a) /\ a[Len(b.txs)].ok
    OBVIOUS
  <2> HIDE DEF b
  <2>2. /\ Len(b.txs) \in Nat /\ b.score \in Nat
        /\ \A k \in 0..Len(b.txs) : a[k].led \in LedgerType
        /\ \A k \in 1..Len(b.txs) : b.txs[k] \in TxType /\ k - 1 \in 0..Len(b.txs)
    BY <2>1, RunTypes
  <2>3. /\ \A k \in 0..Len(b.txs) : a[k].ok
        /\ \A k \in 1..Len(b.txs) : ApplyTransaction(a[k - 1].led, b.txs[k], b.score).ok
    BY <2>1, RunSteps
  <2> QED
    BY <2>2, <2>3 DEF b
<1>2. \A k \in 0..n : RunApt(blk, h, A, a, k)
  BY AptRun
<1>3. TAKE k \in 1..n
<1> DEFINE B == A \cup Slots(h, k - 1)
           e == <<h, k>>
           l == a[k - 1].led
<1>4. Apt(l.utxo, blk, B)
  BY <1>1, <1>2, <1>3 DEF RunApt
<1>5. B \in SUBSET S /\ e \in S /\ e \notin B
  <2>1. k - 1 \in Nat /\ (k - 1) + 1 = k
    BY <1>1, <1>3
  <2>2. Slots(h, k) = Slots(h, k - 1) \cup {e} /\ e \notin Slots(h, k - 1)
    BY <2>1, SlotsMore
  <2>3. Slots(h, k) \subseteq Slots(h, n)
    BY <1>1, <1>3 DEF Slots
  <2> QED
    BY <2>2, <2>3
<1>6. TxOf(blk, e) = blk[h].txs[k]
  BY DEF TxOf
<1>7. /\ TxOf(blk, e) \in TxType /\ l \in LedgerType /\ blk[h].score \in Nat
      /\ ApplyTransaction(l, TxOf(blk, e), blk[h].score).ok
  BY <1>1, <1>3, <1>6
<1> HIDE DEF B, e, l
<1>8. /\ OutPoints(TxOf(blk, e)) \cap Creates(blk, B) = {}
      /\ Consumed(TxOf(blk, e)) \subseteq Creates(blk, B)
  BY <1>4, <1>5, <1>7, AptIsNew
<1> QED
  BY <1>6, <1>8 DEF B

\* Merge blocks bring a coinbase, and none twice.
MergeHeads(blk, M) ==
  \A m \in M : blk[m].txs # <<>> /\ blk[m].txs[1].coinbase /\ blk[m].txs[1].inputs = <<>>
               /\ Head(blk[m].txs) = blk[m].txs[1]

\* The coinbases of merge blocks are paid as transactions that take nothing.
LEMMA AptPaid ==
  ASSUME NEW blk, NEW S, OneName(blk, S), NEW A \in SUBSET S, NEW u, Apt(u, blk, A),
         NEW M, MergeHeads(blk, M), M \X {1} \subseteq S, (M \X {1}) \cap A = {},
         NEW v, DOMAIN v = DOMAIN u \cup Rewards(M, blk)
  PROVE  /\ Apt(v, blk, A \cup (M \X {1}))
         /\ Rewards(M, blk) \cap Creates(blk, A) = {}
<1> DEFINE R == M \X {1}
           C == Creates(blk, A)
<1>1. ASSUME NEW m \in M
      PROVE  /\ <<m, 1>> \in R /\ TxOf(blk, <<m, 1>>) = blk[m].txs[1]
             /\ RewardPoints(blk[m]) = OutPoints(blk[m].txs[1])
             /\ Consumed(blk[m].txs[1]) = {}
  BY DEF MergeHeads, TxOf, RewardPoints, Consumed
<1>2. \A e \in R : e[1] \in M /\ e = <<e[1], 1>>
  OBVIOUS
<1>3. Creates(blk, R) = Rewards(M, blk)
  <2>1. \A e \in R : \E m \in M : OutPoints(TxOf(blk, e)) = RewardPoints(blk[m])
    BY <1>1, <1>2
  <2>2. \A m \in M : \E e \in R : OutPoints(TxOf(blk, e)) = RewardPoints(blk[m])
    BY <1>1
  <2> HIDE DEF R
  <2> QED
    BY <2>1, <2>2, Zenon DEF Creates, Rewards
<1>4. Creates(blk, A \cup R) = C \cup Rewards(M, blk)
  BY <1>3, CreatesUnion
<1>5. Rewards(M, blk) \cap C = {}
  <2> SUFFICES ASSUME NEW op \in Rewards(M, blk), op \in C PROVE FALSE
    OBVIOUS
  <2>1. PICK m \in M : op \in OutPoints(blk[m].txs[1])
    <3>1. \E m \in M : op \in RewardPoints(blk[m])
      BY Zenon DEF Rewards
    <3> QED
      BY <1>1, <3>1
  <2>2. PICK d \in A : op \in OutPoints(TxOf(blk, d))
    BY CreatesMember
  <2>3. TxOf(blk, <<m, 1>>).id = TxOf(blk, d).id
    BY <1>1, <2>1, <2>2 DEF OutPoints
  <2>4. <<m, 1>> \in S /\ d \in S /\ d # <<m, 1>>
    BY <1>1, <2>2
  <2>5. TxOf(blk, <<m, 1>>).coinbase
    BY <1>1 DEF MergeHeads
  <2> QED
    BY <2>3, <2>4, <2>5 DEF OneName
<1>6. DOMAIN u \subseteq C /\ \A e \in A : Consumed(TxOf(blk, e)) \subseteq C \ DOMAIN u
  BY DEF Apt
<1>7. \A e \in R : Consumed(TxOf(blk, e)) = {}
  BY <1>1, <1>2
<1> HIDE DEF R, C
<1>8. ASSUME NEW e \in A \cup R
      PROVE  Consumed(TxOf(blk, e)) \subseteq (C \cup Rewards(M, blk)) \ DOMAIN v
  <2>1. CASE e \in A
    <3>1. Consumed(TxOf(blk, e)) \subseteq C \ DOMAIN u
      BY <1>6, <2>1
    <3> QED
      BY <1>5, <3>1
  <2>2. CASE e \in R
    BY <1>7, <2>2
  <2> QED
    BY <2>1, <2>2
<1>9. Apt(v, blk, A \cup R)
  BY <1>4, <1>6, <1>8 DEF Apt
<1> QED
  BY <1>5, <1>9 DEF R, C

\* A block x comes on a ledger that A has made: H are the effects of its own
\* transactions, R those of the coinbases it pays, and none of them is in A.
Comes(blk, g, x, S, A, H, R) ==
  /\ OneName(blk, S) /\ A \cup H \cup R \subseteq S
  /\ H = Slots(x, Len(blk[x].txs)) /\ R = g[x].blues \X {1} /\ MergeHeads(blk, g[x].blues)
  /\ H \cap A = {} /\ R \cap (A \cup H) = {}

\* The ledger after x comes from some of the effects in E, and from all of them
\* where x was applied whole.
Came(l, blk, g, store, x, A, E) ==
  \E B \in SUBSET E :
    /\ A \subseteq B /\ Apt(ReplayOne(l, x, blk, g, store).utxo, blk, B)
    /\ ApplyBlock(l, blk[x]).ok => B = E

\* One block of the tree, its transactions and then its merge blocks.
LEMMA BlockApt ==
  ASSUME NEW blk, NEW g, NEW root, NEW store, Staged(blk, g, root, store), NEW x \in DOMAIN g,
         NEW S, NEW A, NEW H, NEW R, Comes(blk, g, x, S, A, H, R),
         NEW l \in LedgerType, Apt(l.utxo, blk, A)
  PROVE  Came(l, blk, g, store, x, A, A \cup H \cup R)
<1>0. /\ OneName(blk, S) /\ A \in SUBSET S /\ H \cup R \subseteq S
      /\ H = Slots(x, Len(blk[x].txs)) /\ R = g[x].blues \X {1} /\ MergeHeads(blk, g[x].blues)
      /\ H \cap A = {} /\ R \cap (A \cup H) = {}
  BY DEF Comes
<1> DEFINE M == g[x].blues
           b == ApplyBlock(l, blk[x])
           v == ReplayOne(l, x, blk, g, store).utxo
           f == [m \in M |-> RewardValue(blk[m])]
           n == Len(blk[x].txs)
<1>1. IsBlock(blk[x]) /\ n \in Nat
  <2>1. IsBlock(blk[x])
    BY StagedMerges
  <2> QED
    BY <2>1 DEF IsBlock
<1>2. PICK a : IsBlockRun(l, blk[x], a) /\ b = a[n]
  BY <1>1, BlockRunExists
<1>3. PICK B \in SUBSET (A \cup H) :
        /\ A \subseteq B /\ Apt(b.led.utxo, blk, B) /\ (b.ok => B = A \cup H)
  <2>1. RunApt(blk, x, A, a, n)
    <3>1. /\ Slots(x, Len(blk[x].txs)) \subseteq S /\ Slots(x, Len(blk[x].txs)) \cap A = {}
          /\ Len(blk[x].txs) \in 0..Len(blk[x].txs)
      BY <1>0, <1>1
    <3> HIDE DEF b
    <3> QED
      BY <1>0, <1>1, <1>2, <3>1, AptRun
  <2> HIDE DEF b
  <2> QED
    BY <1>0, <1>2, <2>1 DEF RunApt
<1>4. DOMAIN v = DOMAIN b.led.utxo \cup Rewards(M, blk)
  <2>1. \A m \in g[x].blues : f[m] = RewardValue(blk[m])
    OBVIOUS
  <2>2. PaidUpTo(b.led, M, ReplayOne(l, x, blk, g, store), blk, f)
    <3> HIDE DEF f
    <3> QED
      BY <2>1, PaidBlock
  <2> HIDE DEF b, M, f
  <2> QED
    BY <2>2 DEF PaidUpTo
<1>5. Apt(v, blk, B \cup R)
  <2>1. B \in SUBSET S /\ MergeHeads(blk, M) /\ M \X {1} \subseteq S /\ (M \X {1}) \cap B = {}
    BY <1>0, <1>3
  <2>2. Apt(b.led.utxo, blk, B)
    BY <1>3
  <2> HIDE DEF M, v, b
  <2>3. Apt(v, blk, B \cup (M \X {1}))
    BY <1>0, <1>4, <2>1, <2>2, AptPaid
  <2> QED
    BY <1>0, <2>3 DEF M
<1>6. /\ B \cup R \in SUBSET (A \cup H \cup R) /\ A \subseteq B \cup R
      /\ b.ok => B \cup R = A \cup H \cup R
  <2> HIDE DEF b
  <2> QED
    BY <1>3
<1> HIDE DEF b, v
<1> QED
  BY <1>5, <1>6 DEF b, v, Came

\* What is known of the chain of tip when ids do not collide and none of its
\* blocks is paid twice.
Named(blk, g, root, store, tip) ==
  /\ Staged(blk, g, root, store) /\ g[root].blues = {}
  /\ OneName(blk, Effects(blk, g, tip))
  /\ \A y \in Path(g, tip) \ {root} :
       Apart(g, y) /\ y \notin g[y].blues /\ MergeHeads(blk, g[y].blues)

\* The effects of a block of the chain, and those below it.
LEMMA NamedBlock ==
  ASSUME NEW blk, NEW g, NEW root, NEW store, NEW tip \in DOMAIN g,
         Named(blk, g, root, store, tip), NEW x \in Path(g, tip), x # root
  PROVE  LET E == Effects(blk, g, g[x].selected)
             H == Slots(x, Len(blk[x].txs))
             R == g[x].blues \X {1}
         IN  /\ x \in DOMAIN g /\ g[x].selected \in Path(g, tip) /\ g[x].selected \in DOMAIN g
             /\ Effects(blk, g, x) = E \cup H \cup R
             /\ Effects(blk, g, x) \subseteq Effects(blk, g, tip)
             /\ H \cap E = {} /\ R \cap (E \cup H) = {}
<1> DEFINE s == g[x].selected
           E == Effects(blk, g, s)
           H == Slots(x, Len(blk[x].txs))
           R == g[x].blues \X {1}
<1>1. GdTree(g, root) /\ x \in DOMAIN g /\ Path(g, x) \subseteq Path(g, tip)
      /\ Effects(blk, g, x) \subseteq Effects(blk, g, tip)
  BY PathInside, EffectsInside DEF Named, Staged
<1>2. s \in DOMAIN g /\ Path(g, x) = {x} \cup Path(g, s) /\ x \notin Path(g, s)
  BY <1>1, PathStep
<1>3. s \in Path(g, s)
  BY <1>1, <1>2, PathFacts
<1>4. Effects(blk, g, x) = E \cup {<<x, i>> : i \in DOMAIN blk[x].txs \cap Nat} \cup R
  BY <1>1, EffectsStep
<1>5. {<<x, i>> : i \in DOMAIN blk[x].txs \cap Nat} = H
  <2>1. IsBlock(blk[x])
    BY <1>1, StagedMerges DEF Named
  <2>2. DOMAIN blk[x].txs \cap Nat = 1..Len(blk[x].txs)
    BY <2>1 DEF IsBlock
  <2> QED
    BY <2>2 DEF Slots
<1>6. /\ x \notin PathMerges(g, s) /\ x \notin g[x].blues
      /\ g[x].blues \cap (Path(g, s) \cup PathMerges(g, s)) = {}
  BY DEF Named, Apart
<1>7. \A e \in E : e[1] \in Path(g, s) \cup PathMerges(g, s)
  BY DEF Effects
<1>8. (\A e \in H : e[1] = x) /\ (\A e \in R : e[1] \in g[x].blues)
  BY DEF Slots
<1> HIDE DEF E, H, R
<1>9. H \cap E = {} /\ R \cap (E \cup H) = {}
  BY <1>2, <1>6, <1>7, <1>8
<1> QED
  BY <1>1, <1>2, <1>3, <1>4, <1>5, <1>9 DEF E, H, R

\* The effects of the root.
LEMMA NamedRoot ==
  ASSUME NEW blk, NEW g, NEW root, NEW store, NEW tip \in DOMAIN g,
         Named(blk, g, root, store, tip)
  PROVE  /\ root \in DOMAIN g /\ root \in Path(g, tip) /\ GdTree(g, root)
         /\ Effects(blk, g, root) = Slots(root, Len(blk[root].txs))
         /\ Effects(blk, g, root) \subseteq Effects(blk, g, tip)
         /\ EmptyLedger \in LedgerType
         /\ \E B \in SUBSET Effects(blk, g, root) :
              /\ Apt(Replay(root, blk, g, store).utxo, blk, B)
              /\ ApplyBlock(EmptyLedger, blk[root]).ok => B = Effects(blk, g, root)
<1> DEFINE H == Slots(root, Len(blk[root].txs))
           S == Effects(blk, g, tip)
           r == Replay(root, blk, g, store)
<1>1. GdTree(g, root) /\ root \in DOMAIN g /\ Staged(blk, g, root, store) /\ g[root].blues = {}
  BY DEF Named, Staged, GdTree
<1>2. root \in Path(g, tip)
  BY <1>1, PathFacts
<1>3. Effects(blk, g, root) = H
  <2>1. Effects(blk, g, root) = {<<root, i>> : i \in DOMAIN blk[root].txs \cap Nat}
    BY <1>1, RootSourced
  <2>2. IsBlock(blk[root])
    BY <1>1, StagedMerges
  <2>3. DOMAIN blk[root].txs \cap Nat = 1..Len(blk[root].txs)
    BY <2>2 DEF IsBlock
  <2> QED
    BY <2>1, <2>3 DEF Slots
<1>4. Effects(blk, g, root) \subseteq S
  BY <1>1, <1>2, EffectsInside
<1>5. EmptyLedger \in LedgerType
  BY EmptyType
<1>6. r = ReplayOne(EmptyLedger, root, blk, g, store)
  BY <1>1, ReplayRoot
<1>7. PICK B \in SUBSET H :
        /\ Apt(ReplayOne(EmptyLedger, root, blk, g, store).utxo, blk, B)
        /\ ApplyBlock(EmptyLedger, blk[root]).ok => B = H
  <2> DEFINE A == {}
             R == g[root].blues \X {1}
  <2>1. R = {} /\ A \cup H \cup R = H /\ MergeHeads(blk, g[root].blues)
    BY <1>1 DEF MergeHeads
  <2>2. Apt(EmptyLedger.utxo, blk, A)
    <3>1. DOMAIN EmptyLedger.utxo = {}
      BY DEF EmptyLedger
    <3> QED
      BY <3>1 DEF Apt
  <2>3. OneName(blk, S) /\ H \subseteq S
    BY <1>3, <1>4 DEF Named
  <2>4. Comes(blk, g, root, S, A, H, R)
    BY <2>1, <2>3 DEF Comes
  <2> HIDE DEF A, H, R, S
  <2>5. Came(EmptyLedger, blk, g, store, root, A, A \cup H \cup R)
    BY <1>1, <1>5, <2>2, <2>4, BlockApt
  <2>6. Came(EmptyLedger, blk, g, store, root, A, H)
    BY <2>1, <2>5
  <2> QED
    BY <2>6 DEF Came
<1> HIDE DEF H, S, r
<1> QED
  BY <1>1, <1>2, <1>3, <1>4, <1>5, <1>6, <1>7 DEF H, S, r

\* Whatever blocks the chain has, refused ones included, the ledger that its
\* replay gives holds what some of its effects made and none of them took.
LEMMA LedgerApt ==
  ASSUME NEW blk, NEW g, NEW root, NEW store, NEW tip \in DOMAIN g,
         Named(blk, g, root, store, tip), NEW x \in Path(g, tip)
  PROVE  \E A \in SUBSET Effects(blk, g, x) : Apt(Replay(x, blk, g, store).utxo, blk, A)
<1> DEFINE Q(y) == \E A \in SUBSET Effects(blk, g, y) : Apt(Replay(y, blk, g, store).utxo, blk, A)
           P == {y \in DOMAIN g : y \in Path(g, tip) => Q(y)}
           S == Effects(blk, g, tip)
<1>1. GdTree(g, root) /\ root \in DOMAIN g /\ Staged(blk, g, root, store) /\ OneName(blk, S)
      /\ Q(root)
  BY NamedRoot DEF Named
<1>2. root \in P
  BY <1>1
<1>3. ASSUME NEW h \in DOMAIN g \ {root}, g[h].selected \in P PROVE h \in P
  <2>1. SUFFICES ASSUME h \in Path(g, tip) PROVE Q(h)
    OBVIOUS
  <2> DEFINE s == g[h].selected
             l == Replay(s, blk, g, store)
             E == Effects(blk, g, s)
             H == Slots(h, Len(blk[h].txs))
             R == g[h].blues \X {1}
  <2>2. /\ s \in Path(g, tip) /\ s \in DOMAIN g /\ Effects(blk, g, h) = E \cup H \cup R
        /\ Effects(blk, g, h) \subseteq S
        /\ H \cap E = {} /\ R \cap (E \cup H) = {}
    BY <2>1, NamedBlock
  <2>3. PICK A \in SUBSET E : Apt(l.utxo, blk, A)
    BY <1>3, <2>2
  <2>4. l \in LedgerType /\ Replay(h, blk, g, store) = ReplayOne(l, h, blk, g, store)
    <3>1. l \in LedgerType
      BY <1>1, <2>2, ReplayType DEF Staged
    <3>2. Replay(h, blk, g, store) = ReplayOne(l, h, blk, g, store)
      BY <1>1, ReplayLast
    <3> QED
      BY <3>1, <3>2
  <2>5. MergeHeads(blk, g[h].blues)
    BY <2>1 DEF Named
  <2>6. Comes(blk, g, h, S, A, H, R)
    BY <1>1, <2>2, <2>5 DEF Comes
  <2> HIDE DEF l, E, H, R, S
  <2>7. Came(l, blk, g, store, h, A, A \cup H \cup R)
    BY <1>1, <2>3, <2>4, <2>6, BlockApt
  <2>8. PICK B \in SUBSET (A \cup H \cup R) : Apt(ReplayOne(l, h, blk, g, store).utxo, blk, B)
    BY <2>7 DEF Came
  <2>9. B \in SUBSET Effects(blk, g, h)
    BY <2>2
  <2> QED
    BY <2>4, <2>8, <2>9
<1> HIDE DEF P
<1>4. DOMAIN g \subseteq P
  BY <1>1, <1>2, <1>3, TreeInduction
<1>5. x \in DOMAIN g
  BY <1>1, PathInside
<1> QED
  BY <1>4, <1>5 DEF P

\* A block that its chain accepts can be connected there: its outputs are new,
\* and it spends no reward of a block it merges.
LEMMA NamesConnect ==
  ASSUME NEW blk, NEW g, NEW root, NEW store, NEW h \in DOMAIN g, h # root,
         Named(blk, g, root, store, h),
         ValidateTransactions(Replay(g[h].selected, blk, g, store), blk[h]),
         Head(blk[h].txs) = blk[h].txs[1], blk[h].txs[1].inputs = <<>>
  PROVE  Connectable(Replay(g[h].selected, blk, g, store), h, blk, g, store)
<1> DEFINE s == g[h].selected
           l == Replay(s, blk, g, store)
           E == Effects(blk, g, s)
           n == Len(blk[h].txs)
           H == Slots(h, n)
           R == g[h].blues \X {1}
           S == Effects(blk, g, h)
<1>1. GdTree(g, root) /\ Staged(blk, g, root, store) /\ OneName(blk, S) /\ h \in Path(g, h)
  <2>1. GdTree(g, root) /\ Staged(blk, g, root, store) /\ OneName(blk, S)
    BY DEF Named, Staged
  <2> QED
    BY <2>1, PathFacts
<1>2. /\ s \in Path(g, h) /\ s \in DOMAIN g /\ S = E \cup H \cup R
      /\ H \cap E = {} /\ R \cap (E \cup H) = {}
  BY <1>1, NamedBlock
<1>3. PICK A \in SUBSET E : Apt(l.utxo, blk, A)
  BY <1>2, LedgerApt
<1>4. l \in LedgerType
  BY <1>1, <1>2, ReplayType DEF Staged
<1>5. /\ IsBlock(blk[h]) /\ MergesOf(h, g, store) = g[h].blues /\ IsFiniteSet(g[h].blues)
      /\ \A m \in g[h].blues : IsBlock(blk[m])
  BY <1>1, StagedMerges
<1>6. n \in Nat /\ DOMAIN blk[h].txs = 1..n
  BY <1>5 DEF IsBlock
<1>7. ApplyBlock(l, blk[h]).ok
  <2>1. ValidateTransactions(l, blk[h])
    OBVIOUS
  <2> HIDE DEF l
  <2> QED
    BY <1>4, <1>5, <2>1, ValidatedBlockApplies
<1>8. PICK a : IsBlockRun(l, blk[h], a) /\ ApplyBlock(l, blk[h]) = a[n]
  <2> HIDE DEF l
  <2> QED
    BY <1>4, <1>5, BlockRunExists
<1>9. \A k \in 1..n : /\ OutPoints(blk[h].txs[k]) \cap Creates(blk, A \cup Slots(h, k - 1)) = {}
                      /\ Consumed(blk[h].txs[k]) \subseteq Creates(blk, A \cup Slots(h, k - 1))
  <2>1. A \in SUBSET S /\ H \subseteq S /\ H \cap A = {}
    BY <1>2
  <2>2. a[Len(blk[h].txs)].ok
    BY <1>7, <1>8
  <2>3. Slots(h, Len(blk[h].txs)) \subseteq S /\ Slots(h, Len(blk[h].txs)) \cap A = {}
    BY <2>1
  <2> HIDE DEF l, S, H
  <2> QED
    BY <1>1, <1>3, <1>4, <1>5, <1>8, <2>1, <2>2, <2>3, AptSteps
<1>10. ASSUME NEW j \in 1..n, NEW k \in 1..n, j < k
       PROVE  OutPoints(blk[h].txs[j]) \cap OutPoints(blk[h].txs[k]) = {}
  <2>1. <<h, j>> \in Slots(h, k - 1) /\ TxOf(blk, <<h, j>>) = blk[h].txs[j]
    BY <1>6, <1>10 DEF Slots, TxOf
  <2>2. OutPoints(blk[h].txs[j]) \subseteq Creates(blk, A \cup Slots(h, k - 1))
    BY <2>1, CreatesMember
  <2> QED
    BY <1>9, <2>2
<1>11. FreshBlock(blk[h], l.utxo)
  <2>1. ASSUME NEW i \in DOMAIN blk[h].txs PROVE Fresh(blk[h].txs[i], l.utxo)
    <3>1. DOMAIN l.utxo \subseteq Creates(blk, A)
      BY <1>3 DEF Apt
    <3>2. Creates(blk, A) \subseteq Creates(blk, A \cup Slots(h, i - 1))
      BY CreatesUnion
    <3>3. OutPoints(blk[h].txs[i]) \cap Creates(blk, A \cup Slots(h, i - 1)) = {}
      BY <1>6, <1>9
    <3> HIDE DEF l
    <3> QED
      BY <3>1, <3>2, <3>3 DEF Fresh
  <2>2. ASSUME NEW i \in DOMAIN blk[h].txs, NEW j \in DOMAIN blk[h].txs, i # j
        PROVE  OutPoints(blk[h].txs[i]) \cap OutPoints(blk[h].txs[j]) = {}
    <3>1. i \in 1..n /\ j \in 1..n /\ (i < j \/ j < i)
      BY <1>6, <2>2
    <3>2. CASE i < j
      BY <1>10, <3>1, <3>2
    <3>3. CASE j < i
      <4>1. OutPoints(blk[h].txs[j]) \cap OutPoints(blk[h].txs[i]) = {}
        BY <1>10, <3>1, <3>3
      <4> QED
        BY <4>1
    <3> QED
      BY <3>1, <3>2, <3>3
  <2> QED
    BY <2>1, <2>2 DEF FreshBlock
<1>12. ASSUME NEW m \in g[h].blues, NEW i \in DOMAIN blk[h].txs
       PROVE  RewardPoints(blk[m]) \cap Spends(blk[h].txs[i]) = {}
  <2>1. MergeHeads(blk, g[h].blues)
    BY <1>1 DEF Named
  <2>2. /\ RewardPoints(blk[m]) = OutPoints(TxOf(blk, <<m, 1>>)) /\ TxOf(blk, <<m, 1>>).coinbase
    BY <2>1 DEF MergeHeads, RewardPoints, TxOf
  <2>3. blk[h].txs[i].coinbase => Spends(blk[h].txs[i]) = {}
    <3>1. blk[h].txs[i].coinbase => i = 1
      BY DEF ValidateTransactions
    <3> QED
      BY <3>1 DEF Spends
  <2>4. SUFFICES ASSUME NEW op \in RewardPoints(blk[m]), op \in Spends(blk[h].txs[i]) PROVE FALSE
    OBVIOUS
  <2>5. op \in Consumed(blk[h].txs[i])
    BY <2>3, <2>4 DEF Consumed
  <2>6. op \in Creates(blk, A \cup Slots(h, i - 1))
    BY <1>6, <1>9, <2>5
  <2>7. PICK d \in A \cup Slots(h, i - 1) : op \in OutPoints(TxOf(blk, d))
    BY <2>6, CreatesMember
  <2>8. d \in E \cup H
    <3>1. Slots(h, i - 1) \subseteq H
      BY <1>6 DEF Slots
    <3> QED
      BY <2>7, <3>1
  <2>9. TxOf(blk, <<m, 1>>).id = TxOf(blk, d).id
    BY <2>2, <2>4, <2>7 DEF OutPoints
  <2>10. <<m, 1>> \in S /\ d \in S /\ <<m, 1>> # d
    BY <1>2, <2>8
  <2> HIDE DEF S
  <2> QED
    BY <1>1, <2>2, <2>9, <2>10 DEF OneName
<1> HIDE DEF l
<1> QED
  BY <1>5, <1>11, <1>12 DEF Connectable, l

\* The transactions of a block that was applied have new outputs, and no two
\* of its effects, those of its merge blocks included, have one in common.
LEMMA BlockDistinct ==
  ASSUME NEW blk, NEW g, NEW root, NEW store, Staged(blk, g, root, store), NEW x \in DOMAIN g,
         NEW S, NEW A, NEW H, NEW R, Comes(blk, g, x, S, A, H, R),
         NEW l \in LedgerType, Apt(l.utxo, blk, A), ApplyBlock(l, blk[x]).ok, Distinct(blk, A)
  PROVE  Distinct(blk, A \cup H \cup R)
<1> DEFINE n == Len(blk[x].txs)
           b == ApplyBlock(l, blk[x])
           O(e) == OutPoints(TxOf(blk, e))
<1>1. /\ OneName(blk, S) /\ A \in SUBSET S /\ H \cup R \subseteq S
      /\ H = Slots(x, n) /\ R = g[x].blues \X {1} /\ MergeHeads(blk, g[x].blues)
      /\ H \cap A = {} /\ R \cap (A \cup H) = {}
  BY DEF Comes
<1>2. IsBlock(blk[x]) /\ n \in Nat
  <2>1. IsBlock(blk[x])
    BY StagedMerges
  <2> QED
    BY <2>1 DEF IsBlock
<1>3. PICK a : IsBlockRun(l, blk[x], a) /\ b = a[n]
  BY <1>2, BlockRunExists
<1>4. \A k \in 1..n : OutPoints(blk[x].txs[k]) \cap Creates(blk, A \cup Slots(x, k - 1)) = {}
  <2>1. /\ Slots(x, Len(blk[x].txs)) \subseteq S /\ Slots(x, Len(blk[x].txs)) \cap A = {}
        /\ a[Len(blk[x].txs)].ok
    BY <1>1, <1>3
  <2> HIDE DEF b
  <2>2. \A k \in 1..Len(blk[x].txs) :
          OutPoints(blk[x].txs[k]) \cap Creates(blk, A \cup Slots(x, k - 1)) = {}
    BY <1>1, <1>2, <1>3, <2>1, AptSteps
  <2> QED
    BY <2>2
<1>5. ASSUME NEW k \in 1..n, NEW d \in A \cup Slots(x, k - 1)
      PROVE  O(d) \cap O(<<x, k>>) = {}
  <2>1. O(<<x, k>>) = OutPoints(blk[x].txs[k])
    BY DEF TxOf
  <2>2. O(d) \subseteq Creates(blk, A \cup Slots(x, k - 1))
    BY CreatesMember
  <2> HIDE DEF O
  <2> QED
    BY <1>4, <2>1, <2>2
<1>6. ASSUME NEW d \in A \cup H, NEW e \in H, d # e PROVE O(d) \cap O(e) = {}
  <2>1. PICK k \in 1..n : e = <<x, k>>
    BY <1>1 DEF Slots
  <2>2. CASE d \in A
    BY <1>5, <2>1, <2>2
  <2>3. CASE d \in H
    <3>1. PICK j \in 1..n : d = <<x, j>>
      BY <1>1, <2>3 DEF Slots
    <3>2. j < k \/ k < j
      BY <1>2, <1>6, <2>1, <3>1
    <3>3. CASE j < k
      <4>1. d \in Slots(x, k - 1)
        BY <1>2, <3>1, <3>3 DEF Slots
      <4> QED
        BY <1>5, <2>1, <4>1
    <3>4. CASE k < j
      <4>1. e \in Slots(x, j - 1)
        BY <1>2, <2>1, <3>4 DEF Slots
      <4>2. O(e) \cap O(d) = {}
        BY <1>5, <3>1, <4>1
      <4> QED
        BY <4>2
    <3> QED
      BY <3>2, <3>3, <3>4
  <2> QED
    BY <2>2, <2>3
<1>7. ASSUME NEW d \in A \cup H \cup R, NEW e \in R, d # e PROVE O(d) \cap O(e) = {}
  <2>1. PICK m \in g[x].blues : e = <<m, 1>>
    BY <1>1
  <2>2. TxOf(blk, e).coinbase
    BY <1>1, <2>1 DEF MergeHeads, TxOf
  <2>3. SUFFICES ASSUME NEW op \in O(d), op \in O(e) PROVE FALSE
    OBVIOUS
  <2>4. TxOf(blk, e).id = TxOf(blk, d).id
    BY <2>3 DEF OutPoints
  <2>5. d \in S /\ e \in S
    BY <1>1
  <2> QED
    BY <1>1, <1>7, <2>2, <2>4, <2>5 DEF OneName
<1>8. ASSUME NEW d \in A \cup H \cup R, NEW e \in A \cup H \cup R, d # e PROVE O(d) \cap O(e) = {}
  <2>1. CASE d \in A /\ e \in A
    BY <1>8, <2>1 DEF Distinct
  <2>2. CASE e \in R
    BY <1>7, <1>8, <2>2
  <2>3. CASE d \in R
    <3>1. O(e) \cap O(d) = {}
      BY <1>7, <1>8, <2>3
    <3> QED
      BY <3>1
  <2>4. CASE e \in H /\ d \notin R
    BY <1>6, <1>8, <2>4
  <2>5. CASE d \in H /\ e \notin R
    <3>1. O(e) \cap O(d) = {}
      BY <1>6, <1>8, <2>5
    <3> QED
      BY <3>1
  <2> QED
    BY <2>1, <2>2, <2>3, <2>4, <2>5
<1> QED
  BY <1>8 DEF Distinct

\* The effects of a chain whose blocks were accepted where they stand have no
\* output in common: a transfer cannot be accepted twice, because what it
\* spends never comes back.
LEMMA NamesDistinct ==
  ASSUME NEW blk, NEW g, NEW root, NEW store, NEW tip \in DOMAIN g,
         Named(blk, g, root, store, tip), ChainValid(blk, g, root, store, tip)
  PROVE  Distinct(blk, Effects(blk, g, tip))
<1> DEFINE Q(y) == /\ Distinct(blk, Effects(blk, g, y))
                   /\ Apt(Replay(y, blk, g, store).utxo, blk, Effects(blk, g, y))
           P == {y \in DOMAIN g : y \in Path(g, tip) => Q(y)}
           S == Effects(blk, g, tip)
<1>1. GdTree(g, root) /\ root \in DOMAIN g /\ Staged(blk, g, root, store) /\ OneName(blk, S)
  BY NamedRoot DEF Named
<1>2. root \in P
  <2> DEFINE H == Slots(root, Len(blk[root].txs))
             A == {}
             R == g[root].blues \X {1}
  <2>1. /\ Effects(blk, g, root) = H /\ H \subseteq S /\ EmptyLedger \in LedgerType
        /\ \E B \in SUBSET Effects(blk, g, root) :
              /\ Apt(Replay(root, blk, g, store).utxo, blk, B)
              /\ ApplyBlock(EmptyLedger, blk[root]).ok => B = Effects(blk, g, root)
    BY NamedRoot
  <2>2. ApplyBlock(EmptyLedger, blk[root]).ok
    <3>1. IsBlock(blk[root])
      BY <1>1, StagedMerges
    <3> QED
      BY <2>1, <3>1, BlockCanApply DEF ChainValid
  <2>3. Apt(Replay(root, blk, g, store).utxo, blk, Effects(blk, g, root))
    BY <2>1, <2>2
  <2>4. R = {} /\ A \cup H \cup R = H /\ MergeHeads(blk, g[root].blues)
    BY DEF Named, MergeHeads
  <2>5. Comes(blk, g, root, S, A, H, R)
    BY <1>1, <2>1, <2>4 DEF Comes
  <2>6. Apt(EmptyLedger.utxo, blk, A) /\ Distinct(blk, A)
    <3>1. DOMAIN EmptyLedger.utxo = {}
      BY DEF EmptyLedger
    <3> QED
      BY <3>1 DEF Apt, Distinct
  <2> HIDE DEF A, H, R, S
  <2>7. Distinct(blk, A \cup H \cup R)
    BY <1>1, <2>1, <2>2, <2>5, <2>6, BlockDistinct
  <2>8. Distinct(blk, Effects(blk, g, root))
    BY <2>1, <2>4, <2>7
  <2> QED
    BY <1>1, <2>3, <2>8
<1>3. ASSUME NEW h \in DOMAIN g \ {root}, g[h].selected \in P PROVE h \in P
  <2>1. SUFFICES ASSUME h \in Path(g, tip) PROVE Q(h)
    OBVIOUS
  <2> DEFINE s == g[h].selected
             l == Replay(s, blk, g, store)
             E == Effects(blk, g, s)
             H == Slots(h, Len(blk[h].txs))
             R == g[h].blues \X {1}
  <2>2. /\ s \in Path(g, tip) /\ s \in DOMAIN g /\ Effects(blk, g, h) = E \cup H \cup R
        /\ Effects(blk, g, h) \subseteq S
        /\ H \cap E = {} /\ R \cap (E \cup H) = {}
    BY <2>1, NamedBlock
  <2>3. Apt(l.utxo, blk, E) /\ Distinct(blk, E)
    BY <1>3, <2>2
  <2>4. l \in LedgerType /\ Replay(h, blk, g, store) = ReplayOne(l, h, blk, g, store)
    <3>1. l \in LedgerType
      BY <1>1, <2>2, ReplayType DEF Staged
    <3>2. Replay(h, blk, g, store) = ReplayOne(l, h, blk, g, store)
      BY <1>1, ReplayLast
    <3> QED
      BY <3>1, <3>2
  <2>5. MergeHeads(blk, g[h].blues)
    BY <2>1 DEF Named
  <2>6. Comes(blk, g, h, S, E, H, R)
    BY <1>1, <2>2, <2>5 DEF Comes
  <2>7. ApplyBlock(l, blk[h]).ok
    <3>1. ValidateTransactions(l, blk[h])
      BY <2>1 DEF ChainValid
    <3>2. IsBlock(blk[h])
      BY <1>1, StagedMerges
    <3> HIDE DEF l
    <3> QED
      BY <2>4, <3>1, <3>2, ValidatedBlockApplies
  <2> HIDE DEF l, E, H, R, S
  <2>8. Came(l, blk, g, store, h, E, E \cup H \cup R)
    BY <1>1, <2>3, <2>4, <2>6, BlockApt
  <2>9. Apt(ReplayOne(l, h, blk, g, store).utxo, blk, E \cup H \cup R)
    BY <2>7, <2>8 DEF Came
  <2>10. Distinct(blk, E \cup H \cup R)
    BY <1>1, <2>3, <2>4, <2>6, <2>7, BlockDistinct
  <2> QED
    BY <2>2, <2>4, <2>9, <2>10
<1> HIDE DEF P
<1>4. DOMAIN g \subseteq P
  BY <1>1, <1>2, <1>3, TreeInduction
<1>5. tip \in Path(g, tip)
  BY <1>1, PathFacts
<1> QED
  BY <1>4, <1>5 DEF P
=============================================================================
