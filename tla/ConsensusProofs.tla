-------------------------- MODULE ConsensusProofs ---------------------------
(***************************************************************************)
(* Theorems about emission and difficulty: for every schedule and number of*)
(* halvings, every window, every set of lanes and every sequence of tip    *)
(* changes and restarts.                                                   *)
(***************************************************************************)
EXTENDS Minting, Difficulty, LedgerProofs

----------------------------------------------------------------------------
(* Emission: the lemmas are those of LedgerProofs                          *)

\* The sum is its own inductive invariant once the types are known: that it
\* is kept is RewardIsGrowth.
MintingIInv == sched \in Scheds /\ nextHeight \in Nat /\ SumMatchesSchedule

\* The inductive invariant of a chain that mints block after block.
THEOREM MintingInvariant == MintingSpec => []MintingIInv
<1>1. MintingInit => MintingIInv
  <2>1. SUFFICES ASSUME MintingInit PROVE MintingIInv
    OBVIOUS
  <2>2. sched \in Scheds
    BY <2>1, MintingAssumption DEF MintingInit, Schedules, Scheds
  <2> QED
    BY <2>1, <2>2, NothingEmitted DEF MintingInit, MintingIInv, SumMatchesSchedule
<1>2. MintingIInv /\ [Mint]_mintVars => MintingIInv'
  <2>1. SUFFICES ASSUME MintingIInv, [Mint]_mintVars PROVE MintingIInv'
    OBVIOUS
  <2>2. CASE Mint
    <3>1. sched' = sched /\ nextHeight' = nextHeight + 1
          /\ supply' = supply + BlockReward(sched, nextHeight)
      BY <2>2 DEF Mint
    <3>2. TotalEmittedAtHeight(sched, nextHeight + 1)
            = TotalEmittedAtHeight(sched, nextHeight) + BlockReward(sched, nextHeight)
      BY <2>1, RewardIsGrowth DEF MintingIInv
    <3> QED
      BY <2>1, <3>1, <3>2 DEF MintingIInv, SumMatchesSchedule
  <2>3. CASE UNCHANGED mintVars
    BY <2>1, <2>3 DEF mintVars, MintingIInv, SumMatchesSchedule
  <2> QED
    BY <2>1, <2>2, <2>3
<1> QED
  BY <1>1, <1>2, PTL DEF MintingSpec

\* The rewards block_reward has paid sum up to total_emitted_at_height at
\* every height and for every schedule.
THEOREM ScheduleIsKept == MintingSpec => []SumMatchesSchedule
<1>1. MintingIInv => SumMatchesSchedule
  BY DEF MintingIInv
<1> QED
  BY <1>1, MintingInvariant, PTL

\* The supply never passes max_supply.
THEOREM SupplyIsCapped == MintingSpec => [](supply <= sched.max)
<1>1. MintingIInv => supply <= sched.max
  BY RewardIsGrowth DEF MintingIInv, SumMatchesSchedule
<1> QED
  BY <1>1, MintingInvariant, PTL

----------------------------------------------------------------------------
(* The difficulty                                                          *)

\* What an engine that records s keeps: the last WINDOW + 1 entries.
Kept(s, k) == [i \in 1..(IF k <= WINDOW + 1 THEN k ELSE WINDOW + 1) |->
                 s[IF k <= WINDOW + 1 THEN i ELSE (k - (WINDOW + 1)) + i]]

\* The table by which the fold of record_block is defined.
RecordTable(s, g) ==
  g = [p \in SUBSET DOMAIN s |->
         IF p = {} THEN <<>> ELSE RecordBlock(g[p \ {Max(p)}], s[Max(p)])]

\* RecordAll is the entry of the whole sequence in that table.
LEMMA RecordIsChosen ==
  ASSUME NEW s
  PROVE  RecordAll(<<>>, s) = (CHOOSE g : RecordTable(s, g))[DOMAIN s]
BY DEF RecordAll, FoldLeft, MapThenFoldSet, RecordTable

\* record_block keeps a sequence of entries.
LEMMA RecordBlockType ==
  ASSUME NEW E, NEW h \in Seq(E), NEW e \in E
  PROVE  RecordBlock(h, e) \in Seq(E)
<1>1. Append(h, e) \in Seq(E) /\ Len(Append(h, e)) = Len(h) + 1 /\ Len(h) \in Nat
  OBVIOUS
<1>2. PICK a : a = Append(h, e)
  OBVIOUS
<1>3. a \in Seq(E) /\ a # <<>>
  BY <1>1, <1>2
<1>4. Tail(a) \in Seq(E)
  BY <1>3
<1> QED
  BY <1>1, <1>2, <1>4 DEF RecordBlock

\* The table of record_block exists.
LEMMA RecordTableExists ==
  ASSUME NEW E, NEW s \in Seq(E)
  PROVE  \E g : RecordTable(s, g)
<1> DEFINE D == DOMAIN s
           P == [p \in SUBSET D |-> Max(p)]
           X == Seq(E)
           F == [x \in X \X D |-> RecordBlock(x[1], s[x[2]])]
<1>1. D = 1..Len(s) /\ Len(s) \in Nat /\ IsFiniteSet(D)
  BY FS_Interval
<1>2. IsPicker(D, P)
  BY <1>1, MaxOfSet DEF IsPicker
<1>3. IsFoldStep(X, D, F)
  BY RecordBlockType DEF IsFoldStep
<1>4. <<>> \in X
  OBVIOUS
<1>5. PICK g : IsFoldTable(X, <<>>, D, P, F, g)
  <2> HIDE DEF D, P, X, F
  <2> QED
    BY <1>1, <1>2, <1>3, <1>4, FoldTableExists
<1>6. \A p \in SUBSET D :
        g[p] = IF p = {} THEN <<>> ELSE RecordBlock(g[p \ {Max(p)}], s[Max(p)])
  <2>1. TAKE p \in SUBSET D
  <2>2. CASE p = {}
    BY <1>5, <2>2 DEF IsFoldTable
  <2>3. CASE p # {}
    <3>1. P[p] = Max(p) /\ P[p] \in p
      BY <1>2, <2>3 DEF IsPicker
    <3>2. <<g[p \ {P[p]}], P[p]>> \in X \X D
      BY <1>5, <3>1 DEF IsFoldTable
    <3>3. g[p] = F[<<g[p \ {P[p]}], P[p]>>]
      BY <1>5, <2>3 DEF IsFoldTable
    <3> HIDE DEF P, X, D
    <3> QED
      BY <2>3, <3>1, <3>2, <3>3
  <2> QED
    BY <2>2, <2>3
<1>7. RecordTable(s, g)
  BY <1>5, <1>6 DEF RecordTable, IsFoldTable
<1> QED
  BY <1>7

\* One more record moves the window by one.
LEMMA RecordKept ==
  ASSUME NEW E, NEW s \in Seq(E), NEW k \in Nat, k + 1 <= Len(s)
  PROVE  RecordBlock(Kept(s, k), s[k + 1]) = Kept(s, k + 1)
<1> DEFINE W == WINDOW + 1
           K == Kept(s, k)
           m == IF k <= W THEN k ELSE W
           A == Append(K, s[k + 1])
<1>1. W \in Nat /\ W > 0 /\ Len(s) \in Nat /\ DOMAIN s = 1..Len(s) /\ m \in Nat /\ s[k + 1] \in E
  BY DifficultyAssumption
<1>2. \A i \in 1..m : (IF k <= W THEN i ELSE (k - W) + i) \in 1..Len(s)
  BY <1>1
<1>3. K = [i \in 1..m |-> s[IF k <= W THEN i ELSE (k - W) + i]]
  BY DEF Kept
<1>4. \A i \in 1..m : s[IF k <= W THEN i ELSE (k - W) + i] \in E
  <2>1. TAKE i \in 1..m
  <2> DEFINE j == IF k <= W THEN i ELSE (k - W) + i
  <2>2. j \in 1..Len(s)
    BY <1>2
  <2> HIDE DEF j
  <2>3. s[j] \in E
    BY <1>1, <2>2
  <2> QED
    BY <2>3 DEF j
<1>5. K \in Seq(E) /\ Len(K) = m
  <2> HIDE DEF m, W
  <2>1. K \in [1..m -> E]
    BY <1>3, <1>4
  <2> HIDE DEF K
  <2> QED
    BY <1>1, <2>1
<1>6. /\ A \in Seq(E) /\ Len(A) = m + 1
      /\ \A i \in 1..m : A[i] = K[i]
      /\ A[m + 1] = s[k + 1]
  <2> HIDE DEF K, m, W
  <2> QED
    BY <1>1, <1>5
<1>7. CASE k < W
  <2>1. m = k /\ RecordBlock(K, s[k + 1]) = A
    BY <1>1, <1>6, <1>7 DEF RecordBlock
  <2>2. Kept(s, k + 1) = [i \in 1..(k + 1) |-> s[i]]
    BY <1>1, <1>7 DEF Kept
  <2> HIDE DEF A, K
  <2>3. \A i \in 1..(k + 1) : A[i] = s[i]
    <3>1. TAKE i \in 1..(k + 1)
    <3>2. CASE i <= k
      <4>1. i \in 1..m /\ K[i] = s[i]
        BY <1>1, <1>3, <1>7, <2>1, <3>2
      <4> QED
        BY <1>6, <4>1
    <3>3. CASE i = k + 1
      BY <1>6, <2>1, <3>3
    <3> QED
      BY <3>2, <3>3
  <2>4. A = [i \in 1..(k + 1) |-> s[i]]
    BY <1>6, <2>1, <2>3
  <2> QED
    BY <2>1, <2>2, <2>4 DEF K
<1>8. CASE k >= W
  <2>1. m = W /\ RecordBlock(K, s[k + 1]) = Tail(A)
    BY <1>1, <1>6, <1>8 DEF RecordBlock
  <2>2. Kept(s, k + 1) = [i \in 1..W |-> s[((k + 1) - W) + i]]
    BY <1>1, <1>8 DEF Kept
  <2> HIDE DEF A, K
  <2>3. \A i \in 1..W : A[i + 1] = s[((k + 1) - W) + i]
    <3>1. TAKE i \in 1..W
    <3>2. CASE i < W
      <4>1. i + 1 \in 1..m
        BY <1>1, <2>1, <3>2
      <4>2. (IF k <= W THEN i + 1 ELSE (k - W) + (i + 1)) = ((k + 1) - W) + i
        BY <1>1, <1>8
      <4>3. K[i + 1] = s[((k + 1) - W) + i]
        BY <1>3, <4>1, <4>2
      <4> QED
        BY <1>6, <4>1, <4>3
    <3>3. CASE i = W
      <4>1. ((k + 1) - W) + i = k + 1 /\ i + 1 = m + 1
        BY <1>1, <2>1, <3>3
      <4> QED
        BY <1>6, <4>1
    <3> QED
      BY <1>1, <3>2, <3>3
  <2>4. Len(Tail(A)) = W /\ Tail(A) \in Seq(E) /\ \A i \in 1..W : Tail(A)[i] = A[i + 1]
    BY <1>1, <1>6, <2>1
  <2>5. Tail(A) = [i \in 1..W |-> s[((k + 1) - W) + i]]
    <3>1. PICK t : t = Tail(A)
      OBVIOUS
    <3>2. DOMAIN t = 1..W /\ t \in Seq(E)
      BY <2>4, <3>1
    <3>3. \A i \in 1..W : t[i] = s[((k + 1) - W) + i]
      BY <2>3, <2>4, <3>1
    <3>4. t = [i \in 1..W |-> t[i]]
      BY <3>2
    <3> HIDE DEF W
    <3> QED
      BY <3>1, <3>3, <3>4
  <2> QED
    BY <2>1, <2>2, <2>5 DEF K
<1> QED
  BY <1>1, <1>7, <1>8

\* An engine that has recorded all of s keeps its last entries, whatever
\* came before them.
LEMMA RecordAllKeeps ==
  ASSUME NEW E, NEW s \in Seq(E)
  PROVE  RecordAll(<<>>, s) = Kept(s, Len(s))
<1>1. PICK g : g = (CHOOSE t : RecordTable(s, t))
  OBVIOUS
<1>2. RecordTable(s, g)
  BY <1>1, RecordTableExists
<1> DEFINE n == Len(s)
           W == WINDOW + 1
<1>3. n \in Nat /\ DOMAIN s = 1..n /\ W \in Nat /\ W > 0
  BY DifficultyAssumption
<1>4. g[{}] = <<>>
  BY <1>2 DEF RecordTable
<1>5. \A k \in 1..n : g[1..k] = RecordBlock(g[1..(k - 1)], s[k])
  <2>1. TAKE k \in 1..n
  <2>2. 1..k \in SUBSET DOMAIN s /\ 1..k # {}
    <3>1. k \in 1..k /\ 1..k \subseteq 1..n
      BY <1>3
    <3> QED
      BY <1>3, <3>1
  <2>3. g[1..k] = RecordBlock(g[(1..k) \ {Max(1..k)}], s[Max(1..k)])
    BY <1>2, <2>2 DEF RecordTable
  <2>4. Max(1..k) = k /\ (1..k) \ {k} = 1..(k - 1)
    BY <1>3, MaxOfPrefix
  <2> QED
    BY <2>3, <2>4
<1> DEFINE T == {k \in Nat : k <= n => g[1..k] = Kept(s, k)}
<1>6. 0 \in T
  <2>1. 1..0 = {} /\ Kept(s, 0) = <<>>
    BY <1>3 DEF Kept
  <2> QED
    BY <1>4, <2>1
<1>7. ASSUME NEW k \in Nat, k \in T PROVE k + 1 \in T
  <2>1. SUFFICES ASSUME k + 1 <= n PROVE g[1..(k + 1)] = Kept(s, k + 1)
    OBVIOUS
  <2>2. g[1..(k + 1)] = RecordBlock(Kept(s, k), s[k + 1])
    <3>1. k + 1 \in 1..n /\ (k + 1) - 1 = k
      BY <1>3, <2>1
    <3> QED
      BY <1>3, <1>5, <1>7, <2>1, <3>1
  <2>3. RecordBlock(Kept(s, k), s[k + 1]) = Kept(s, k + 1)
    BY <1>3, <2>1, RecordKept
  <2> QED
    BY <2>2, <2>3
<1> HIDE DEF T
<1>8. Nat \subseteq T
  BY <1>6, <1>7, SetInduction
<1> QED
  BY <1>1, <1>3, <1>8, RecordIsChosen DEF T

\* The blocks that validation does not walk back to make no difference.
LEMMA SameWindow ==
  ASSUME NEW E, NEW s \in Seq(E)
  PROVE  LET first == IF Len(s) > WALK THEN Len(s) - WALK + 1 ELSE 1
         IN  RecordAll(<<>>, SubSeq(s, first, Len(s))) = RecordAll(<<>>, s)
<1> DEFINE n == Len(s)
           W == WINDOW + 1
           first == IF n > WALK THEN n - WALK + 1 ELSE 1
           u == SubSeq(s, first, n)
<1>1. n \in Nat /\ DOMAIN s = 1..n /\ W \in Nat /\ W > 0 /\ WALK \in Nat /\ WALK >= W
  BY DifficultyAssumption
<1>2. CASE n <= WALK
  <2>1. first = 1
    BY <1>1, <1>2
  <2>2. SubSeq(s, 1, n) = s
    BY <1>1
  <2> QED
    BY <2>1, <2>2
<1>3. CASE n > WALK
  <2> DEFINE a == n - WALK
  <2>1. a \in Nat /\ a > 0 /\ first = a + 1 /\ a + 1 <= n /\ n = a + WALK
    BY <1>1, <1>3
  <2>2. u \in Seq(E) /\ Len(u) = WALK /\ \A i \in 1..WALK : u[i] = s[a + i]
    <3> HIDE DEF a, n, first
    <3>1. \A i \in (a + 1)..n : s[i] \in E
      BY <1>1, <2>1 DEF n
    <3>2. /\ SubSeq(s, a + 1, n) \in Seq(E)
          /\ Len(SubSeq(s, a + 1, n)) = WALK
          /\ \A i \in 1..WALK : SubSeq(s, a + 1, n)[i] = s[a + i]
      BY <1>1, <2>1, <3>1
    <3> QED
      BY <2>1, <3>2
  <2> HIDE DEF u
  <2>3. RecordAll(<<>>, s) = Kept(s, n) /\ RecordAll(<<>>, u) = Kept(u, WALK)
    BY <2>2, RecordAllKeeps
  <2>4. Kept(s, n) = [i \in 1..W |-> s[(n - W) + i]]
    <3> HIDE DEF n
    <3>1. ~(n <= W)
      BY <1>1, <1>3
    <3> QED
      BY <3>1 DEF Kept
  <2>5. Kept(u, WALK) = [i \in 1..W |-> u[(WALK - W) + i]]
    BY <1>1 DEF Kept
  <2>6. \A i \in 1..W : u[(WALK - W) + i] = s[(n - W) + i]
    <3>1. TAKE i \in 1..W
    <3>2. (WALK - W) + i \in 1..WALK /\ a + ((WALK - W) + i) = (n - W) + i
      BY <1>1, <2>1
    <3> HIDE DEF a, n, W
    <3> QED
      BY <2>2, <3>2
  <2>7. RecordAll(<<>>, u) = RecordAll(<<>>, s)
    <3> HIDE DEF W, n
    <3> QED
      BY <2>3, <2>4, <2>5, <2>6
  <2> QED
    BY <2>7 DEF u
<1> QED
  BY <1>1, <1>2, <1>3

\* s is a sequence, of whatever.
IsSequence(s) == \E S : s \in Seq(S)

\* The blocks of a lane are a sequence.
LEMMA LaneIsSequence ==
  ASSUME NEW b, IsSequence(b), NEW lane
  PROVE  IsSequence(OfLane(b, lane))
<1> DEFINE mine == {i \in DOMAIN b : b[i].lane = lane}
           at(k) == CHOOSE i \in mine : Cardinality({j \in mine : j < i}) = k - 1
           val(k) == <<b[at(k)].time, b[at(k)].bits>>
           n == Cardinality(mine)
<1>1. PICK S : b \in Seq(S)
  BY DEF IsSequence
<1>2. IsFiniteSet(DOMAIN b)
  <2>1. DOMAIN b = 1..Len(b) /\ Len(b) \in Nat
    BY <1>1
  <2> QED
    BY <2>1, FS_Interval
<1>3. n \in Nat
  BY <1>2, FS_Subset, FS_CardinalityType
<1>4. OfLane(b, lane) = [k \in 1..n |-> val(k)]
  BY DEF OfLane
<1> DEFINE E == {val(k) : k \in 1..n}
<1> HIDE DEF val, n
<1>5. [k \in 1..n |-> val(k)] \in Seq(E)
  BY <1>3
<1> QED
  BY <1>4, <1>5 DEF IsSequence

\* The manager is always what a rebuild from the chain would make of it.
DifficultyIInv == IsSequence(chain) /\ chain # <<>> /\ manager = Rebuilt(chain)

\* The inductive invariant of the chain and the difficulty manager.
THEOREM DifficultyInvariant == DifficultySpec => []DifficultyIInv
<1>1. DifficultyInit => DifficultyIInv
  <2>1. SUFFICES ASSUME DifficultyInit PROVE DifficultyIInv
    OBVIOUS
  <2>2. <<Genesis0>> \in Seq({Genesis0}) /\ <<Genesis0>> # <<>>
    OBVIOUS
  <2> QED
    BY <2>1, <2>2 DEF DifficultyInit, DifficultyIInv, IsSequence, Rebuilt
<1>2. DifficultyIInv /\ [DifficultyNext]_diffVars => DifficultyIInv'
  <2>1. SUFFICES ASSUME DifficultyIInv, [DifficultyNext]_diffVars PROVE DifficultyIInv'
    OBVIOUS
  <2>2. ASSUME NEW keep \in DOMAIN chain, NEW lane \in Lanes, NEW delay \in Delays,
               TipChanges(keep, lane, delay)
        PROVE  DifficultyIInv'
    <3>1. PICK x : chain' = Append(SubSeq(chain, 1, keep), x) /\ manager' = Rebuilt(chain')
      BY <2>2 DEF TipChanges
    <3>2. PICK S : chain \in Seq(S)
      BY <2>1 DEF DifficultyIInv, IsSequence
    <3>3. PICK c : c = SubSeq(chain, 1, keep)
      OBVIOUS
    <3>4. c \in Seq(S)
      BY <3>2, <3>3
    <3>5. c \in Seq(S \cup {x})
      BY <3>4
    <3>6. Append(c, x) \in Seq(S \cup {x}) /\ Len(Append(c, x)) = Len(c) + 1 /\ Len(c) \in Nat
      BY <3>5
    <3>7. PICK d : d = Append(c, x)
      OBVIOUS
    <3>8. d \in Seq(S \cup {x}) /\ d # <<>> /\ chain' = d
      BY <3>1, <3>3, <3>6, <3>7
    <3> QED
      BY <3>1, <3>8 DEF DifficultyIInv, IsSequence, Rebuilt
  <2>3. CASE RestartNode
    BY <2>1, <2>3 DEF RestartNode, DifficultyIInv, Rebuilt, IsSequence
  <2>4. CASE UNCHANGED diffVars
    BY <2>1, <2>4 DEF diffVars, DifficultyIInv, Rebuilt, IsSequence
  <2> QED
    BY <2>1, <2>2, <2>3, <2>4 DEF DifficultyNext
<1> QED
  BY <1>1, <1>2, PTL DEF DifficultySpec

\* The bits the worker takes from the manager are those validation expects,
\* for every lane and after any reorganizations and restarts: an engine with
\* the last WALK blocks of a lane keeps the same window as one with all.
THEOREM WorkerAgrees == DifficultySpec => []WorkerBitsExpected
<1>1. DifficultyIInv => WorkerBitsExpected
  <2>1. SUFFICES ASSUME DifficultyIInv, NEW lane \in Lanes
                 PROVE  NextDifficulty(manager[lane]) = ExpectedDifficulty(chain, lane)
    BY DEF WorkerBitsExpected
  <2>2. PICK m : m = OfLane(chain, lane)
    OBVIOUS
  <2>3. manager[lane] = RecordAll(<<>>, m)
    BY <2>1, <2>2 DEF DifficultyIInv, Rebuilt
  <2>4. PICK E : m \in Seq(E)
    BY <2>1, <2>2, LaneIsSequence DEF DifficultyIInv, IsSequence
  <2> DEFINE first == IF Len(m) > WALK THEN Len(m) - WALK + 1 ELSE 1
  <2>5. RecordAll(<<>>, SubSeq(m, first, Len(m))) = RecordAll(<<>>, m)
    BY <2>4, SameWindow
  <2>6. ExpectedDifficulty(chain, lane) = NextDifficulty(RecordAll(<<>>, SubSeq(m, first, Len(m))))
    BY <2>2 DEF ExpectedDifficulty
  <2> QED
    BY <2>3, <2>5, <2>6
<1> QED
  BY <1>1, DifficultyInvariant, PTL

----------------------------------------------------------------------------
(* Powers of the base                                                      *)

\* The definition of the powers, as a table.
PowerTable(f) == f = [n \in Nat |-> IF n = 0 THEN 1 ELSE BASE * f[n - 1]]

\* Each power is BASE times the one before.
LEMMA PowerSteps ==
  /\ Power[0] = 1
  /\ \A n \in Nat : Power[n] \in Nat /\ Power[n] > 0 /\ Power[n + 1] = BASE * Power[n]
<1> DEFINE F == [x \in Nat |-> BASE * x]
<1>1. BASE \in Nat /\ BASE > 0
  BY DifficultyAssumption
<1>2. F \in [Nat -> Nat]
  BY <1>1
<1>3. PICK u : IsOrbit(Nat, 1, F, u)
  <2> HIDE DEF F
  <2>1. 1 \in Nat
    OBVIOUS
  <2> QED
    BY <1>2, <2>1, OrbitExists
<1>4. PowerTable(u)
  <2>1. ASSUME NEW n \in Nat PROVE u[n] = IF n = 0 THEN 1 ELSE BASE * u[n - 1]
    <3>1. CASE n = 0
      BY <1>3, <3>1 DEF IsOrbit
    <3>2. CASE n # 0
      <4>1. n - 1 \in Nat /\ (n - 1) + 1 = n
        BY <3>2
      <4>2. u[n] = F[u[n - 1]] /\ u[n - 1] \in Nat
        BY <1>3, <4>1 DEF IsOrbit
      <4> QED
        BY <3>2, <4>2
    <3> QED
      BY <3>1, <3>2
  <2>2. u = [n \in Nat |-> u[n]]
    BY <1>3 DEF IsOrbit
  <2>3. u = [n \in Nat |-> IF n = 0 THEN 1 ELSE BASE * u[n - 1]]
    BY <2>1, <2>2
  <2> QED
    BY <2>3 DEF PowerTable
<1>5. PowerTable(Power)
  <2>1. Power = CHOOSE f : PowerTable(f)
    BY DEF Power, PowerTable
  <2> QED
    BY <1>4, <2>1
<1>6. PICK p : p = Power
  OBVIOUS
<1>7. \A n \in Nat : p[n] = IF n = 0 THEN 1 ELSE BASE * p[n - 1]
  BY <1>5, <1>6 DEF PowerTable
<1>8. ASSUME NEW n \in Nat PROVE p[n + 1] = BASE * p[n]
  <2>1. n + 1 \in Nat /\ n + 1 # 0 /\ (n + 1) - 1 = n
    OBVIOUS
  <2> QED
    BY <1>7, <2>1
<1> DEFINE T == {n \in Nat : p[n] \in Nat /\ p[n] > 0}
<1>9. p[0] = 1
  BY <1>7
<1>10. 0 \in T
  BY <1>9
<1>11. ASSUME NEW n \in Nat, n \in T PROVE n + 1 \in T
  <2>1. p[n] \in Nat /\ p[n] > 0
    BY <1>11
  <2>2. \A a, b \in Nat : a > 0 /\ b > 0 => a * b \in Nat /\ a * b > 0
    OBVIOUS
  <2>3. BASE * p[n] \in Nat /\ BASE * p[n] > 0
    BY <1>1, <2>1, <2>2
  <2> QED
    BY <1>8, <2>3
<1>12. Nat \subseteq T
  <2> HIDE DEF T
  <2> QED
    BY <1>10, <1>11, SetInduction
<1> QED
  BY <1>6, <1>8, <1>9, <1>12

\* Powers multiply.
LEMMA PowersAdd ==
  ASSUME NEW m \in Nat, NEW n \in Nat
  PROVE  Power[m + n] = Power[m] * Power[n]
<1> DEFINE T == {k \in Nat : Power[m + k] = Power[m] * Power[k]}
<1>1. 0 \in T
  <2>1. m + 0 = m /\ Power[0] = 1 /\ Power[m] \in Nat
    BY PowerSteps
  <2>2. Power[m] * 1 = Power[m]
    BY <2>1
  <2> QED
    BY <2>1, <2>2
<1>2. ASSUME NEW k \in Nat, k \in T PROVE k + 1 \in T
  <2> DEFINE a == Power[m]
             b == Power[k]
             c == Power[m + k]
  <2>1. a \in Nat /\ b \in Nat /\ c \in Nat /\ c = a * b /\ BASE \in Nat
    BY <1>2, PowerSteps, DifficultyAssumption
  <2>2. m + k \in Nat /\ m + (k + 1) = (m + k) + 1
    OBVIOUS
  <2>3. Power[k + 1] = BASE * b /\ Power[(m + k) + 1] = BASE * c
    BY <2>2, PowerSteps
  <2> HIDE DEF a, b, c
  <2>4. BASE * c = a * (BASE * b)
    BY <2>1
  <2>5. Power[m + (k + 1)] = a * Power[k + 1]
    BY <2>2, <2>3, <2>4
  <2> QED
    BY <2>5 DEF a
<1> HIDE DEF T
<1>3. n \in T
  BY <1>1, <1>2, SetInduction
<1> QED
  BY <1>3 DEF T

\* The base itself and the small powers.
LEMMA SmallPowers ==
  /\ BASE \in Nat /\ BASE >= 2
  /\ Power[1] = BASE /\ Power[2] = BASE * BASE /\ Power[2] >= BASE /\ Power[3] = BASE * Power[2]
<1>1. BASE \in Nat /\ BASE >= 2
  BY DifficultyAssumption
<1>2. Power[0 + 1] = BASE * Power[0] /\ Power[1 + 1] = BASE * Power[1] /\ Power[2 + 1] = BASE * Power[2]
  BY PowerSteps
<1>3. Power[1] = BASE /\ Power[2] = BASE * BASE /\ Power[3] = BASE * Power[2]
  BY <1>1, <1>2, PowerSteps
<1>4. \A a \in Nat : a >= 2 => a * a >= a
  OBVIOUS
<1> QED
  BY <1>1, <1>3, <1>4

\* More digits, larger powers.
LEMMA PowersGrow ==
  ASSUME NEW m \in Nat, NEW n \in Nat, m <= n
  PROVE  Power[m] <= Power[n]
<1>1. n - m \in Nat /\ m + (n - m) = n
  OBVIOUS
<1>2. Power[n] = Power[m] * Power[n - m]
  BY <1>1, PowersAdd
<1>3. Power[m] \in Nat /\ Power[n - m] \in Nat /\ Power[n - m] > 0
  BY <1>1, PowerSteps
<1>4. \A a, b \in Nat : b > 0 => a <= a * b
  OBVIOUS
<1> QED
  BY <1>2, <1>3, <1>4

\* A target of the word has its number of digits.
LEMMA DigitsFit ==
  ASSUME NEW x \in Nat, x >= 1, x <= TopTarget
  PROVE  /\ NumDigits(x) \in 1..DIGITS
         /\ x < Power[NumDigits(x)] /\ Power[NumDigits(x) - 1] <= x
<1> DEFINE T == {n \in Nat : x < Power[n]}
<1>1. DIGITS \in Nat /\ DIGITS \in T
  <2>1. DIGITS \in Nat
    BY DifficultyAssumption
  <2>2. Power[DIGITS] \in Nat
    BY <2>1, PowerSteps
  <2> QED
    BY <2>1, <2>2 DEF TopTarget
<1>2. PICK m \in T : \A n \in T : m <= n
  <2>1. T \subseteq Nat /\ T # {}
    BY <1>1
  <2> HIDE DEF T
  <2> QED
    BY <2>1, LeastNat
<1>3. m \in 0..DIGITS
  BY <1>1, <1>2
<1>4. ASSUME m # 0 PROVE x >= Power[m - 1]
  <2>1. m - 1 \in Nat /\ ~ (m <= m - 1)
    BY <1>2, <1>4
  <2>2. m - 1 \notin T
    BY <1>2, <2>1
  <2>3. Power[m - 1] \in Nat
    BY <2>1, PowerSteps
  <2> QED
    BY <2>1, <2>2, <2>3
<1>5. \E n \in 0..DIGITS : x < Power[n] /\ (n = 0 \/ x >= Power[n - 1])
  BY <1>2, <1>3, <1>4
<1> DEFINE d == NumDigits(x)
<1>6. d \in 0..DIGITS /\ x < Power[d] /\ (d = 0 \/ x >= Power[d - 1])
  BY <1>5 DEF NumDigits
<1> HIDE DEF d
<1>7. d # 0
  BY <1>6, PowerSteps
<1>8. d - 1 \in Nat /\ d \in 1..DIGITS
  BY <1>1, <1>6, <1>7
<1>9. Power[d - 1] \in Nat
  BY <1>8, PowerSteps
<1> QED
  BY <1>6, <1>7, <1>8, <1>9 DEF d

----------------------------------------------------------------------------
(* Rounding                                                                *)

\* Products of naturals are naturals and grow with their factors.
LEMMA Grows ==
  ASSUME NEW a \in Nat, NEW b \in Nat, NEW c \in Nat, NEW d \in Nat, a <= c, b <= d
  PROVE  a * b \in Nat /\ c * d \in Nat /\ a * b <= c * d
<1>1. a * b <= c * b /\ a * b \in Nat  OBVIOUS
<1>2. c * b <= c * d /\ c * d \in Nat /\ c * b \in Nat  OBVIOUS
<1> QED  BY <1>1, <1>2

\* A quotient rounded down.
LEMMA Quotient ==
  ASSUME NEW n \in Nat, NEW d \in Nat, d > 0
  PROVE  n \div d \in Nat /\ (n \div d) * d <= n /\ n < (n \div d + 1) * d
<1>1. n \div d \in Nat /\ d * (n \div d) <= n /\ n < d * (n \div d) + d
  OBVIOUS
<1>2. PICK q \in Nat : q = n \div d
  BY <1>1
<1>3. (q + 1) * d = d * q + d /\ q * d = d * q
  BY <1>2
<1> QED
  BY <1>1, <1>2, <1>3

\* A factor is cancelled.
LEMMA Cancel ==
  ASSUME NEW a \in Nat, NEW b \in Nat, NEW d \in Nat, d > 0
  PROVE  /\ a * d <= b * d => a <= b
         /\ a * d < b * d => a < b
<1>1. ASSUME a > b PROVE b * d < a * d
  <2>1. a >= b + 1
    BY <1>1
  <2>2. (b + 1) * d <= a * d /\ (b + 1) * d = b * d + d /\ b * d \in Nat /\ a * d \in Nat
    BY <2>1, Grows
  <2> QED
    BY <2>2
<1>2. a * d \in Nat /\ b * d \in Nat
  BY Grows
<1>3. ASSUME a >= b PROVE b * d <= a * d
  BY <1>3, Grows
<1> QED
  BY <1>1, <1>2, <1>3

\* Between two multiples the quotient is between their factors.
LEMMA QuotientBetween ==
  ASSUME NEW n \in Nat, NEW d \in Nat, d > 0, NEW q \in Nat
  PROVE  /\ q * d <= n => q <= n \div d
         /\ n < q * d => n \div d < q
<1>1. PICK r \in Nat : r = n \div d /\ r * d <= n /\ n < (r + 1) * d
  BY Quotient
<1>2. q * d \in Nat /\ r * d \in Nat /\ (r + 1) * d \in Nat
  BY Grows
<1>3. ASSUME q * d <= n PROVE q <= r
  <2>1. q * d < (r + 1) * d
    BY <1>1, <1>2, <1>3
  <2>2. q < r + 1
    BY <2>1, Cancel
  <2> QED
    BY <2>2
<1>4. ASSUME n < q * d PROVE r < q
  <2>1. r * d < q * d
    BY <1>1, <1>2, <1>4
  <2> QED
    BY <2>1, Cancel
<1> QED
  BY <1>1, <1>3, <1>4

\* A multiple divided.
LEMMA ExactQuotient ==
  ASSUME NEW q \in Nat, NEW d \in Nat, d > 0
  PROVE  (q * d) \div d = q
<1>1. q * d \in Nat /\ (q + 1) * d = q * d + d
  BY Grows
<1>2. q <= (q * d) \div d /\ (q * d) \div d < q + 1
  BY <1>1, QuotientBetween
<1>3. (q * d) \div d \in Nat
  BY <1>1, Quotient
<1> QED
  BY <1>2, <1>3

\* Compact bits round a target down, to no less than one.
LEMMA BitsRoundDown ==
  ASSUME NEW x \in Nat, x >= 1, x <= TopTarget
  PROVE  /\ TargetToBits(x) \in [exp : Nat, man : Nat]
         /\ TargetFromBits(TargetToBits(x)) \in 1..x
<1> DEFINE n == NumDigits(x)
           m == IF n <= 3 THEN x * Power[3 - n] ELSE x \div Power[n - 3]
<1>1. n \in 1..DIGITS /\ x < Power[n] /\ Power[n - 1] <= x /\ DIGITS \in Nat /\ DIGITS > 3
  BY DigitsFit, DifficultyAssumption
<1>2. TargetToBits(x) = IF m >= Power[3] \div 2 THEN [exp |-> n + 1, man |-> m \div BASE]
                        ELSE [exp |-> n, man |-> m]
  <2>1. x # 0
    OBVIOUS
  <2> QED
    BY <2>1 DEF TargetToBits
<1> HIDE DEF n
<1>3. CASE n <= 3
  <2> DEFINE k == 3 - n
  <2>1. k \in Nat /\ k <= 2 /\ m = x * Power[k]
    BY <1>1, <1>3
  <2>2. Power[k] \in Nat /\ Power[k] > 0
    BY <2>1, PowerSteps
  <2>3. m \in Nat
    BY <2>1, <2>2, Grows
  <2>4. CASE TargetToBits(x) = [exp |-> n, man |-> m]
    <3>1. m \div Power[k] = x
      BY <2>1, <2>2, ExactQuotient
    <3>2. TargetFromBits(TargetToBits(x)) = m \div Power[3 - n]
      <4> HIDE DEF m
      <4> QED
        BY <1>1, <1>3, <2>4 DEF TargetFromBits
    <3> HIDE DEF m
    <3> QED
      BY <1>1, <2>3, <2>4, <3>1, <3>2
  <2>5. CASE TargetToBits(x) = [exp |-> n + 1, man |-> m \div BASE] /\ n < 3
    <3>1. k - 1 \in Nat /\ (k - 1) + 1 = k /\ 3 - (n + 1) = k - 1
      BY <1>1, <2>5
    <3>2. Power[k] = BASE * Power[k - 1] /\ Power[k - 1] \in Nat /\ Power[k - 1] > 0
      BY <3>1, PowerSteps
    <3>3. m = (x * Power[k - 1]) * BASE /\ x * Power[k - 1] \in Nat
      BY <2>1, <3>2, SmallPowers, Grows
    <3>4. m \div BASE = x * Power[k - 1]
      BY <3>3, SmallPowers, ExactQuotient
    <3>5. (m \div BASE) \div Power[k - 1] = x
      BY <3>2, <3>4, ExactQuotient
    <3>6. TargetFromBits(TargetToBits(x)) = (m \div BASE) \div Power[3 - (n + 1)]
      <4> HIDE DEF m
      <4> QED
        BY <1>1, <2>5 DEF TargetFromBits
    <3> HIDE DEF m
    <3> QED
      BY <1>1, <2>5, <3>1, <3>3, <3>4, <3>5, <3>6
  <2>6. CASE TargetToBits(x) = [exp |-> n + 1, man |-> m \div BASE] /\ n = 3
    <3> DEFINE q == x \div BASE
    <3>1. m = x
      BY <2>6, <2>1, PowerSteps
    <3>2. Power[n - 1] = Power[2]
      BY <2>6
    <3>3. BASE <= x
      BY <1>1, <3>2, SmallPowers
    <3>4. q \in Nat /\ q * BASE <= x
      BY SmallPowers, Quotient
    <3>5. 1 <= q
      <4>1. 1 * BASE <= x
        BY <3>3, SmallPowers
      <4> QED
        BY <4>1, SmallPowers, QuotientBetween
    <3>6. TargetFromBits(TargetToBits(x)) = (m \div BASE) * Power[(n + 1) - 3]
      <4>1. n + 1 # 0 /\ ~ (n + 1 <= 3) /\ n + 1 <= DIGITS
        BY <1>1, <2>6
      <4> HIDE DEF m
      <4> QED
        BY <2>6, <4>1 DEF TargetFromBits
    <3>7. (n + 1) - 3 = 1
      BY <2>6
    <3> HIDE DEF q
    <3>8. TargetFromBits(TargetToBits(x)) = q * BASE
      BY <3>1, <3>6, <3>7, SmallPowers DEF q
    <3>9. q * BASE >= 1
      <4>1. 1 * BASE <= q * BASE /\ q * BASE \in Nat
        BY <3>4, <3>5, SmallPowers, Grows
      <4> QED
        BY <4>1, SmallPowers
    <3>10. TargetToBits(x) = [exp |-> n + 1, man |-> q]
      BY <2>6, <3>1 DEF q
    <3>11. q * BASE \in Nat
      BY <3>4, SmallPowers, Grows
    <3>12. TargetToBits(x) \in [exp : Nat, man : Nat]
      BY <1>1, <3>4, <3>10
    <3> QED
      BY <3>4, <3>8, <3>9, <3>11, <3>12
  <2> HIDE DEF m, k
  <2> QED
    BY <1>1, <1>2, <1>3, <2>4, <2>5, <2>6
<1>4. CASE n > 3
  <2> DEFINE e == n - 3
             P == Power[e]
  <2>1. e \in Nat /\ e >= 1 /\ m = x \div P /\ n - 1 = 2 + e
    BY <1>1, <1>4
  <2>2. P \in Nat /\ P > 0 /\ Power[e + 1] = BASE * P /\ Power[n - 1] = Power[2] * P
    <3>1. Power[2 + e] = Power[2] * Power[e]
      BY <2>1, PowersAdd
    <3> QED
      BY <2>1, <3>1, PowerSteps
  <2>3. m \in Nat /\ m * P <= x
    BY <2>1, <2>2, Quotient
  <2>4. BASE <= m
    <3>1. Power[2] \in Nat
      BY PowerSteps
    <3>2. Power[2] <= m
      BY <1>1, <2>1, <2>2, <3>1, QuotientBetween
    <3> QED
      BY <2>3, <3>1, <3>2, SmallPowers
  <2> DEFINE q == m \div BASE
  <2>5. q \in Nat /\ q * BASE <= m
    BY <2>3, SmallPowers, Quotient
  <2>6. 1 <= q
    <3>1. 1 * BASE <= m
      BY <2>4, SmallPowers
    <3> QED
      BY <2>3, <3>1, SmallPowers, QuotientBetween
  <2> HIDE DEF m, P, q
  <2>7. m * P \in 1..x
    <3>1. 1 * 1 <= m * P /\ m * P \in Nat
      BY <2>2, <2>3, <2>4, SmallPowers, Grows
    <3> QED
      BY <2>3, <3>1
  <2>8. q * BASE \in Nat /\ (q * BASE) * P \in 1..x
    <3>1. q * BASE \in Nat /\ 1 * 1 <= q * BASE
      BY <2>5, <2>6, SmallPowers, Grows
    <3>2. (q * BASE) * P <= m * P /\ 1 * 1 <= (q * BASE) * P /\ (q * BASE) * P \in Nat
      BY <2>2, <2>3, <2>5, <3>1, Grows
    <3> QED
      BY <2>7, <3>1, <3>2
  <2>9. q * P \in 1..x
    <3>1. q * 1 <= q * BASE
      BY <2>5, SmallPowers, Grows
    <3>2. q * P <= (q * BASE) * P /\ q * P \in Nat
      BY <2>2, <2>5, <2>8, <3>1, Grows
    <3>3. 1 * 1 <= q * P
      BY <2>2, <2>5, <2>6, Grows
    <3> QED
      BY <2>8, <3>2, <3>3
  <2>10. CASE TargetToBits(x) = [exp |-> n, man |-> m]
    <3>1. TargetFromBits(TargetToBits(x)) = m * Power[n - 3]
      <4>1. n # 0 /\ ~ (n <= 3) /\ n <= DIGITS
        BY <1>1, <1>4
      <4> QED
        BY <2>10, <4>1 DEF TargetFromBits
    <3> QED
      BY <1>1, <2>3, <2>7, <2>10, <3>1 DEF P
  <2>11. CASE TargetToBits(x) = [exp |-> n + 1, man |-> q] /\ n < DIGITS
    <3>1. n + 1 # 0 /\ ~ (n + 1 <= 3) /\ n + 1 <= DIGITS /\ (n + 1) - 3 = e + 1
      BY <1>1, <1>4, <2>11
    <3>2. TargetFromBits(TargetToBits(x)) = q * Power[e + 1]
      BY <2>11, <3>1 DEF TargetFromBits
    <3>3. q * (BASE * P) = (q * BASE) * P
      BY <2>2, <2>5, SmallPowers
    <3> QED
      BY <1>1, <2>2, <2>5, <2>8, <2>11, <3>2, <3>3
  <2>12. CASE TargetToBits(x) = [exp |-> n + 1, man |-> q] /\ n = DIGITS
    <3>1. n + 1 # 0 /\ ~ (n + 1 <= 3) /\ ~ (n + 1 <= DIGITS) /\ DIGITS - 3 = e
      BY <1>1, <1>4, <2>12
    <3>2. TargetFromBits(TargetToBits(x)) = q * Power[e]
      BY <2>12, <3>1 DEF TargetFromBits
    <3> QED
      BY <1>1, <2>5, <2>9, <2>12, <3>2 DEF P
  <2> QED
    BY <1>1, <1>2, <2>10, <2>11, <2>12 DEF q
<1> QED
  BY <1>1, <1>3, <1>4

----------------------------------------------------------------------------
(* The clamp                                                               *)

\* A timespan num within a third and three times the target den, and the
\* fraction a / d that the two are scaled to: the fraction is near num / den,
\* and its numerator below twice the precision.
LEMMA FractionFacts ==
  ASSUME NEW num \in Nat, NEW den \in Nat, den > 0, den <= 3 * num, num <= 3 * den
  PROVE  LET a == num \div Scale(num)
             d == ScaledDen(num, den)
         IN  /\ a \in Nat /\ d \in Nat /\ d > 0 /\ a <= 2 * PRECISION
             /\ a * (PRECISION - 3) <= 3 * PRECISION * d
             /\ (PRECISION - 1) * d <= 3 * PRECISION * a
<1> DEFINE P == PRECISION
           s == Scale(num)
           a == num \div s
           d == ScaledDen(num, den)
<1>1. P \in Nat /\ P > 3 /\ P - 3 \in Nat /\ P - 1 \in Nat
  BY DifficultyAssumption
<1>2. CASE num <= P
  <2>1. s = 1
    BY <1>1, <1>2 DEF Scale
  <2>2. num \div 1 = num /\ den \div 1 = den
    OBVIOUS
  <2>3. a = num
    BY <2>1, <2>2
  <2>4. d = den
    BY <2>1, <2>2 DEF ScaledDen
  <2> HIDE DEF P, a, d
  <2>5. num * (P - 3) <= (3 * den) * P
    BY <1>1, Grows
  <2>6. (P - 1) * den <= P * (3 * num)
    BY <1>1, Grows
  <2>7. (3 * den) * P = 3 * P * den /\ P * (3 * num) = 3 * P * num
    BY <1>1
  <2> QED
    BY <1>1, <1>2, <2>3, <2>4, <2>5, <2>6, <2>7 DEF P, a, d
<1>3. CASE num > P
  <2>1. s = num \div P
    BY <1>1, <1>3 DEF Scale
  <2> HIDE DEF P
  <2>2. s \in Nat /\ s * P <= num /\ num < (s + 1) * P /\ 1 <= s
    <3>1. 1 * P <= num
      BY <1>1, <1>3
    <3> QED
      BY <1>1, <2>1, <3>1, Quotient, QuotientBetween
  <2> HIDE DEF s
  <2>3. a \in Nat /\ a * s <= num /\ num < (a + 1) * s
    BY <2>2, Quotient
  <2>4. P <= a
    <3>1. P * s <= num
      BY <1>1, <2>2
    <3> QED
      BY <1>1, <2>2, <3>1, QuotientBetween
  <2>5. a < 2 * P
    <3>1. (s + 1) * P <= (2 * s) * P
      BY <1>1, <2>2, Grows
    <3>2. (2 * s) * P = (2 * P) * s /\ (2 * P) * s \in Nat /\ (s + 1) * P \in Nat
      BY <1>1, <2>2
    <3>3. num < (2 * P) * s
      BY <2>2, <3>1, <3>2
    <3>4. 2 * P \in Nat
      BY <1>1
    <3> QED
      BY <2>2, <3>3, <3>4, QuotientBetween
  <2> DEFINE e == den \div s
  <2>6. e \in Nat /\ e * s <= den /\ den < (e + 1) * s
    BY <2>2, Quotient
  <2>7. d = IF e = 0 THEN 1 ELSE e
    BY DEF ScaledDen, s
  <2> HIDE DEF a, e, d
  <2>8. a < 3 * (e + 1)
    <3>1. a * s < (3 * (e + 1)) * s
      <4>1. (3 * (e + 1)) * s = 3 * ((e + 1) * s) /\ (e + 1) * s \in Nat /\ a * s \in Nat
        BY <2>2, <2>3, <2>6
      <4> QED
        BY <2>3, <2>6, <4>1
    <3>2. 3 * (e + 1) \in Nat
      BY <2>6
    <3> QED
      BY <2>2, <2>3, <3>1, <3>2, Cancel
  <2>9. e < 3 * (a + 1)
    <3>1. e * s < (3 * (a + 1)) * s
      <4>1. (3 * (a + 1)) * s = 3 * ((a + 1) * s) /\ (a + 1) * s \in Nat /\ e * s \in Nat
        BY <2>2, <2>3, <2>6
      <4> QED
        BY <2>3, <2>6, <4>1
    <3>2. 3 * (a + 1) \in Nat
      BY <2>3
    <3> QED
      BY <2>2, <2>6, <3>1, <3>2, Cancel
  <2>10. d \in Nat /\ d > 0 /\ a <= 3 * d + 2 /\ d <= 3 * a + 2
    BY <1>1, <2>3, <2>4, <2>6, <2>7, <2>8, <2>9
  <2>11. a * (P - 3) <= 3 * P * d
    <3>1. a * P <= (3 * d + 2) * P
      BY <1>1, <2>3, <2>10, Grows
    <3>2. (3 * d + 2) * P = 3 * P * d + 2 * P /\ a * (P - 3) = a * P - 3 * a
      BY <1>1, <2>3, <2>10
    <3>3. a * P \in Nat /\ 3 * P * d \in Nat
      BY <1>1, <2>3, <2>10
    <3> QED
      BY <1>1, <2>3, <2>4, <3>1, <3>2, <3>3
  <2>12. (P - 1) * d <= 3 * P * a
    <3>1. (P - 1) * d <= (P - 1) * (3 * a + 2)
      BY <1>1, <2>3, <2>10, Grows
    <3>2. (P - 1) * (3 * a + 2) = 3 * P * a + 2 * P - 3 * a - 2
      BY <1>1, <2>3
    <3>3. (P - 1) * d \in Nat /\ 3 * P * a \in Nat
      BY <1>1, <2>3, <2>10
    <3> QED
      BY <1>1, <2>3, <2>4, <3>1, <3>2, <3>3
  <2> QED
    BY <1>1, <2>3, <2>5, <2>10, <2>11, <2>12 DEF P, a, d, s
<1> QED
  BY <1>1, <1>2, <1>3

\* The easiest target.
Easiest == TargetFromBits(GENESIS_BITS)

\* The easiest target is a number from which the retarget never leaves the word.
LEMMA EasiestFits ==
  /\ Easiest \in Nat /\ Easiest >= 1 /\ Easiest <= TopTarget /\ TopTarget \in Nat
  /\ \A t \in 0..Easiest : \A a \in Nat : a <= 2 * PRECISION => t * a <= TopTarget
<1>1. GENESIS_BITS \in [exp : Nat, man : Nat] /\ DIGITS \in Nat /\ DIGITS > 3
  BY RetargetAssumption, DifficultyAssumption
<1>2. Easiest \in Nat
  <2> DEFINE b == GENESIS_BITS
  <2>1. b.exp \in Nat /\ b.man \in Nat
    BY <1>1
  <2> HIDE DEF b
  <2>2. ASSUME NEW k \in Nat PROVE b.man * Power[k] \in Nat /\ b.man \div Power[k] \in Nat
    <3>1. Power[k] \in Nat /\ Power[k] > 0
      BY PowerSteps
    <3> DEFINE w == Power[k]
               u == b.man
    <3>2. w \in Nat /\ w > 0 /\ u \in Nat
      BY <2>1, <3>1
    <3> HIDE DEF w, u
    <3>3. u * w \in Nat /\ u \div w \in Nat
      BY <3>2, Quotient
    <3> QED
      BY <3>3 DEF u, w
  <2>3. CASE b.exp = 0
    BY <2>3 DEF Easiest, TargetFromBits, b
  <2>4. CASE b.exp # 0 /\ b.exp <= 3
    <3>1. 3 - b.exp \in Nat
      BY <2>1, <2>4
    <3>2. Easiest = b.man \div Power[3 - b.exp]
      BY <2>4 DEF Easiest, TargetFromBits, b
    <3> QED
      BY <2>2, <3>1, <3>2
  <2>5. CASE b.exp # 0 /\ ~ (b.exp <= 3) /\ b.exp <= DIGITS
    <3>1. b.exp - 3 \in Nat
      BY <2>1, <2>5
    <3>2. Easiest = b.man * Power[b.exp - 3]
      BY <2>5 DEF Easiest, TargetFromBits, b
    <3> QED
      BY <2>2, <3>1, <3>2
  <2>6. CASE b.exp # 0 /\ ~ (b.exp <= 3) /\ ~ (b.exp <= DIGITS)
    <3>1. DIGITS - 3 \in Nat
      BY <1>1
    <3>2. Easiest = b.man * Power[DIGITS - 3]
      BY <2>6 DEF Easiest, TargetFromBits, b
    <3> QED
      BY <2>2, <3>1, <3>2
  <2> QED
    BY <2>3, <2>4, <2>5, <2>6
<1>3. Easiest > 0 /\ 2 * PRECISION * Easiest <= TopTarget
  BY RetargetAssumption DEF Easiest
<1>4. TopTarget \in Nat
  <2>1. Power[DIGITS] \in Nat /\ Power[DIGITS] > 0
    BY <1>1, PowerSteps
  <2> QED
    BY <2>1 DEF TopTarget
<1>5. PRECISION \in Nat /\ PRECISION > 3
  BY DifficultyAssumption
<1> HIDE DEF Easiest
<1>6. 2 * PRECISION * Easiest = Easiest * (2 * PRECISION) /\ 2 * PRECISION \in Nat
  BY <1>2, <1>5
<1>7. Easiest * 1 <= Easiest * (2 * PRECISION)
  BY <1>2, <1>5, <1>6, Grows
<1>8. ASSUME NEW t \in 0..Easiest, NEW a \in Nat, a <= 2 * PRECISION
      PROVE  t * a <= TopTarget
  <2>1. t * a \in Nat /\ t * a <= Easiest * (2 * PRECISION)
    BY <1>2, <1>6, <1>8, Grows
  <2>2. Easiest * (2 * PRECISION) \in Nat
    BY <1>2, <1>6, Grows
  <2> QED
    BY <1>3, <1>4, <1>6, <2>1, <2>2
<1> QED
  BY <1>2, <1>3, <1>4, <1>6, <1>7, <1>8

----------------------------------------------------------------------------
(* The average                                                             *)

\* Compact bits: an exponent and a mantissa.
Bits == [exp : Nat, man : Nat]

\* Entries that an engine records: each target but that of the first block is
\* in range.
GoodHistory(h) ==
  /\ h \in Seq(Nat \X Bits)
  /\ \A i \in DOMAIN h : i # 1 => TargetFromBits(h[i][2]) \in 1..Easiest

\* One more target in the sum.
Summed(acc, e) == (acc + TargetFromBits(e[2])) % (TopTarget + 1)

\* The table by which the fold of add_targets is defined.
SummedTable(s, g) ==
  g = [p \in SUBSET DOMAIN s |->
         IF p = {} THEN 0 ELSE Summed(g[p \ {Max(p)}], s[Max(p)])]

\* The sum is the entry of the whole sequence in that table.
LEMMA AverageIsChosen ==
  ASSUME NEW h
  PROVE  AverageTarget(h) = (CHOOSE g : SummedTable(Tail(h), g))[DOMAIN Tail(h)] \div (Len(h) - 1)
BY DEF AverageTarget, FoldLeft, MapThenFoldSet, SummedTable, Summed

\* One sum stays in the word and grows by no more than the target.
LEMMA SummedFacts ==
  ASSUME NEW acc \in Nat, NEW e, TargetFromBits(e[2]) \in 1..Easiest
  PROVE  Summed(acc, e) \in Nat /\ Summed(acc, e) <= acc + Easiest
<1> DEFINE t == TargetFromBits(e[2])
           M == TopTarget + 1
<1>1. t \in Nat /\ t <= Easiest /\ Easiest \in Nat /\ M \in Nat /\ M > 0
  BY EasiestFits
<1> HIDE DEF t, M
<1>2. (acc + t) % M \in Nat /\ (acc + t) % M <= acc + t
  <2> DEFINE n == acc + t
             q == n \div M
             r == n % M
  <2>1. n \in Nat
    BY <1>1
  <2> HIDE DEF n
  <2>2. q \in Nat /\ r \in Nat /\ n = M * q + r
    BY <1>1, <2>1
  <2> HIDE DEF q, r
  <2>3. M * q \in Nat
    BY <1>1, <2>2
  <2>4. r <= n
    BY <2>1, <2>2, <2>3
  <2> QED
    BY <2>2, <2>4 DEF r, n
<1> QED
  BY <1>1, <1>2 DEF Summed, t, M

\* The table exists.
LEMMA SummedTableExists ==
  ASSUME NEW E, NEW s \in Seq(E), \A i \in DOMAIN s : TargetFromBits(s[i][2]) \in 1..Easiest
  PROVE  \E g : SummedTable(s, g) /\ g \in [SUBSET DOMAIN s -> Nat]
<1> DEFINE D == DOMAIN s
           P == [p \in SUBSET D |-> Max(p)]
           F == [x \in Nat \X D |-> Summed(x[1], s[x[2]])]
<1>1. D = 1..Len(s) /\ Len(s) \in Nat /\ IsFiniteSet(D)
  BY FS_Interval
<1>2. IsPicker(D, P)
  BY <1>1, MaxOfSet DEF IsPicker
<1>3. \A a \in Nat, i \in D : Summed(a, s[i]) \in Nat
  BY SummedFacts
<1>4. IsFoldStep(Nat, D, F)
  <2> HIDE DEF D
  <2> QED
    BY <1>3 DEF IsFoldStep
<1>5. PICK g : IsFoldTable(Nat, 0, D, P, F, g)
  <2> HIDE DEF D, P, F
  <2>1. 0 \in Nat
    OBVIOUS
  <2> QED
    BY <1>1, <1>2, <1>4, <2>1, FoldTableExists
<1>6. \A p \in SUBSET D :
        g[p] = IF p = {} THEN 0 ELSE Summed(g[p \ {Max(p)}], s[Max(p)])
  <2>1. TAKE p \in SUBSET D
  <2>2. CASE p = {}
    BY <1>5, <2>2 DEF IsFoldTable
  <2>3. CASE p # {}
    <3>1. P[p] = Max(p) /\ P[p] \in p
      BY <1>2, <2>3 DEF IsPicker
    <3>2. <<g[p \ {P[p]}], P[p]>> \in Nat \X D
      BY <1>5, <3>1 DEF IsFoldTable
    <3>3. g[p] = F[<<g[p \ {P[p]}], P[p]>>]
      BY <1>5, <2>3 DEF IsFoldTable
    <3> HIDE DEF P, D
    <3> QED
      BY <2>3, <3>1, <3>2, <3>3
  <2> QED
    BY <2>2, <2>3
<1> QED
  BY <1>5, <1>6 DEF SummedTable, IsFoldTable

\* The average of targets in range is in range.
LEMMA AverageInRange ==
  ASSUME NEW h, GoodHistory(h), Len(h) > 1
  PROVE  AverageTarget(h) \in 0..Easiest
<1>1. PICK s : s = Tail(h)
  OBVIOUS
<1> DEFINE n == Len(h) - 1
           E == Nat \X Bits
<1>2. h \in Seq(E) /\ h # <<>> /\ Len(h) \in Nat /\ DOMAIN h = 1..Len(h)
  BY DEF GoodHistory
<1>3. n \in Nat /\ n > 0 /\ s \in Seq(E) /\ DOMAIN s = 1..n /\ \A i \in 1..n : s[i] = h[i + 1]
  <2> HIDE DEF E
  <2> QED
    BY <1>1, <1>2
<1>4. \A i \in DOMAIN s : TargetFromBits(s[i][2]) \in 1..Easiest
  <2>1. TAKE i \in DOMAIN s
  <2>2. i + 1 \in DOMAIN h /\ i + 1 # 1 /\ s[i] = h[i + 1]
    BY <1>2, <1>3
  <2> QED
    BY <2>2 DEF GoodHistory
<1> HIDE DEF n, E
<1>5. PICK g : g = (CHOOSE t : SummedTable(s, t))
  OBVIOUS
<1>6. SummedTable(s, g)
  <2>1. \E t : SummedTable(s, t)
    BY <1>3, <1>4, SummedTableExists
  <2> QED
    BY <1>5, <2>1
<1>7. g[{}] = 0
  BY <1>6 DEF SummedTable
<1>8. \A k \in 1..n : g[1..k] = Summed(g[1..(k - 1)], s[k])
  <2>1. TAKE k \in 1..n
  <2>2. 1..k \in SUBSET DOMAIN s /\ 1..k # {}
    <3>1. k \in 1..k /\ 1..k \subseteq 1..n
      BY <1>3
    <3> QED
      BY <1>3, <3>1
  <2>3. g[1..k] = Summed(g[(1..k) \ {Max(1..k)}], s[Max(1..k)])
    BY <1>6, <2>2 DEF SummedTable
  <2>4. Max(1..k) = k /\ (1..k) \ {k} = 1..(k - 1)
    BY <1>3, MaxOfPrefix
  <2> QED
    BY <2>3, <2>4
<1> DEFINE T == {k \in Nat : k <= n => g[1..k] \in Nat /\ g[1..k] <= Easiest * k}
<1>9. Easiest \in Nat
  BY EasiestFits
<1>10. 0 \in T
  <2>1. 1..0 = {} /\ Easiest * 0 = 0
    BY <1>9
  <2> QED
    BY <1>7, <2>1
<1>11. ASSUME NEW k \in Nat, k \in T PROVE k + 1 \in T
  <2>1. SUFFICES ASSUME k + 1 <= n
                 PROVE  g[1..(k + 1)] \in Nat /\ g[1..(k + 1)] <= Easiest * (k + 1)
    OBVIOUS
  <2> DEFINE a == g[1..k]
             b == g[1..(k + 1)]
  <2>2. a \in Nat /\ a <= Easiest * k
    BY <1>3, <1>11, <2>1
  <2>3. b = Summed(a, s[k + 1]) /\ k + 1 \in DOMAIN s
    <3>1. k + 1 \in 1..n /\ (k + 1) - 1 = k
      BY <1>3, <2>1
    <3> QED
      BY <1>3, <1>8, <3>1
  <2> HIDE DEF a, b
  <2>4. b \in Nat /\ b <= a + Easiest
    BY <1>4, <2>2, <2>3, SummedFacts
  <2>5. Easiest * (k + 1) = Easiest * k + Easiest /\ Easiest * k \in Nat
    BY <1>9
  <2>6. b \in Nat /\ b <= Easiest * (k + 1)
    BY <1>9, <2>2, <2>4, <2>5
  <2> QED
    BY <2>6 DEF b
<1>12. n \in T
  <2> HIDE DEF T
  <2> QED
    BY <1>3, <1>10, <1>11, SetInduction
<1> DEFINE sum == g[1..n]
<1>13. sum \in Nat /\ sum <= Easiest * n
  BY <1>3, <1>12
<1>14. AverageTarget(h) = sum \div n
  BY <1>1, <1>3, <1>5, AverageIsChosen DEF n
<1> HIDE DEF sum
<1>15. sum \div n \in Nat /\ sum \div n <= Easiest
  <2>1. sum < (Easiest + 1) * n
    <3>1. (Easiest + 1) * n = Easiest * n + n /\ Easiest * n \in Nat
      BY <1>3, <1>9
    <3> QED
      BY <1>3, <1>13, <3>1
  <2>2. sum \div n \in Nat
    BY <1>3, <1>13, Quotient
  <2>3. sum \div n < Easiest + 1
    <3>1. Easiest + 1 \in Nat /\ sum \in Nat /\ n \in Nat /\ n > 0
      BY <1>3, <1>9, <1>13
    <3> QED
      BY <2>1, <3>1, QuotientBetween
  <2> QED
    BY <1>9, <2>2, <2>3
<1> QED
  BY <1>9, <1>14, <1>15

----------------------------------------------------------------------------
(* The next target                                                         *)

\* What RetargetBounded says of a history.
RetargetStepBounded(h) ==
  LET average  == AverageTarget(h)
      adjusted == AdjustedTarget(h)
      next     == TargetFromBits(NextDifficulty(h))
  IN  /\ adjusted * (PRECISION - 3) <= 3 * PRECISION * average
      /\ 3 * PRECISION * (adjusted + 1) >= (PRECISION - 1) * average
      /\ next \in 1..TargetFromBits(GENESIS_BITS)

\* The timespan of a history is clamped to a third and three times the target.
LEMMA TimespanFacts ==
  ASSUME NEW h, GoodHistory(h), Len(h) > 1
  PROVE  /\ TargetTimespan(h) \in Nat /\ TargetTimespan(h) > 0 /\ ClampedTimespan(h) \in Nat
         /\ TargetTimespan(h) <= 3 * ClampedTimespan(h)
         /\ ClampedTimespan(h) <= 3 * TargetTimespan(h)
<1> DEFINE t == TargetTimespan(h)
           actual == h[Len(h)][1] - h[1][1]
           n == Len(h) - 1
<1>1. h \in Seq(Nat \X Bits) /\ Len(h) \in Nat /\ 1 \in DOMAIN h /\ Len(h) \in DOMAIN h
  BY DEF GoodHistory
<1>2. h[1] \in Nat \X Bits /\ h[Len(h)] \in Nat \X Bits
  BY <1>1
<1>3. actual \in Int
  BY <1>2
<1>4. /\ TARGET_BLOCK_TIME_MS \in Nat /\ TARGET_BLOCK_TIME_MS > 0
      /\ TARGET_BLOCK_TIME_MS % 3 = 0
  BY DifficultyAssumption
<1>5. n \in Nat /\ n > 0
  BY <1>1
<1>6. PICK w \in Nat : TARGET_BLOCK_TIME_MS = 3 * w /\ w > 0
  <2>1. TARGET_BLOCK_TIME_MS = 3 * (TARGET_BLOCK_TIME_MS \div 3) /\ TARGET_BLOCK_TIME_MS \div 3 \in Nat
    BY <1>4
  <2>2. TARGET_BLOCK_TIME_MS \div 3 > 0
    BY <1>4, <2>1
  <2> QED
    BY <2>1, <2>2
<1> HIDE DEF n
<1>7. t = 3 * (n * w) /\ n * w \in Nat /\ n * w > 0
  <2>1. t = n * (3 * w)
    BY <1>6 DEF TargetTimespan, n
  <2>2. n * (3 * w) = 3 * (n * w)
    BY <1>5, <1>6
  <2>3. n * w \in Nat /\ 1 * 1 <= n * w
    BY <1>5, <1>6, Grows
  <2> QED
    BY <2>1, <2>2, <2>3
<1>8. ClampedTimespan(h) = IF actual < t \div 3 THEN t \div 3
                           ELSE IF actual > t * 3 THEN t * 3 ELSE actual
  BY DEF ClampedTimespan
<1> HIDE DEF t, actual
<1>9. t \div 3 = n * w /\ t \in Nat /\ t > 0
  BY <1>7
<1>10. ClampedTimespan(h) \in Nat /\ t <= 3 * ClampedTimespan(h) /\ ClampedTimespan(h) <= 3 * t
  <2> DEFINE c == ClampedTimespan(h)
             w3 == n * w
  <2>1. c = IF actual < w3 THEN w3 ELSE IF actual > t * 3 THEN t * 3 ELSE actual
    BY <1>8, <1>9
  <2>2. t = 3 * w3 /\ w3 \in Nat
    BY <1>7
  <2> HIDE DEF c, w3
  <2>3. c \in Nat /\ t <= 3 * c /\ c <= 3 * t
    BY <1>3, <2>1, <2>2
  <2> QED
    BY <2>3 DEF c
<1> QED
  BY <1>9, <1>10 DEF t

\* The retarget of targets in range stays near the average and in range.
LEMMA NextInRange ==
  ASSUME NEW h, GoodHistory(h), Len(h) > 1
  PROVE  NextDifficulty(h) \in Bits /\ RetargetStepBounded(h)
<1> DEFINE P == PRECISION
           avg == AverageTarget(h)
           num == ClampedTimespan(h)
           den == TargetTimespan(h)
           a == num \div Scale(num)
           d == ScaledDen(num, den)
           adj == AdjustedTarget(h)
<1>1. avg \in Nat /\ avg \in 0..Easiest
  BY AverageInRange, EasiestFits
<1>2. num \in Nat /\ den \in Nat /\ den > 0 /\ den <= 3 * num /\ num <= 3 * den
  BY TimespanFacts
<1>3. P \in Nat /\ P > 3 /\ P - 3 \in Nat /\ P - 1 \in Nat
  BY DifficultyAssumption
<1>4. adj = IF avg * a > TopTarget THEN TopTarget ELSE (avg * a) \div d
  BY DEF AdjustedTarget, MulDivTarget
<1> HIDE DEF avg, num, den
<1>5. /\ a \in Nat /\ d \in Nat /\ d > 0 /\ a <= 2 * P
      /\ a * (P - 3) <= 3 * P * d
      /\ (P - 1) * d <= 3 * P * a
  BY <1>2, FractionFacts
<1> HIDE DEF a, d, adj
<1>6. avg * a \in Nat /\ ~ (avg * a > TopTarget)
  <2>1. avg * a <= TopTarget /\ TopTarget \in Nat
    BY <1>1, <1>5, EasiestFits
  <2>2. avg * a \in Nat
    BY <1>1, <1>5, Grows
  <2> QED
    BY <2>1, <2>2
<1>7. adj \in Nat /\ adj * d <= avg * a /\ avg * a < (adj + 1) * d
  <2>1. adj = (avg * a) \div d
    BY <1>4, <1>6
  <2> DEFINE x == avg * a
  <2> HIDE DEF x
  <2>2. x \div d \in Nat /\ (x \div d) * d <= x /\ x < (x \div d + 1) * d
    BY <1>5, <1>6, Quotient DEF x
  <2> QED
    BY <2>1, <2>2 DEF x
<1> HIDE DEF P
<1>8. adj * (P - 3) <= 3 * P * avg
  <2>1. (adj * d) * (P - 3) <= (avg * a) * (P - 3)
    BY <1>3, <1>5, <1>6, <1>7, Grows
  <2>2. avg * (a * (P - 3)) <= avg * (3 * P * d)
    <3>1. a * (P - 3) \in Nat /\ 3 * P * d \in Nat
      BY <1>3, <1>5
    <3> QED
      BY <1>1, <1>5, <3>1, Grows
  <2>3. /\ (adj * d) * (P - 3) = (adj * (P - 3)) * d
        /\ (avg * a) * (P - 3) = avg * (a * (P - 3))
        /\ avg * (3 * P * d) = (3 * P * avg) * d
    BY <1>1, <1>3, <1>5, <1>7
  <2>4. adj * (P - 3) \in Nat /\ 3 * P * avg \in Nat
    BY <1>1, <1>3, <1>7
  <2> DEFINE u == adj * (P - 3)
             v == 3 * P * avg
             m == avg * (a * (P - 3))
  <2>5. u * d <= m /\ m <= v * d
    BY <2>1, <2>2, <2>3
  <2>6. m \in Nat
    BY <1>1, <1>3, <1>5
  <2> HIDE DEF u, v, m
  <2>7. u * d \in Nat /\ v * d \in Nat /\ u \in Nat /\ v \in Nat
    BY <1>5, <2>4 DEF u, v
  <2>8. u * d <= v * d
    BY <2>5, <2>6, <2>7
  <2>9. u <= v
    BY <1>5, <2>7, <2>8, Cancel
  <2> QED
    BY <2>9 DEF u, v
<1>9. 3 * P * (adj + 1) >= (P - 1) * avg
  <2>1. avg * ((P - 1) * d) <= avg * (3 * P * a)
    <3>1. (P - 1) * d \in Nat /\ 3 * P * a \in Nat
      BY <1>3, <1>5
    <3> QED
      BY <1>1, <1>5, <3>1, Grows
  <2>2. (3 * P) * (avg * a) <= (3 * P) * ((adj + 1) * d)
    <3>1. (adj + 1) * d \in Nat /\ 3 * P \in Nat
      BY <1>3, <1>5, <1>7
    <3>2. avg * a <= (adj + 1) * d
      BY <1>6, <1>7, <3>1
    <3> QED
      BY <1>6, <3>1, <3>2, Grows
  <2>3. /\ avg * ((P - 1) * d) = ((P - 1) * avg) * d
        /\ avg * (3 * P * a) = (3 * P) * (avg * a)
        /\ (3 * P) * ((adj + 1) * d) = (3 * P * (adj + 1)) * d
    BY <1>1, <1>3, <1>5, <1>7
  <2> DEFINE u == (P - 1) * avg
             v == 3 * P * (adj + 1)
             m == (3 * P) * (avg * a)
  <2>4. u * d <= m /\ m <= v * d
    BY <2>1, <2>2, <2>3
  <2>5. u \in Nat /\ v \in Nat /\ m \in Nat
    BY <1>1, <1>3, <1>5, <1>6, <1>7
  <2> HIDE DEF u, v, m
  <2>6. u * d \in Nat /\ v * d \in Nat
    BY <1>5, <2>5
  <2>7. u * d <= v * d
    BY <2>4, <2>5, <2>6
  <2>8. u <= v
    BY <1>5, <2>5, <2>7, Cancel
  <2> QED
    BY <2>5, <2>8 DEF u, v
<1> DEFINE y == IF adj > Easiest \/ adj = 0 THEN Easiest ELSE adj
<1>10. NextDifficulty(h) = TargetToBits(y)
  BY DEF NextDifficulty, Easiest, adj
<1>11. y \in 1..Easiest /\ y \in Nat /\ y >= 1 /\ y <= TopTarget
  BY <1>7, EasiestFits
<1> HIDE DEF y
<1>12. TargetToBits(y) \in Bits /\ TargetFromBits(TargetToBits(y)) \in 1..y
  BY <1>11, BitsRoundDown DEF Bits
<1>13. TargetFromBits(NextDifficulty(h)) \in 1..Easiest
  BY <1>10, <1>11, <1>12, EasiestFits
<1> QED
  BY <1>8, <1>9, <1>10, <1>12, <1>13 DEF RetargetStepBounded, Easiest, P, adj, avg

----------------------------------------------------------------------------
(* The chain and its lanes                                                 *)

\* The blocks of a chain: every target but that of genesis is in range.
GoodChain(b) ==
  /\ b \in Seq([lane : Lanes, time : Nat, bits : Bits])
  /\ \A i \in DOMAIN b : i # 1 => TargetFromBits(b[i].bits) \in 1..Easiest

\* A finite set of positions has a k-th one.
LEMMA NthExists ==
  ASSUME NEW S, S \subseteq Nat, IsFiniteSet(S)
  PROVE  \A k \in 1..Cardinality(S) : \E i \in S : Cardinality({j \in S : j < i}) = k - 1
<1> DEFINE Below(i) == {j \in S : j < i}
           C == Cardinality(S)
           T == {k \in Nat : k < C => \E i \in S : Cardinality(Below(i)) = k}
<1>1. C \in Nat
  BY FS_CardinalityType
<1>2. \A R \in SUBSET S : IsFiniteSet(R) /\ Cardinality(R) \in Nat
  BY FS_Subset, FS_CardinalityType
<1>3. 0 \in T
  <2>1. SUFFICES ASSUME 0 < C PROVE \E i \in S : Cardinality(Below(i)) = 0
    OBVIOUS
  <2>2. S # {}
    BY <2>1, FS_EmptySet
  <2>3. PICK m \in S : \A n \in S : m <= n
    BY <2>2, LeastNat
  <2>4. Below(m) = {}
    <3>1. ASSUME NEW j \in S, j < m PROVE FALSE
      <4>1. j \in Nat /\ m \in Nat /\ m <= j
        BY <2>3
      <4> QED
        BY <3>1, <4>1
    <3> QED
      BY <3>1
  <2> QED
    BY <2>4, FS_EmptySet
<1>4. ASSUME NEW k \in Nat, k \in T PROVE k + 1 \in T
  <2>1. SUFFICES ASSUME k + 1 < C PROVE \E i \in S : Cardinality(Below(i)) = k + 1
    OBVIOUS
  <2>2. PICK i \in S : Cardinality(Below(i)) = k
    BY <1>1, <1>4, <2>1
  <2> DEFINE R == Below(i) \cup {i}
             A == S \ R
  <2>3. IsFiniteSet(R) /\ R \subseteq S /\ Cardinality(R) = k + 1
    <3>1. i \notin Below(i) /\ Below(i) \in SUBSET S
      OBVIOUS
    <3>2. IsFiniteSet(Below(i))
      BY <1>2, <3>1
    <3> HIDE DEF Below
    <3>3. Cardinality(Below(i) \cup {i}) = Cardinality(Below(i)) + 1 /\ IsFiniteSet(Below(i) \cup {i})
      BY <3>1, <3>2, FS_AddElement
    <3> QED
      BY <2>2, <3>1, <3>3
  <2>4. A # {} /\ A \subseteq Nat
    <3>1. ASSUME A = {} PROVE FALSE
      <4>1. S = R
        BY <2>3, <3>1
      <4> QED
        BY <1>1, <2>1, <2>3, <4>1
    <3> QED
      BY <3>1
  <2>5. PICK m \in A : \A n \in A : m <= n
    <3> HIDE DEF A
    <3> QED
      BY <2>4, LeastNat
  <2>6. Below(m) = R
    <3>1. i \in Nat /\ m \in Nat /\ m \in S /\ ~ (m < i) /\ m # i
      BY <2>5
    <3>2. ASSUME NEW j \in S PROVE j < m <=> j \in R
      <4>1. j \in Nat
        OBVIOUS
      <4>2. CASE j \in R
        BY <3>1, <4>1, <4>2
      <4>3. CASE j \notin R
        <5>1. m <= j
          BY <2>5, <4>3
        <5> QED
          BY <3>1, <4>1, <4>3, <5>1
      <4> QED
        BY <4>2, <4>3
    <3> QED
      BY <2>3, <3>2
  <2>7. m \in S
    BY <2>5
  <2> HIDE DEF R, A
  <2> QED
    BY <2>3, <2>6, <2>7
<1>5. Nat \subseteq T
  <2> HIDE DEF T
  <2> QED
    BY <1>3, <1>4, SetInduction
<1>6. TAKE k \in 1..C
<1>7. k - 1 \in Nat /\ k - 1 < C
  BY <1>1, <1>6
<1> QED
  BY <1>5, <1>7

\* The blocks of a lane are as good as the chain: only the first can be genesis.
LEMMA LaneIsGood ==
  ASSUME NEW b, GoodChain(b), NEW lane
  PROVE  GoodHistory(OfLane(b, lane))
<1> DEFINE mine == {i \in DOMAIN b : b[i].lane = lane}
           at(k) == CHOOSE i \in mine : Cardinality({j \in mine : j < i}) = k - 1
           val(k) == <<b[at(k)].time, b[at(k)].bits>>
           n == Cardinality(mine)
<1>1. b \in Seq([lane : Lanes, time : Nat, bits : Bits]) /\ DOMAIN b = 1..Len(b) /\ Len(b) \in Nat
  BY DEF GoodChain
<1>2. mine \subseteq Nat /\ IsFiniteSet(mine) /\ n \in Nat
  <2>1. IsFiniteSet(1..Len(b))
    BY <1>1, FS_Interval
  <2> QED
    BY <1>1, <2>1, FS_Subset, FS_CardinalityType
<1>3. ASSUME NEW k \in 1..n PROVE at(k) \in mine /\ Cardinality({j \in mine : j < at(k)}) = k - 1
  <2>1. \E i \in mine : Cardinality({j \in mine : j < i}) = k - 1
    <3> HIDE DEF mine
    <3> QED
      BY <1>2, NthExists
  <2> HIDE DEF mine
  <2> QED
    BY <2>1
<1> HIDE DEF at
<1>4. ASSUME NEW k \in 1..n
      PROVE  /\ val(k) \in Nat \X Bits
             /\ k # 1 => TargetFromBits(val(k)[2]) \in 1..Easiest
  <2>1. at(k) \in DOMAIN b
    BY <1>3
  <2>2. b[at(k)] \in [lane : Lanes, time : Nat, bits : Bits]
    <3> DEFINE R == [lane : Lanes, time : Nat, bits : Bits]
    <3>1. b \in Seq(R)
      BY <1>1
    <3>2. PICK i : i = at(k)
      OBVIOUS
    <3>3. i \in 1..Len(b)
      BY <1>1, <2>1, <3>2
    <3> HIDE DEF R
    <3>4. b[i] \in R
      BY <3>1, <3>3
    <3> QED
      BY <3>2, <3>4 DEF R
  <2>3. ASSUME k # 1 PROVE at(k) # 1
    <3>1. SUFFICES ASSUME at(k) = 1 PROVE FALSE
      OBVIOUS
    <3>2. {j \in mine : j < at(k)} = {}
      BY <1>1, <3>1
    <3>3. k - 1 = 0
      BY <1>3, <3>2, FS_EmptySet
    <3> QED
      BY <1>2, <2>3, <3>3
  <2>4. ASSUME k # 1 PROVE TargetFromBits(b[at(k)].bits) \in 1..Easiest
    BY <2>1, <2>3, <2>4 DEF GoodChain
  <2> QED
    BY <2>2, <2>4
<1>5. OfLane(b, lane) = [k \in 1..n |-> val(k)]
  BY DEF OfLane, at
<1>6. \A k \in 1..n : val(k) \in Nat \X Bits
  BY <1>4
<1> DEFINE h == [k \in 1..n |-> val(k)]
           E == Nat \X Bits
<1>7. h \in Seq(E) /\ DOMAIN h = 1..n
  <2> HIDE DEF val, n, E
  <2> QED
    BY <1>2, <1>6 DEF E
<1>8. \A k \in 1..n : h[k] = val(k)
  OBVIOUS
<1> HIDE DEF val, h, n
<1>9. \A i \in DOMAIN h : i # 1 => TargetFromBits(h[i][2]) \in 1..Easiest
  BY <1>4, <1>7, <1>8
<1> QED
  BY <1>5, <1>7, <1>9 DEF GoodHistory, h, n

\* What an engine keeps of them is good too.
LEMMA KeptIsGood ==
  ASSUME NEW s, GoodHistory(s)
  PROVE  GoodHistory(RecordAll(<<>>, s))
<1> DEFINE n == Len(s)
           W == WINDOW + 1
           E == Nat \X Bits
           m == IF n <= W THEN n ELSE W
           from(i) == IF n <= W THEN i ELSE (n - W) + i
           h == [i \in 1..m |-> s[from(i)]]
<1>1. s \in Seq(E) /\ n \in Nat /\ DOMAIN s = 1..n /\ W \in Nat /\ W > 0 /\ m \in Nat
  BY DifficultyAssumption DEF GoodHistory
<1>2. RecordAll(<<>>, s) = h
  <2>1. RecordAll(<<>>, s) = Kept(s, n)
    BY <1>1, RecordAllKeeps
  <2> QED
    BY <2>1 DEF Kept
<1>3. \A i \in 1..m : from(i) \in DOMAIN s /\ (i # 1 => from(i) # 1)
  <2> HIDE DEF W, E
  <2> QED
    BY <1>1
<1> HIDE DEF E, n, W, m, from
<1>4. \A i \in 1..m : s[from(i)] \in E
  BY <1>1, <1>3
<1>5. h \in Seq(E) /\ DOMAIN h = 1..m
  BY <1>1, <1>4
<1>6. \A i \in 1..m : h[i] = s[from(i)]
  OBVIOUS
<1> HIDE DEF h
<1>7. \A i \in DOMAIN h : i # 1 => TargetFromBits(h[i][2]) \in 1..Easiest
  <2>1. TAKE i \in DOMAIN h
  <2>2. i \in 1..m /\ h[i] = s[from(i)] /\ from(i) \in DOMAIN s /\ (i # 1 => from(i) # 1)
    BY <1>3, <1>5, <1>6
  <2> QED
    BY <2>2 DEF GoodHistory
<1> QED
  BY <1>2, <1>5, <1>7 DEF GoodHistory, E

\* The bits that validation expects of a new block are in range.
LEMMA ExpectedInRange ==
  ASSUME NEW b, GoodChain(b), NEW lane
  PROVE  LET bits == ExpectedDifficulty(b, lane)
         IN  bits \in Bits /\ TargetFromBits(bits) \in 1..Easiest
<1> DEFINE m == OfLane(b, lane)
           first == IF Len(m) > WALK THEN Len(m) - WALK + 1 ELSE 1
           h == RecordAll(<<>>, m)
           bits == ExpectedDifficulty(b, lane)
<1>1. GoodHistory(m)
  BY LaneIsGood
<1>2. bits = NextDifficulty(h)
  <2>1. bits = NextDifficulty(RecordAll(<<>>, SubSeq(m, first, Len(m))))
    BY DEF ExpectedDifficulty
  <2> HIDE DEF m
  <2>2. m \in Seq(Nat \X Bits)
    BY <1>1 DEF GoodHistory
  <2>3. RecordAll(<<>>, SubSeq(m, first, Len(m))) = h
    BY <2>2, SameWindow
  <2> QED
    BY <2>1, <2>3
<1> HIDE DEF m, bits
<1>3. GoodHistory(h)
  BY <1>1, KeptIsGood
<1> HIDE DEF h
<1>4. ASSUME Len(h) > 1 PROVE bits \in Bits /\ TargetFromBits(bits) \in 1..Easiest
  <2>1. NextDifficulty(h) \in Bits /\ RetargetStepBounded(h)
    BY <1>3, <1>4, NextInRange
  <2>2. TargetFromBits(NextDifficulty(h)) \in 1..TargetFromBits(GENESIS_BITS)
    BY <2>1 DEF RetargetStepBounded
  <2> QED
    BY <1>2, <2>1, <2>2, Zenon DEF Easiest
<1>5. ASSUME ~ (Len(h) > 1) PROVE bits \in Bits /\ TargetFromBits(bits) \in 1..Easiest
  <2>1. Len(h) <= 1
    BY <1>3, <1>5 DEF GoodHistory
  <2>2. bits = GENESIS_BITS
    BY <1>2, <2>1 DEF NextDifficulty
  <2>3. GENESIS_BITS \in Bits
    BY RetargetAssumption DEF Bits
  <2>4. Easiest \in Nat /\ Easiest >= 1
    BY EasiestFits
  <2>5. TargetFromBits(GENESIS_BITS) \in 1..Easiest
    BY <2>4 DEF Easiest
  <2> QED
    BY <2>2, <2>3, <2>5, Zenon
<1> QED
  BY <1>4, <1>5, Zenon DEF bits

\* Every block that extends the chain keeps it good, whatever lane it is of,
\* whatever its timestamp and wherever it leaves the old chain.
LEMMA ChainStaysGood ==
  ASSUME GoodChain(chain), [DifficultyNext]_diffVars
  PROVE  GoodChain(chain')
<1> DEFINE R == [lane : Lanes, time : Nat, bits : Bits]
<1>1. ASSUME NEW keep \in DOMAIN chain, NEW lane \in Lanes, NEW delay \in Delays,
             TipChanges(keep, lane, delay)
      PROVE  GoodChain(chain')
  <2> DEFINE kept == SubSeq(chain, 1, keep)
             x == [lane |-> lane, time |-> kept[keep].time + delay,
                   bits |-> ExpectedDifficulty(kept, lane)]
  <2>1. chain' = Append(kept, x) /\ kept[keep].time + delay >= 0
    BY <1>1 DEF TipChanges
  <2>2. chain \in Seq(R) /\ keep \in 1..Len(chain)
    BY DEF GoodChain
  <2>3. kept \in Seq(R) /\ Len(kept) = keep /\ keep \in Nat /\ keep >= 1
        /\ \A i \in 1..keep : kept[i] = chain[i]
    <3> HIDE DEF R
    <3> QED
      BY <2>2
  <2>4. GoodChain(kept)
    <3>1. \A i \in DOMAIN kept : i # 1 => TargetFromBits(kept[i].bits) \in 1..Easiest
      <4>1. TAKE i \in DOMAIN kept
      <4>2. i \in 1..keep
        BY <2>3
      <4>3. i \in DOMAIN chain /\ kept[i] = chain[i]
        BY <2>2, <2>3, <4>2
      <4> QED
        BY <4>3 DEF GoodChain
    <3> HIDE DEF kept
    <3> QED
      BY <2>3, <3>1 DEF GoodChain
  <2>5. kept[keep] \in R
    <3>1. keep \in 1..Len(kept)
      BY <2>3
    <3> HIDE DEF kept, R
    <3> QED
      BY <2>3, <3>1
  <2>6. x.bits \in Bits /\ TargetFromBits(x.bits) \in 1..Easiest
    <3> HIDE DEF kept
    <3> QED
      BY <2>4, ExpectedInRange
  <2>7. x.time \in Nat
    <3>1. delay \in Int /\ kept[keep].time \in Nat
      BY <2>5, DifficultyAssumption
    <3>2. x.time = kept[keep].time + delay
      OBVIOUS
    <3> HIDE DEF x, kept
    <3>3. PICK t : t = kept[keep].time
      OBVIOUS
    <3>4. t \in Nat /\ delay \in Int
      BY <3>1, <3>3
    <3>5. t + delay >= 0
      BY <2>1, <3>3
    <3>6. t + delay \in Nat
      BY <3>4, <3>5
    <3> QED
      BY <3>2, <3>3, <3>6, Zenon
  <2>8. x \in R
    BY <2>6, <2>7
  <2> HIDE DEF kept, x, R
  <2>9. PICK d : d = Append(kept, x)
    OBVIOUS
  <2>10. /\ d \in Seq(R) /\ DOMAIN d = 1..(keep + 1) /\ d[keep + 1] = x
         /\ \A i \in 1..keep : d[i] = kept[i]
    BY <2>3, <2>8, <2>9
  <2>11. \A i \in DOMAIN d : i # 1 => TargetFromBits(d[i].bits) \in 1..Easiest
    <3>1. TAKE i \in DOMAIN d
    <3>2. CASE i \in 1..keep
      <4>1. i \in DOMAIN kept /\ d[i] = kept[i]
        BY <2>3, <2>10, <3>2
      <4> QED
        BY <2>4, <4>1 DEF GoodChain
    <3>3. CASE i = keep + 1
      BY <2>6, <2>10, <3>3
    <3> QED
      BY <2>3, <2>10, <3>2, <3>3
  <2> QED
    BY <2>1, <2>9, <2>10, <2>11 DEF GoodChain, R
<1>2. CASE UNCHANGED chain
  BY <1>2
<1> QED
  BY <1>1, <1>2 DEF DifficultyNext, RestartNode, diffVars

\* The inductive invariant of the targets.
THEOREM ChainIsGood == DifficultySpec => []GoodChain(chain)
<1>1. DifficultyInit => GoodChain(chain)
  <2>1. SUFFICES ASSUME DifficultyInit PROVE GoodChain(chain)
    OBVIOUS
  <2>2. Genesis0 \in [lane : Lanes, time : Nat, bits : Bits]
    BY DifficultyAssumption, RetargetAssumption DEF Genesis0, Bits
  <2>3. chain = <<Genesis0>>
    BY <2>1 DEF DifficultyInit
  <2> QED
    BY <2>2, <2>3 DEF GoodChain
<1>2. GoodChain(chain) /\ [DifficultyNext]_diffVars => GoodChain(chain)'
  BY ChainStaysGood
<1> QED
  BY <1>1, <1>2, PTL DEF DifficultySpec

\* The target moves from the average by no more than the clamp lets it, in
\* every lane, after any reorganizations and restarts and with any timestamps:
\* nothing overflows, and the target is never zero nor easier than at the start.
THEOREM RetargetStaysBounded == DifficultySpec => []RetargetBounded
<1>1. DifficultyIInv /\ GoodChain(chain) => RetargetBounded
  <2>1. SUFFICES ASSUME DifficultyIInv, GoodChain(chain), NEW lane \in Lanes,
                        Len(manager[lane]) > 1
                 PROVE  RetargetStepBounded(manager[lane])
    BY DEF RetargetBounded, RetargetStepBounded
  <2>2. manager[lane] = RecordAll(<<>>, OfLane(chain, lane))
    BY <2>1 DEF DifficultyIInv, Rebuilt
  <2>3. GoodHistory(OfLane(chain, lane))
    BY <2>1, LaneIsGood
  <2>4. GoodHistory(manager[lane])
    BY <2>2, <2>3, KeptIsGood
  <2> QED
    BY <2>1, <2>4, NextInRange
<1> QED
  BY <1>1, ChainIsGood, DifficultyInvariant, PTL

=============================================================================
