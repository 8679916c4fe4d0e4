---------------------------- MODULE WalletProofs ----------------------------
(***************************************************************************)
(* Theorems about what pays: the node's payments and its mining pool, and  *)
(* the seed of the desktop wallet.                                         *)
(***************************************************************************)
EXTENDS Payments, DesktopWallet, LedgerProofs

----------------------------------------------------------------------------
(* The seed of the desktop wallet                                          *)

\* The seed stays where it was read, or a step of the setup screen replaces it.
KeepsSeed ==
  /\ mnemonic # NoSeed /\ mnemonic \in {txt, enc}
  /\ mnemonic \notin {txt', enc'}
  => /\ address = NoSeed
     /\ txt' \notin {txt, NoSeed}

\* No step but those of the dialogs and of the setup screen writes a seed file.
LEMMA OthersKeepFiles ==
  ASSUME WalletNext
  PROVE  \/ UNCHANGED <<txt, enc>>
         \/ \E to \in {"enc", "txt"} : Encrypt(to)
         \/ Encrypted
         \/ \E s \in Seeds : Create(s)
         \/ \E s \in Seeds \cup {BadPhrase} : Restore(s)
<1>1. CASE ProcessNext
  BY <1>1 DEF ProcessNext, Launch, Exit, Crash, PollAnswers, Ends, wFiles
<1>2. CASE SeedNext
  BY <1>2 DEF SeedNext, DeriverWrites, DeriverGivesUp, Frame, Unlock, LockNow, wFiles
<1>3. CASE NodeNext
  BY <1>3 DEF NodeNext, UserNode, NodeDies, StartNode, PollFails, Offer, Download, Dismiss,
              Install, Exit, Ends, wFiles
<1> QED
  BY <1>1, <1>2, <1>3 DEF WalletNext

\* The seed that the wallet has loaded leaves the disk only when the setup
\* screen writes another one (save_mnemonic and the encryption dialogs of
\* crates/zentra-qt/src/main.rs), for any number of seeds, crashes and retries.
THEOREM SeedIsKept == WalletSpec => LoadedSeedKept
<1>1. ASSUME [WalletNext]_walletVars PROVE KeepsSeed \/ UNCHANGED walletVars
  <2>1. CASE UNCHANGED <<txt, enc>>
    BY <2>1 DEF KeepsSeed
  <2>2. ASSUME NEW to \in {"enc", "txt"}, Encrypt(to) PROVE KeepsSeed
    BY <2>2 DEF KeepsSeed, Encrypt, WriteFirst
  <2>3. CASE Encrypted
    BY <2>3 DEF KeepsSeed, Encrypted
  <2>4. ASSUME NEW s \in Seeds, Create(s) PROVE KeepsSeed
    BY <2>4, WalletAssumption DEF KeepsSeed, Create, SetupShown
  <2>5. ASSUME NEW s \in Seeds \cup {BadPhrase}, Restore(s) PROVE KeepsSeed
    BY <2>5, WalletAssumption DEF KeepsSeed, Restore, SetupShown
  <2>6. CASE WalletNext
    BY <2>6, <2>1, <2>2, <2>3, <2>4, <2>5, OthersKeepFiles
  <2> QED
    BY <1>1, <2>6
<1> QED
  BY <1>1, PTL DEF WalletSpec, LoadedSeedKept, KeepsSeed

----------------------------------------------------------------------------
(* Sequences of outputs                                                    *)

\* SetToSeq lists the elements of a finite set, each once.
LEMMA Listed ==
  ASSUME NEW S, IsFiniteSet(S)
  PROVE  LET s == SetToSeq(S)
             n == Cardinality(S)
         IN  /\ n \in Nat /\ s \in Seq(S) /\ Len(s) = n /\ DOMAIN s = 1..n
             /\ \A i, j \in 1..n : s[i] = s[j] => i = j
             /\ {s[i] : i \in 1..n} = S
<1> DEFINE n == Cardinality(S)
           s == SetToSeq(S)
<1>1. n \in Nat /\ ExistsBijection(1..n, S)
  BY FS_CardinalityType
<1>2. PICK b : b \in Bijection(1..n, S)
  BY <1>1, Zenon DEF ExistsBijection
<1>3. b \in [1..n -> S] /\ IsInjective(b)
  BY <1>2 DEF Bijection, Injection, IsInjective
<1>4. s \in [1..n -> S] /\ IsInjective(s)
  BY <1>3 DEF SetToSeq
<1> HIDE DEF s
<1>5. \A i, j \in 1..n : s[i] = s[j] => i = j
  BY <1>4 DEF IsInjective
<1> DEFINE R == {s[i] : i \in 1..n}
<1>6. R \subseteq S /\ IsFiniteSet(R)
  BY <1>4, FS_Subset
<1>7. s \in Bijection(1..n, R)
  <2>1. s \in [1..n -> R]
    BY <1>4
  <2>2. s \in Injection(1..n, R)
    BY <2>1, <1>4 DEF Injection, IsInjective
  <2>3. s \in Surjection(1..n, R)
    BY <2>1 DEF Surjection
  <2> QED
    BY <2>2, <2>3 DEF Bijection
<1>8. Cardinality(R) = n
  <2>1. ExistsBijection(1..n, R)
    BY <1>7, Zenon DEF ExistsBijection
  <2> HIDE DEF R, n
  <2> QED
    BY <1>1, <2>1, FS_CountingElements
<1>9. R = S
  <2> HIDE DEF R
  <2> QED
    BY <1>6, <1>8, FS_Subset DEF n
<1>10. s \in Seq(S) /\ Len(s) = n /\ DOMAIN s = 1..n
  BY <1>1, <1>4
<1> QED
  BY <1>1, <1>5, <1>9, <1>10 DEF s

\* What the outputs of a list are worth together.
OutSum(s) == SumFunctionOnSet([i \in DOMAIN s |-> s[i].amount], DOMAIN s)

\* A list of outputs is worth a natural.
LEMMA OutSumNat ==
  ASSUME NEW s \in Seq(OutputType)
  PROVE  OutSum(s) \in Nat
<1> DEFINE f == [i \in DOMAIN s |-> s[i].amount]
<1>1. IsFiniteSet(DOMAIN s) /\ \A i \in DOMAIN s : f[i] \in Nat
  <2>1. Len(s) \in Nat /\ DOMAIN s = 1..Len(s) /\ \A i \in 1..Len(s) : s[i] \in OutputType
    OBVIOUS
  <2>2. IsFiniteSet(1..Len(s))
    BY <2>1, FS_Interval
  <2> QED
    BY <2>1, <2>2 DEF OutputType
<1> HIDE DEF f
<1> QED
  BY <1>1, SumNat DEF OutSum, f

\* Two lists, one after the other, are worth what both are.
LEMMA OutSumConcat ==
  ASSUME NEW s \in Seq(OutputType), NEW t \in Seq(OutputType)
  PROVE  /\ s \o t \in Seq(OutputType)
         /\ OutSum(s \o t) = OutSum(s) + OutSum(t)
         /\ SumFunctionOnSet([i \in 1..Len(s) |-> (s \o t)[i].amount], 1..Len(s)) = OutSum(s)
<1> DEFINE c == s \o t
           n == Len(s)
           m == Len(t)
           f == [i \in DOMAIN c |-> c[i].amount]
           g == [i \in DOMAIN s |-> s[i].amount]
           h == [i \in DOMAIN t |-> t[i].amount]
           b == [i \in 1..m |-> i + n]
           I == {b[x] : x \in 1..m}
           k == [i \in 1..n |-> c[i].amount]
<1>1. /\ n \in Nat /\ m \in Nat /\ DOMAIN s = 1..n /\ DOMAIN t = 1..m /\ DOMAIN c = 1..(n + m)
      /\ c \in Seq(OutputType)
      /\ \A i \in 1..n : c[i] = s[i] /\ g[i] \in Nat
      /\ \A i \in 1..m : c[i + n] = t[i] /\ h[i] \in Nat
  <2>1. /\ n \in Nat /\ m \in Nat /\ DOMAIN s = 1..n /\ DOMAIN t = 1..m
        /\ \A i \in 1..n : s[i] \in OutputType
        /\ \A i \in 1..m : t[i] \in OutputType
    OBVIOUS
  <2>2. c \in Seq(OutputType) /\ Len(c) = n + m /\ DOMAIN c = 1..(n + m)
    OBVIOUS
  <2>3. ASSUME NEW i \in 1..n PROVE c[i] = s[i] /\ g[i] \in Nat
    BY <2>1 DEF OutputType
  <2>4. ASSUME NEW i \in 1..m PROVE c[i + n] = t[i] /\ h[i] \in Nat
    BY <2>1 DEF OutputType
  <2> QED
    BY <2>1, <2>2, <2>3, <2>4
<1>2. IsFiniteSet(1..(n + m)) /\ IsFiniteSet(1..n) /\ IsFiniteSet(1..m)
  BY <1>1, FS_Interval
<1>3. \A i \in 1..(n + m) : f[i] \in Nat
  BY <1>1 DEF OutputType
<1>4. 1..n \subseteq 1..(n + m) /\ I = (1..(n + m)) \ (1..n)
  <2>1. ASSUME NEW j \in (1..(n + m)) \ (1..n) PROVE j \in I
    <3>1. j - n \in 1..m /\ b[j - n] = j
      BY <1>1, <2>1
    <3> QED
      BY <3>1
  <2>2. I \subseteq (1..(n + m)) \ (1..n)
    BY <1>1
  <2> QED
    BY <1>1, <2>1, <2>2, SMTT(30)
<1>5. \A i \in 1..n : g[i] = f[i] /\ k[i] = f[i]
  BY <1>1
<1>6. \A x, y \in 1..m : b[x] = b[y] => x = y
  BY <1>1
<1>7. \A x \in 1..m : h[x] \in Nat /\ f[b[x]] = h[x]
  <2>1. TAKE x \in 1..m
  <2>2. b[x] = x + n /\ x + n \in DOMAIN c
    BY <1>1
  <2> QED
    BY <1>1, <2>2
<1>8. OutSum(s \o t) = SumFunctionOnSet(f, 1..(n + m))
  BY <1>1 DEF OutSum
<1>9. OutSum(s) = SumFunctionOnSet(g, 1..n) /\ OutSum(t) = SumFunctionOnSet(h, 1..m)
  BY <1>1 DEF OutSum
<1> HIDE DEF f, g, h, b, k, n, m
<1>10. SumFunctionOnSet(f, 1..(n + m))
         = SumFunctionOnSet(f, 1..n) + SumFunctionOnSet(f, (1..(n + m)) \ (1..n))
  BY <1>2, <1>3, <1>4, SumSplit
<1>11. \A i \in 1..n : f[i] \in Nat
  BY <1>3, <1>4
<1>12. /\ SumFunctionOnSet(g, 1..n) = SumFunctionOnSet(f, 1..n)
       /\ SumFunctionOnSet(k, 1..n) = SumFunctionOnSet(f, 1..n)
  BY <1>2, <1>5, <1>11, SumSame
<1>13. SumFunctionOnSet(f, I) = SumFunctionOnSet(h, 1..m)
  <2> DEFINE E == 1..m
  <2>1. /\ IsFiniteSet(E) /\ \A x, y \in E : b[x] = b[y] => x = y
        /\ \A x \in E : h[x] \in Nat /\ f[b[x]] = h[x]
    BY <1>2, <1>6, <1>7
  <2> HIDE DEF E
  <2>2. SumFunctionOnSet(f, {b[x] : x \in E}) = SumFunctionOnSet(h, E)
    BY <2>1, SumImage
  <2> QED
    BY <2>2 DEF E
<1>14. SumFunctionOnSet(f, (1..(n + m)) \ (1..n)) = SumFunctionOnSet(h, 1..m)
  BY <1>4, <1>13, Zenon
<1>15. OutSum(s \o t) = OutSum(s) + OutSum(t)
  BY <1>8, <1>9, <1>10, <1>12, <1>14
<1>16. SumFunctionOnSet(k, 1..n) = OutSum(s)
  BY <1>9, <1>12
<1> QED
  BY <1>1, <1>15, <1>16 DEF k, n

\* No output is worth nothing, and one its amount.
LEMMA OutSumShort ==
  /\ OutSum(<<>>) = 0
  /\ \A o \in OutputType : OutSum(<<o>>) = o.amount
<1>1. OutSum(<<>>) = 0
  <2> DEFINE f == [i \in DOMAIN <<>> |-> <<>>[i].amount]
  <2>1. DOMAIN <<>> = {}
    OBVIOUS
  <2>2. OutSum(<<>>) = SumFunctionOnSet(f, {})
    BY <2>1 DEF OutSum
  <2> HIDE DEF f
  <2> QED
    BY <2>2, SumEmpty
<1>2. ASSUME NEW o \in OutputType PROVE OutSum(<<o>>) = o.amount
  <2> DEFINE s == <<o>>
             f == [i \in DOMAIN s |-> s[i].amount]
  <2>1. DOMAIN s = {1} /\ f[1] = o.amount /\ o.amount \in Nat
    BY DEF OutputType
  <2>2. OutSum(s) = SumFunctionOnSet(f, {1})
    BY <2>1 DEF OutSum
  <2> HIDE DEF f
  <2>3. {1} = {} \cup {1} /\ IsFiniteSet({})
    BY FS_EmptySet
  <2>4. SumFunctionOnSet(f, {} \cup {1}) = f[1] + SumFunctionOnSet(f, {})
    BY <2>1, <2>3, SumAdd
  <2>5. SumFunctionOnSet(f, {1}) = f[1] + SumFunctionOnSet(f, {})
    BY <2>3, <2>4, Zenon
  <2>6. SumFunctionOnSet(f, {}) = 0
    BY SumEmpty
  <2> QED
    BY <2>1, <2>2, <2>5, <2>6
<1> QED
  BY <1>1, <1>2

\* The list of a set of outputs is worth what the set is.
LEMMA OutSumOfSet ==
  ASSUME NEW S, IsFiniteSet(S), S \subseteq OutputType
  PROVE  /\ SetToSeq(S) \in Seq(OutputType)
         /\ OutSum(SetToSeq(S)) = SumFunctionOnSet([o \in S |-> o.amount], S)
<1> DEFINE s == SetToSeq(S)
           n == Cardinality(S)
           f == [i \in DOMAIN s |-> s[i].amount]
           g == [o \in S |-> o.amount]
<1>1. /\ n \in Nat /\ s \in Seq(S) /\ DOMAIN s = 1..n
      /\ \A i, j \in 1..n : s[i] = s[j] => i = j
      /\ {s[i] : i \in 1..n} = S
  BY Listed
<1> HIDE DEF s, n
<1>2. s \in Seq(OutputType) /\ IsFiniteSet(1..n)
  BY <1>1, FS_Interval
<1>3. \A i \in 1..n : f[i] \in Nat /\ g[s[i]] = f[i]
  BY <1>1 DEF OutputType
<1>4. OutSum(s) = SumFunctionOnSet(f, 1..n)
  BY <1>1 DEF OutSum
<1> HIDE DEF f, g
<1>5. SumFunctionOnSet(g, {s[i] : i \in 1..n}) = SumFunctionOnSet(f, 1..n)
  <2> DEFINE E == 1..n
  <2>1. /\ IsFiniteSet(E) /\ \A i, j \in E : s[i] = s[j] => i = j
        /\ \A i \in E : f[i] \in Nat /\ g[s[i]] = f[i]
    BY <1>1, <1>2, <1>3
  <2> HIDE DEF E
  <2>2. SumFunctionOnSet(g, {s[i] : i \in E}) = SumFunctionOnSet(f, E)
    BY <2>1, SumImage
  <2> QED
    BY <2>2 DEF E
<1>6. SumFunctionOnSet(g, S) = OutSum(s)
  BY <1>1, <1>4, <1>5, Zenon
<1> QED
  BY <1>2, <1>6 DEF s, g

----------------------------------------------------------------------------
(* Payments: what the state is made of                                     *)

\* The payments that may still enter a block: in the mempool, or about to.
Submitting == {p \in Payer : job[p].at = "submit"}
Live == relayed \cup {job[p].pay : p \in Submitting}

\* An id that no transaction will be given from now on.
Past(id) ==
  \A n \in Nat : (n >= made => id # <<"p", n>>) /\ (n > tipHeight => id # <<"c", n>>)

\* Transaction ids and addresses are of their types, and the ids of the first
\* ledger are not given again.
NamesFit ==
  /\ InitialLedger \in LedgerType
  /\ \A n \in Nat : <<"p", n>> \in TxIds /\ <<"c", n>> \in TxIds
  /\ {PoolWallet, FaucetWallet, DEFAULT_OPERATOR_ADDRESS, NoOperator} \subseteq Owners
  /\ Senders \cup Payees \cup PoolMembers \subseteq Owners
  /\ \A s \in PoolShares : s.member \in Owners
  /\ \A op \in DOMAIN InitialLedger.utxo, n \in Nat :
       op[1] # <<"p", n>> /\ (n > InitialHeight => op[1] # <<"c", n>>)

Kinds == {"send", "faucet", "payout"}

PayType ==
  {q \in [tx : TxType, fee : Nat, kind : Kinds, members : Nat] :
     q.members <= Len(q.tx.outputs) /\ ~q.tx.coinbase}

IsDist(dist) ==
  /\ IsFiniteSet(dist)
  /\ \A d \in dist : /\ d = [to |-> d.to, amount |-> d.amount]
                     /\ d.to \in Owners /\ d.amount \in Nat

IsJob(j) ==
  /\ j = [at |-> j.at, pay |-> j.pay, to |-> j.to, dist |-> j.dist]
  /\ j.at \in {"idle", "submit", "book"}
  /\ j.at # "idle" => j.pay \in PayType /\ IsDist(j.dist)

MinerType == [shares : Nat, paid : Nat, online : BOOLEAN]

ChainOk == ledger \in LedgerType /\ tipHeight \in Nat /\ made \in Nat

JobsOk ==
  /\ IsFiniteSet(relayed) /\ relayed \subseteq PayType
  /\ job = [p \in Payer |-> job[p]] /\ \A p \in Payer : IsJob(job[p])

MembersOk ==
  /\ IsFiniteSet(DOMAIN miners) /\ DOMAIN miners \subseteq Owners
  /\ \A m \in DOMAIN miners : miners[m] \in MinerType

MinersOk ==
  /\ MembersOk
  /\ operator \in {DEFAULT_OPERATOR_ADDRESS, NoOperator}
  /\ checking = [v \in Verifiers |-> checking[v]]
  /\ \A v \in Verifiers : checking[v].member \in Owners

\* An outpoint that no later transaction creates, nor one that is waiting.
KnownOp(op) == Past(op[1]) /\ \A q \in Live : op[1] # q.tx.id

\* Ids are given once, and a payment names older outputs only.
NamesOk ==
  /\ \A q \in Live : Past(q.tx.id)
  /\ \A q, r \in relayed : q.tx.id = r.tx.id => q = r
  /\ \A q \in relayed, p \in Submitting : q.tx.id # job[p].pay.tx.id
  /\ \A p, q \in Submitting : job[p].pay.tx.id = job[q].pay.tx.id => p = q
  /\ \A op \in DOMAIN ledger.utxo : KnownOp(op)
  /\ \A q \in Live : \A op \in Spends(q.tx) : KnownOp(op)

\* A payment whose coins are still there passes.
Passes(q, led, h) ==
  /\ q.tx.signed
  /\ \A i \in DOMAIN q.tx.inputs :
       q.tx.inputs[i].op \in DOMAIN led.utxo =>
         /\ led.utxo[q.tx.inputs[i].op].owner = q.tx.inputs[i].key
         /\ Mature(led.utxo[q.tx.inputs[i].op], h)
  /\ Spends(q.tx) \subseteq DOMAIN led.utxo /\ TotalOutput(q.tx) + q.fee <= MAX_U64
     => TotalOutput(q.tx) + q.fee <= InputSum(led, q.tx)

PassOk == \A q \in Live : Passes(q, ledger, tipHeight)

\* What the mempool holds for members.
Waiting(pays) == SumFunctionOnSet([q \in pays |-> ToMembers(q)], pays)

\* The payout that the worker has submitted and not yet booked.
Unbooked == IF job[PoolWallet].at = "book" THEN AmountOf(job[PoolWallet].dist) ELSE 0

\* What members have received or will, the pool has booked or is about to.
BookOk ==
  /\ received \in Nat /\ totalPaid \in Nat
  /\ job[PoolWallet].at # "idle" => job[PoolWallet].pay.kind = "payout"
  /\ job[PoolWallet].at = "submit" =>
       ToMembers(job[PoolWallet].pay) <= AmountOf(job[PoolWallet].dist)
  /\ \A p \in RpcThreads : job[p].at # "idle" => job[p].pay.members = 0
  /\ received + Waiting(relayed) <= totalPaid + Unbooked

PaymentsOk == ChainOk /\ JobsOk /\ MinersOk /\ NamesOk /\ PassOk /\ BookOk

----------------------------------------------------------------------------
(* Payments: the operators                                                 *)

\* The amounts of the coins that a payer finds are naturals.
LEMMA ValueNat ==
  ASSUME ledger \in LedgerType, NEW ops \in SUBSET DOMAIN ledger.utxo
  PROVE  /\ IsFiniteSet(ops) /\ Value(ops) \in Nat
         /\ \A op \in ops : op \in OutPointType /\ ledger.utxo[op] \in EntryType
<1> DEFINE u == ledger.utxo
           f == [op \in ops |-> u[op].amount]
<1>1. u \in UtxoType
  BY DEF LedgerType
<1> HIDE DEF u
<1>2. /\ IsFiniteSet(DOMAIN u) /\ DOMAIN u \subseteq OutPointType
      /\ \A op \in DOMAIN u : u[op] \in EntryType
  BY <1>1, UtxoElim
<1>3. IsFiniteSet(ops)
  BY <1>2, FS_Subset DEF u
<1>4. \A op \in ops : op \in OutPointType /\ u[op] \in EntryType
  BY <1>2 DEF u
<1>5. \A op \in ops : f[op] \in Nat
  BY <1>4 DEF EntryType
<1>6. Value(ops) = SumFunctionOnSet(f, ops)
  BY DEF Value, SumFunction, u
<1> HIDE DEF f
<1>7. Value(ops) \in Nat
  BY <1>3, <1>5, <1>6, SumNat
<1> QED
  BY <1>3, <1>4, <1>7 DEF u

\* The transaction that a payer builds spends the coins it has selected, and
\* is worth what they are.
LEMMA TransferBuilt ==
  ASSUME NamesFit, ledger \in LedgerType, made \in Nat, NEW from \in Owners,
         NEW ops \in SUBSET DOMAIN ledger.utxo, NEW outs \in Seq(OutputType)
  PROVE  LET tx == Transfer(from, ops, outs)
         IN  /\ tx \in TxType /\ tx.id = <<"p", made>> /\ tx.signed /\ ~tx.coinbase
             /\ tx.outputs = outs
             /\ TotalOutput(tx) = OutSum(outs)
             /\ Spends(tx) = ops
             /\ InputSum(ledger, tx) = Value(ops)
             /\ \A i \in DOMAIN tx.inputs : tx.inputs[i].op \in ops /\ tx.inputs[i].key = from
<1> DEFINE mk == [op \in ops |-> [op |-> op, key |-> from]]
           S == {mk[op] : op \in ops}
           s == SetToSeq(S)
           n == Cardinality(S)
           tx == Transfer(from, ops, outs)
           u == ledger.utxo
           f == [op \in ops |-> u[op].amount]
           g == [i \in DOMAIN s |-> u[s[i].op].amount]
           h == [e \in S |-> u[e.op].amount]
<1>1. /\ IsFiniteSet(ops) /\ Value(ops) \in Nat
      /\ \A op \in ops : op \in OutPointType /\ u[op] \in EntryType
  BY ValueNat
<1>2. IsFiniteSet(S)
  <2> HIDE DEF mk
  <2> QED
    BY <1>1, FiniteImage
<1>3. \A e \in S : e \in InputType /\ e.op \in ops /\ e.key = from /\ e = mk[e.op]
  BY <1>1 DEF InputType
<1>4. /\ n \in Nat /\ s \in Seq(S) /\ Len(s) = n /\ DOMAIN s = 1..n
      /\ \A i, j \in 1..n : s[i] = s[j] => i = j
      /\ {s[i] : i \in 1..n} = S
  <2> HIDE DEF S
  <2> QED
    BY <1>2, Listed
<1>5. tx = [id |-> <<"p", made>>, coinbase |-> FALSE, signed |-> TRUE, inputs |-> s, outputs |-> outs]
  <2>1. S = {[op |-> op, key |-> from] : op \in ops}
    OBVIOUS
  <2> QED
    BY <2>1, Zenon DEF Transfer
<1> HIDE DEF s, n, tx
<1>6. \A i \in 1..n : s[i] \in S
  BY <1>4
<1>7. s \in Seq(InputType)
  <2>1. \A i \in 1..n : s[i] \in InputType
    BY <1>3, <1>6
  <2> HIDE DEF S
  <2>2. s = [i \in 1..n |-> s[i]]
    BY <1>4
  <2> QED
    BY <1>4, <2>1, <2>2
<1>8. tx \in TxType
  BY <1>5, <1>7 DEF TxType, NamesFit
<1>9. Spends(tx) = ops
  <2>1. Spends(tx) = {s[i].op : i \in 1..n}
    BY <1>4, <1>5 DEF Spends
  <2>2. ASSUME NEW op \in ops PROVE \E i \in 1..n : op = s[i].op
    <3>1. mk[op] \in S /\ mk[op].op = op
      OBVIOUS
    <3>2. PICK i \in 1..n : mk[op] = s[i]
      BY <3>1, <1>4
    <3> QED
      BY <3>1, <3>2
  <2>3. \A i \in 1..n : s[i].op \in ops
    BY <1>3, <1>6
  <2> QED
    BY <2>1, <2>2, <2>3
<1>10. \A i \in DOMAIN tx.inputs : tx.inputs[i].op \in ops /\ tx.inputs[i].key = from
  BY <1>3, <1>4, <1>5, <1>6
<1>11. TotalOutput(tx) = OutSum(outs)
  BY <1>5 DEF TotalOutput, OutSum, SumFunction
<1>12. InputSum(ledger, tx) = Value(ops)
  <2>1. Value(ops) = SumFunctionOnSet(f, ops)
    BY DEF Value, SumFunction
  <2>2. InputSum(ledger, tx) = SumFunctionOnSet(g, 1..n)
    BY <1>4, <1>5 DEF InputSum, SumFunction
  <2>3. \A op \in ops : f[op] \in Nat /\ h[mk[op]] = f[op]
    <3>1. TAKE op \in ops
    <3>2. mk[op] \in S /\ mk[op].op = op
      OBVIOUS
    <3> QED
      BY <1>1, <3>2 DEF EntryType
  <2>4. \A x, y \in ops : mk[x] = mk[y] => x = y
    <3>1. TAKE x, y \in ops
    <3>2. mk[x].op = x /\ mk[y].op = y
      OBVIOUS
    <3> QED
      BY <3>2
  <2>5. \A i \in 1..n : g[i] \in Nat /\ h[s[i]] = g[i]
    BY <1>1, <1>3, <1>4, <1>6 DEF EntryType
  <2> DEFINE E == 1..n
  <2>6. IsFiniteSet(E) /\ \A i, j \in E : s[i] = s[j] => i = j
    BY <1>4, FS_Interval
  <2>12. S = {s[i] : i \in E}
    BY <1>4
  <2>7. \A i \in E : g[i] \in Nat /\ h[s[i]] = g[i]
    BY <2>5
  <2>8. S = {mk[op] : op \in ops}
    OBVIOUS
  <2> HIDE DEF E, f, g, h, mk, S
  <2>9. SumFunctionOnSet(h, {mk[op] : op \in ops}) = SumFunctionOnSet(f, ops)
    BY <1>1, <2>3, <2>4, SumImage
  <2>10. SumFunctionOnSet(h, {s[i] : i \in E}) = SumFunctionOnSet(g, E)
    BY <2>6, <2>7, SumImage, SMTT(30)
  <2>11. SumFunctionOnSet(f, ops) = SumFunctionOnSet(g, E)
    BY <2>8, <2>9, <2>10, <2>12, Zenon
  <2> QED
    BY <2>1, <2>2, <2>11 DEF E
<1> QED
  BY <1>5, <1>8, <1>9, <1>10, <1>11, <1>12 DEF tx

\* What is paid out, with the fee, is what is needed, or does not fit a u64.
PriceOk(ms, os, needed, fee) ==
  \/ OutSum(ms) + OutSum(os) + fee <= needed
  \/ OutSum(ms) + OutSum(os) + fee > MAX_U64

\* The payment that Build makes.
Payment(from, ops, ms, os, needed, fee, kind) ==
  [tx |-> Transfer(from, ops, ms \o os \o Change(from, Value(ops) - needed)),
   fee |-> fee, kind |-> kind, members |-> Len(ms)]

\* A payment that was built from mature coins of one owner passes.
LEMMA PayBuilt ==
  ASSUME NEW from \in Owners, NEW ops, NEW ms, NEW os,
         NEW needed \in Nat, NEW fee \in Nat, NEW kind \in Kinds,
         NamesFit, ChainOk, ops \subseteq SpendableCoins(from, tipHeight),
         ms \in Seq(OutputType), os \in Seq(OutputType), Value(ops) >= needed, PriceOk(ms, os, needed, fee)
  PROVE  LET q == Payment(from, ops, ms, os, needed, fee, kind)
         IN  /\ q \in PayType /\ q.tx.id = <<"p", made>> /\ q.members = Len(ms) /\ q.kind = kind
             /\ Spends(q.tx) \subseteq DOMAIN ledger.utxo
             /\ Passes(q, ledger, tipHeight)
             /\ ToMembers(q) = OutSum(ms)
<1> DEFINE rest == Value(ops) - needed
           ch == Change(from, rest)
           a == ms \o os
           outs == a \o ch
           tx == Transfer(from, ops, outs)
           q == [tx |-> tx, fee |-> fee, kind |-> kind, members |-> Len(ms)]
           f == [i \in 1..Len(ms) |-> outs[i].amount]
           g == [i \in DOMAIN ms |-> ms[i].amount]
<1>1. ledger \in LedgerType /\ tipHeight \in Nat /\ made \in Nat
  BY DEF ChainOk
<1>2. /\ ops \in SUBSET DOMAIN ledger.utxo
      /\ \A op \in ops : ledger.utxo[op].owner = from /\ Mature(ledger.utxo[op], tipHeight)
  BY DEF SpendableCoins
<1>3. Value(ops) \in Nat /\ rest \in Nat
  BY <1>1, <1>2, ValueNat
<1>4. ch \in Seq(OutputType) /\ OutSum(ch) = rest
  <2> HIDE DEF rest
  <2>1. CASE rest > 0
    <3>1. Pays(from, rest) \in OutputType /\ Pays(from, rest).amount = rest
      BY <1>3 DEF Pays, OutputType
    <3>2. ch = <<Pays(from, rest)>>
      BY <2>1 DEF Change
    <3> QED
      BY <3>1, <3>2, OutSumShort
  <2>2. CASE ~(rest > 0)
    <3>1. ch = <<>> /\ rest = 0
      BY <1>3, <2>2 DEF Change
    <3> QED
      BY <3>1, OutSumShort
  <2> QED
    BY <2>1, <2>2
<1>5. a \in Seq(OutputType) /\ OutSum(a) = OutSum(ms) + OutSum(os)
  BY OutSumConcat
<1>6. outs \in Seq(OutputType) /\ OutSum(outs) = OutSum(a) + rest
  <2> HIDE DEF ch, a, rest
  <2> QED
    BY <1>4, <1>5, OutSumConcat
<1>7. OutSum(ms) \in Nat /\ OutSum(os) \in Nat
  BY OutSumNat
<1>8. /\ tx \in TxType /\ tx.id = <<"p", made>> /\ tx.signed /\ ~tx.coinbase
      /\ tx.outputs = outs /\ TotalOutput(tx) = OutSum(outs)
      /\ Spends(tx) = ops /\ InputSum(ledger, tx) = Value(ops)
      /\ \A i \in DOMAIN tx.inputs : tx.inputs[i].op \in ops /\ tx.inputs[i].key = from
  <2> HIDE DEF outs
  <2> QED
    BY <1>1, <1>2, <1>6, TransferBuilt
<1>9. /\ Len(ms) \in Nat /\ DOMAIN ms = 1..Len(ms) /\ Len(ms) <= Len(outs)
      /\ \A i \in 1..Len(ms) : outs[i] = ms[i]
  <2>1. Len(ms) \in Nat /\ DOMAIN ms = 1..Len(ms) /\ Len(os) \in Nat
    OBVIOUS
  <2>2. Len(a) = Len(ms) + Len(os) /\ \A i \in 1..Len(ms) : a[i] = ms[i]
    OBVIOUS
  <2> HIDE DEF a, ch
  <2>3. Len(outs) = Len(a) + Len(ch) /\ Len(ch) \in Nat /\ \A i \in 1..Len(a) : outs[i] = a[i]
    BY <1>4, <1>5
  <2> QED
    BY <2>1, <2>2, <2>3
<1> HIDE DEF tx, outs, rest
<1>10. q \in PayType
  BY <1>8, <1>9 DEF PayType
<1>11. q.tx = tx /\ q.fee = fee /\ q.members = Len(ms) /\ q.kind = kind
  OBVIOUS
<1>12. ToMembers(q) = OutSum(ms)
  <2>1. ToMembers(q) = SumFunctionOnSet(f, 1..Len(ms))
    BY <1>8, <1>11 DEF ToMembers, SumFunction
  <2>2. IsFiniteSet(1..Len(ms))
    <3>1. 1 \in Int /\ Len(ms) \in Int
      OBVIOUS
    <3> QED
      BY ONLY <3>1, FS_Interval
  <2>3. \A i \in 1..Len(ms) : g[i] \in Nat /\ f[i] = g[i]
    <3>1. TAKE i \in 1..Len(ms)
    <3>2. ms[i] \in OutputType
      OBVIOUS
    <3>3. outs[i] = ms[i] /\ i \in DOMAIN ms
      BY <1>9
    <3> QED
      BY <3>2, <3>3 DEF OutputType
  <2>4. OutSum(ms) = SumFunctionOnSet(g, 1..Len(ms))
    BY <1>9 DEF OutSum
  <2> HIDE DEF f, g, q
  <2>5. SumFunctionOnSet(f, 1..Len(ms)) = SumFunctionOnSet(g, 1..Len(ms))
    BY <2>2, <2>3, SumSame
  <2> QED
    BY <2>1, <2>4, <2>5
<1>13. Passes(q, ledger, tipHeight)
  <2>1. TotalOutput(tx) + fee <= MAX_U64 => TotalOutput(tx) + fee <= InputSum(ledger, tx)
    <3>1. TotalOutput(tx) = OutSum(ms) + OutSum(os) + rest /\ rest = Value(ops) - needed
      BY <1>5, <1>6, <1>7, <1>8 DEF rest
    <3> QED
      BY <3>1, <1>3, <1>7, <1>8, WordsAssumption, SMTT(30) DEF PriceOk
  <2>2. \A i \in DOMAIN tx.inputs :
          tx.inputs[i].op \in DOMAIN ledger.utxo =>
            /\ ledger.utxo[tx.inputs[i].op].owner = tx.inputs[i].key
            /\ Mature(ledger.utxo[tx.inputs[i].op], tipHeight)
    BY <1>2, <1>8
  <2> HIDE DEF q
  <2> QED
    BY <1>8, <1>11, <2>1, <2>2 DEF Passes
<1> QED
  <2>1. q = Payment(from, ops, ms, os, needed, fee, kind)
    BY DEF Payment, tx, outs, rest
  <2> HIDE DEF q
  <2> QED
    BY <1>2, <1>8, <1>10, <1>11, <1>12, <1>13, <2>1

\* A payer that was idle builds a payment with the next id.
LEMMA NewPayment ==
  ASSUME PaymentsOk, NEW p \in Payer, NEW q \in PayType, NEW to, NEW dist, IsDist(dist),
         q.tx.id = <<"p", made>>, Spends(q.tx) \subseteq DOMAIN ledger.utxo,
         Passes(q, ledger, tipHeight), job[p].at = "idle", made' = made + 1,
         job' = [job EXCEPT ![p] = [at |-> "submit", to |-> to, dist |-> dist, pay |-> q]],
         UNCHANGED <<chainState, poolState, shareState, relayed, claims>>,
         p \in RpcThreads => q.members = 0,
         p = PoolWallet => q.kind = "payout" /\ ToMembers(q) <= AmountOf(dist)
  PROVE  PaymentsOk'
<1> DEFINE new == [at |-> "submit", to |-> to, dist |-> dist, pay |-> q]
<1>1. /\ UNCHANGED <<ledger, tipHeight, received, miners, totalPaid, due, mode, operator,
                     seen, checking, relayed, claims>>
  BY DEF chainState, poolState, shareState
<1>2. ChainOk' /\ MinersOk'
  BY <1>1 DEF PaymentsOk, ChainOk, MinersOk, MembersOk
<1>3. /\ DOMAIN job = Payer /\ job'[p] = new /\ \A r \in Payer : r # p => job'[r] = job[r]
      /\ job' = [r \in Payer |-> job'[r]]
  BY DEF PaymentsOk, JobsOk
<1>4. new.at = "submit" /\ new.pay = q /\ new.dist = dist
  OBVIOUS
<1>5. JobsOk'
  <2>1. IsJob(new)
    BY DEF IsJob
  <2> HIDE DEF new
  <2>2. \A r \in Payer : IsJob(job'[r])
    BY <1>3, <2>1 DEF PaymentsOk, JobsOk
  <2> QED
    BY <1>1, <1>3, <2>2 DEF PaymentsOk, JobsOk, IsJob
<1> HIDE DEF new
<1>6. Submitting' = Submitting \cup {p} /\ p \notin Submitting
  BY <1>3, <1>4 DEF Submitting
<1>7. Live' = Live \cup {q}
  <2>1. \A r \in Submitting : job'[r] = job[r]
    BY <1>3, <1>6 DEF Submitting
  <2>2. {job'[r].pay : r \in Submitting'} = {job[r].pay : r \in Submitting} \cup {q}
    BY <1>3, <1>4, <1>6, <2>1
  <2> QED
    BY <1>1, <2>2 DEF Live
<1>8. NamesOk'
  <2>1. \A id : Past(id) => Past(id)' /\ id # q.tx.id
    BY <1>1 DEF Past, PaymentsOk, ChainOk
  <2>2. Past(q.tx.id)'
    BY DEF Past, PaymentsOk, ChainOk
  <2>3. \A r \in Live : r.tx.id # q.tx.id /\ Past(r.tx.id)'
    BY <2>1 DEF PaymentsOk, NamesOk
  <2>4. \A op : KnownOp(op) => KnownOp(op)'
    BY <1>7, <2>1 DEF KnownOp
  <2>5. \A r \in Submitting : job'[r].pay = job[r].pay /\ job[r].pay \in Live
    BY <1>3, <1>6 DEF Submitting, Live
  <2>6. \A op \in DOMAIN ledger.utxo : KnownOp(op)
    BY DEF PaymentsOk, NamesOk
  <2>7. \A r \in Live : \A op \in Spends(r.tx) : KnownOp(op)
    BY DEF PaymentsOk, NamesOk
  <2>8. \A r \in Live' : Past(r.tx.id)'
    BY <1>7, <2>2, <2>3
  <2>9. \A r, t \in relayed' : r.tx.id = t.tx.id => r = t
    BY <1>1 DEF PaymentsOk, NamesOk
  <2>10. \A r \in relayed', t \in Submitting' : r.tx.id # job'[t].pay.tx.id
    BY <1>1, <1>3, <1>4, <1>6, <2>3, <2>5 DEF PaymentsOk, NamesOk, Live
  <2>11. \A r, t \in Submitting' : job'[r].pay.tx.id = job'[t].pay.tx.id => r = t
    BY <1>3, <1>4, <1>6, <2>3, <2>5 DEF PaymentsOk, NamesOk
  <2>12. \A op \in DOMAIN ledger'.utxo : KnownOp(op)'
    BY <1>1, <2>4, <2>6
  <2>13. \A r \in Live' : \A op \in Spends(r.tx) : KnownOp(op)'
    BY <1>7, <2>4, <2>6, <2>7
  <2> QED
    BY <2>8, <2>9, <2>10, <2>11, <2>12, <2>13 DEF NamesOk
<1>9. PassOk'
  BY <1>1, <1>7 DEF PaymentsOk, PassOk
<1>10. BookOk'
  <2>1. Unbooked' = Unbooked
    <3>1. CASE p = PoolWallet
      BY <1>3, <1>4, <3>1 DEF Unbooked
    <3>2. CASE p # PoolWallet
      BY <1>3, <3>2 DEF Unbooked, Payer
    <3> QED
      BY <3>1, <3>2
  <2>2. (received + Waiting(relayed) <= totalPaid + Unbooked)'
    BY <1>1, <2>1 DEF PaymentsOk, BookOk, Waiting
  <2>3. \A r \in RpcThreads : job'[r].at # "idle" => job'[r].pay.members = 0
    BY <1>3, <1>4 DEF PaymentsOk, BookOk, Payer
  <2>4. /\ job'[PoolWallet].at # "idle" => job'[PoolWallet].pay.kind = "payout"
        /\ job'[PoolWallet].at = "submit" =>
             ToMembers(job'[PoolWallet].pay) <= AmountOf(job'[PoolWallet].dist)
    <3>1. CASE p = PoolWallet
      BY <1>3, <1>4, <3>1
    <3>2. CASE p # PoolWallet
      BY <1>3, <3>2 DEF PaymentsOk, BookOk, Payer
    <3> QED
      BY <3>1, <3>2
  <2> QED
    BY <1>1, <2>2, <2>3, <2>4 DEF PaymentsOk, BookOk
<1> QED
  BY <1>2, <1>5, <1>8, <1>9, <1>10 DEF PaymentsOk

----------------------------------------------------------------------------
(* Payments: what the payers build                                         *)

\* The inputs of a transaction whose coins are there are worth a natural.
LEMMA InputSumNat ==
  ASSUME NEW led \in LedgerType, NEW tx \in TxType, Spends(tx) \subseteq DOMAIN led.utxo
  PROVE  InputSum(led, tx) \in Nat
<1> DEFINE D == DOMAIN tx.inputs
           f == [i \in D |-> led.utxo[tx.inputs[i].op].amount]
<1>1. led.utxo \in UtxoType
  BY DEF LedgerType
<1>2. \A op \in DOMAIN led.utxo : led.utxo[op] \in EntryType
  BY <1>1, UtxoElim
<1>3. \A i \in D : f[i] \in Nat
  BY <1>2 DEF Spends, EntryType
<1>4. IsFiniteSet(D)
  <2>1. D = 1..Len(tx.inputs) /\ Len(tx.inputs) \in Nat
    BY TxFields
  <2>2. IsFiniteSet(1..Len(tx.inputs))
    BY <2>1, FS_Interval
  <2> QED
    BY <2>1, <2>2
<1>5. InputSum(led, tx) = SumFunctionOnSet(f, D)
  BY DEF InputSum, SumFunction
<1> HIDE DEF f, D
<1> QED
  BY <1>3, <1>4, <1>5, SumNat

\* submitTransaction keeps the invariant.
LEMMA SubmitTransactionOk ==
  ASSUME NamesFit, PaymentsOk, NEW p \in RpcThreads, NEW n \in {1, 2}, NEW to \in Payees,
         NEW amount \in SendAmounts,
         NEW coins \in [1..n -> {op \in DOMAIN ledger.utxo : ledger.utxo[op].owner \in Senders}],
         SubmitTransaction(p, coins, to, amount)
  PROVE  PaymentsOk'
<1> DEFINE u == ledger.utxo
           ins == [i \in DOMAIN coins |-> [op |-> coins[i], key |-> u[coins[i]].owner]]
           tx == [id |-> <<"p", made>>, coinbase |-> FALSE, signed |-> TRUE, inputs |-> ins,
                  outputs |-> <<Pays(to, amount)>>]
           sum == Sat64(InputSum(ledger, tx))
           q == [tx |-> tx, fee |-> sum - amount, kind |-> "send", members |-> 0]
<1>1. /\ job[p].at = "idle" /\ amount + MIN_RELAY_FEE <= sum /\ made' = made + 1
      /\ \A i \in DOMAIN coins : Mature(u[coins[i]], tipHeight)
      /\ job' = [job EXCEPT ![p] = [at |-> "submit", to |-> to, dist |-> {}, pay |-> q]]
      /\ UNCHANGED <<chainState, poolState, shareState, relayed, claims>>
  BY DEF SubmitTransaction
<1>2. ledger \in LedgerType /\ tipHeight \in Nat /\ made \in Nat /\ amount \in Nat
      /\ MIN_RELAY_FEE \in Nat
  BY PaymentsAssumption DEF PaymentsOk, ChainOk
<1>3. n \in Nat /\ DOMAIN coins = 1..n /\ \A i \in 1..n : coins[i] \in DOMAIN u
  OBVIOUS
<1>4. \A i \in 1..n : coins[i] \in OutPointType /\ u[coins[i]] \in EntryType
  BY <1>2, <1>3, ValueNat
<1>5. ins \in Seq(InputType) /\ Len(ins) = n /\ DOMAIN ins = 1..n
  <2>1. \A i \in 1..n : ins[i] \in InputType
    BY <1>3, <1>4 DEF InputType, EntryType
  <2> QED
    BY <1>3, <2>1
<1>6. Pays(to, amount) \in OutputType /\ Pays(to, amount).amount = amount
  BY <1>2 DEF Pays, OutputType, NamesFit
<1>7. tx \in TxType
  <2> DEFINE o == Pays(to, amount)
             id == <<"p", made>>
  <2>1. o \in OutputType /\ id \in TxIds
    BY <1>2, <1>6 DEF NamesFit
  <2> HIDE DEF o, id, ins
  <2>2. <<o>> \in Seq(OutputType)
    BY <2>1
  <2>3. tx = [id |-> id, coinbase |-> FALSE, signed |-> TRUE, inputs |-> ins, outputs |-> <<o>>]
    BY DEF o, id
  <2> QED
    BY <1>5, <2>1, <2>2, <2>3 DEF TxType
<1>8. Spends(tx) \subseteq DOMAIN u
  BY <1>3, <1>5 DEF Spends
<1>9. TotalOutput(tx) = amount
  <2>1. tx.outputs = <<Pays(to, amount)>>
    OBVIOUS
  <2> HIDE DEF tx
  <2>2. TotalOutput(tx) = OutSum(<<Pays(to, amount)>>)
    BY <2>1 DEF TotalOutput, OutSum, SumFunction
  <2> QED
    BY <1>6, <2>2, OutSumShort
<1>10. tx.id = <<"p", made>> /\ tx.signed /\ ~tx.coinbase /\ tx.inputs = ins
       /\ tx.outputs = <<Pays(to, amount)>>
  OBVIOUS
<1> HIDE DEF tx
<1>11. InputSum(ledger, tx) \in Nat
  BY <1>2, <1>7, <1>8, InputSumNat
<1>12. sum \in Nat /\ sum <= InputSum(ledger, tx) /\ sum - amount \in Nat
  BY <1>1, <1>2, <1>11, WordsAssumption DEF Sat64, Least
<1> HIDE DEF sum, ins
<1>13. q.tx = tx /\ q.fee = sum - amount /\ q.members = 0
  OBVIOUS
<1>14. q \in PayType
  <2>1. Len(tx.outputs) \in Nat
    BY <1>7, TxFields
  <2>2. "send" \in Kinds /\ 0 <= Len(tx.outputs)
    BY <2>1 DEF Kinds
  <2> HIDE DEF u
  <2> QED
    BY <1>7, <1>10, <1>12, <2>2 DEF PayType
<1>15. Passes(q, ledger, tipHeight)
  <2>1. \A i \in DOMAIN tx.inputs :
          /\ u[tx.inputs[i].op].owner = tx.inputs[i].key
          /\ Mature(u[tx.inputs[i].op], tipHeight)
    BY <1>1, <1>3, <1>5, <1>10 DEF ins
  <2>2. TotalOutput(tx) + (sum - amount) <= InputSum(ledger, tx)
    BY <1>2, <1>9, <1>11, <1>12
  <2> HIDE DEF q
  <2> QED
    BY <1>10, <1>13, <2>1, <2>2 DEF Passes
<1>16. IsDist({}) /\ p \in Payer /\ p # PoolWallet
  BY FS_EmptySet, PaymentsAssumption DEF IsDist, Payer
<1> HIDE DEF q
<1> QED
  BY <1>1, <1>8, <1>10, <1>13, <1>14, <1>15, <1>16, NewPayment

\* A payment that sends one amount keeps the invariant.
LEMMA OneOutputOk ==
  ASSUME NamesFit, PaymentsOk, NEW p \in RpcThreads, NEW from \in Owners, NEW to \in Owners,
         NEW amount \in Nat, NEW fee \in Nat, NEW needed \in Nat, NEW kind \in Kinds,
         \/ amount + fee <= needed
         \/ amount + fee > MAX_U64,
         NEW ops \in Selections(SpendableCoins(from, tipHeight), needed),
         Build(p, from, ops, <<>>, <<Pays(to, amount)>>, needed, fee, kind, to, {}),
         job[p].at = "idle",
         UNCHANGED <<chainState, poolState, shareState, relayed, claims>>
  PROVE  PaymentsOk'
<1> DEFINE os == <<Pays(to, amount)>>
           ms == <<>>
           q == Payment(from, ops, ms, os, needed, fee, kind)
<1>1. ops \subseteq SpendableCoins(from, tipHeight) /\ Value(ops) >= needed
  BY DEF Selections
<1>2. Pays(to, amount) \in OutputType /\ Pays(to, amount).amount = amount
  BY DEF Pays, OutputType
<1>3. os \in Seq(OutputType) /\ OutSum(os) = amount
      /\ ms \in Seq(OutputType) /\ OutSum(ms) = 0 /\ Len(ms) = 0
  BY <1>2, OutSumShort
<1>4. made' = made + 1
      /\ job' = [job EXCEPT ![p] = [at |-> "submit", to |-> to, dist |-> {}, pay |-> q]]
  BY DEF Build, Payment
<1> HIDE DEF os, ms
<1>5. PriceOk(ms, os, needed, fee)
  BY <1>3, WordsAssumption DEF PriceOk
<1>6. ChainOk
  BY DEF PaymentsOk
<1>7. /\ q \in PayType /\ q.tx.id = <<"p", made>> /\ q.members = Len(ms)
      /\ Spends(q.tx) \subseteq DOMAIN ledger.utxo
      /\ Passes(q, ledger, tipHeight)
  <2>1. /\ from \in Owners /\ needed \in Nat /\ fee \in Nat /\ kind \in Kinds
        /\ NamesFit /\ ChainOk /\ ops \subseteq SpendableCoins(from, tipHeight)
        /\ ms \in Seq(OutputType) /\ os \in Seq(OutputType)
        /\ Value(ops) >= needed /\ PriceOk(ms, os, needed, fee)
    BY <1>1, <1>3, <1>5, <1>6
  <2> QED
    BY ONLY <2>1, PayBuilt
<1>9. IsDist({}) /\ p \in Payer /\ p # PoolWallet
  BY FS_EmptySet, PaymentsAssumption DEF IsDist, Payer
<1> HIDE DEF q
<1> QED
  BY <1>3, <1>4, <1>7, <1>9, NewPayment

\* sendTransfer keeps the invariant.
LEMMA SendTransferOk ==
  ASSUME NamesFit, PaymentsOk, NEW p \in RpcThreads, NEW from \in Senders, NEW to \in Payees,
         NEW amount \in SendAmounts, NEW fee \in SendFees, SendTransfer(p, from, to, amount, fee)
  PROVE  PaymentsOk'
<1> DEFINE needed == (amount + fee) % (MAX_U64 + 1)
<1>1. from \in Owners /\ to \in Owners /\ amount \in Nat /\ fee \in Nat
  BY PaymentsAssumption DEF NamesFit
<1>2. needed \in Nat /\ (amount + fee <= needed \/ amount + fee > MAX_U64)
  <2>1. MAX_U64 \in Nat
    BY WordsAssumption
  <2>2. \A a, b \in Nat : a % (b + 1) \in Nat /\ (a <= b => a % (b + 1) = a)
    OBVIOUS
  <2> QED
    BY <1>1, <2>1, <2>2
<1> HIDE DEF needed
<1>3. /\ job[p].at = "idle" /\ UNCHANGED <<chainState, poolState, shareState, relayed, claims>>
      /\ \E ops \in Selections(SpendableCoins(from, tipHeight), needed) :
           Build(p, from, ops, <<>>, <<Pays(to, amount)>>, needed, fee, "send", to, {})
  BY DEF SendTransfer, needed
<1>4. PICK ops \in Selections(SpendableCoins(from, tipHeight), needed) :
        Build(p, from, ops, <<>>, <<Pays(to, amount)>>, needed, fee, "send", to, {})
  BY <1>3
<1>5. "send" \in Kinds /\ "faucet" \in Kinds
  BY DEF Kinds
<1> QED
  BY <1>1, <1>2, <1>3, <1>4, <1>5, OneOutputOk

\* faucetClaim keeps the invariant.
LEMMA FaucetClaimOk ==
  ASSUME NamesFit, PaymentsOk, NEW p \in RpcThreads, NEW to \in Payees, FaucetClaim(p, to)
  PROVE  PaymentsOk'
<1> DEFINE needed == FAUCET_CLAIM + FAUCET_FEE
<1>1. FaucetWallet \in Owners /\ to \in Owners /\ FAUCET_CLAIM \in Nat /\ FAUCET_FEE \in Nat
  BY PaymentsAssumption DEF NamesFit
<1>2. needed \in Nat /\ FAUCET_CLAIM + FAUCET_FEE <= needed
  BY <1>1
<1> HIDE DEF needed
<1>3. /\ job[p].at = "idle" /\ UNCHANGED <<chainState, poolState, shareState, relayed, claims>>
      /\ \E ops \in Selections(SpendableCoins(FaucetWallet, tipHeight), needed) :
           Build(p, FaucetWallet, ops, <<>>, <<Pays(to, FAUCET_CLAIM)>>, needed, FAUCET_FEE,
                 "faucet", to, {})
  BY DEF FaucetClaim, needed
<1>4. PICK ops \in Selections(SpendableCoins(FaucetWallet, tipHeight), needed) :
        Build(p, FaucetWallet, ops, <<>>, <<Pays(to, FAUCET_CLAIM)>>, needed, FAUCET_FEE,
              "faucet", to, {})
  BY <1>3
<1>5. "send" \in Kinds /\ "faucet" \in Kinds
  BY DEF Kinds
<1> QED
  BY <1>1, <1>2, <1>3, <1>4, <1>5, OneOutputOk

\* Shares are naturals.
LEMMA SharesNat ==
  ASSUME MinersOk
  PROVE  TotalShares \in Nat
<1> DEFINE D == DOMAIN miners
           f == [m \in D |-> miners[m].shares]
<1>1. IsFiniteSet(D) /\ \A m \in D : f[m] \in Nat
  BY DEF MinersOk, MembersOk, MinerType
<1>2. TotalShares = SumFunctionOnSet(f, D)
  BY DEF TotalShares, SumFunction
<1> HIDE DEF f, D
<1> QED
  BY <1>1, <1>2, SumNat

\* compute_distribution gives naturals to members.
LEMMA DistributionOk ==
  ASSUME MinersOk, NEW amount \in Int
  PROVE  IsDist(Distribution(amount))
<1>1. TotalShares \in Nat /\ MIN_PAYOUT \in Nat
  BY SharesNat, PaymentsAssumption
<1>2. CASE TotalShares = 0 \/ amount = 0
  BY <1>2, FS_EmptySet DEF Distribution, IsDist
<1>3. CASE ~(TotalShares = 0 \/ amount = 0)
  <2> DEFINE M == {n \in DOMAIN miners : miners[n].shares > 0 /\ Portion(n, amount) >= MIN_PAYOUT}
             b == [m \in M |-> [to |-> m, amount |-> Portion(m, amount)]]
  <2>1. Distribution(amount) = {b[m] : m \in M}
    BY <1>3 DEF Distribution
  <2>2. IsFiniteSet(M)
    BY FS_Subset DEF MinersOk, MembersOk
  <2>3. ASSUME NEW m \in M PROVE m \in Owners /\ Portion(m, amount) \in Nat
    <3>1. miners[m].shares \in Nat /\ m \in Owners
      BY DEF MinersOk, MembersOk, MinerType
    <3>2. miners[m].shares * amount \in Int
      BY <3>1
    <3>3. \A x \in Int, y \in Nat : y # 0 => x \div y \in Int
      OBVIOUS
    <3>4. Portion(m, amount) \in Int
      BY <1>1, <1>3, <3>2, <3>3 DEF Portion
    <3> QED
      BY <1>1, <3>1, <3>4
  <2>4. \A m \in M : /\ b[m] = [to |-> b[m].to, amount |-> b[m].amount]
                     /\ b[m].to \in Owners /\ b[m].amount \in Nat
    BY <2>3
  <2> HIDE DEF b, M
  <2>5. IsFiniteSet({b[m] : m \in M})
    BY <2>2, FiniteImage
  <2> QED
    BY <2>1, <2>4, <2>5 DEF IsDist
<1> QED
  BY <1>2, <1>3

\* A part of a distribution is worth at most the whole.
LEMMA PartOfDist ==
  ASSUME NEW dist, IsDist(dist), NEW part \in SUBSET dist
  PROVE  /\ AmountOf(part) \in Nat /\ AmountOf(dist) \in Nat
         /\ AmountOf(part) <= AmountOf(dist)
         /\ IsDist(part)
<1> DEFINE f == [d \in dist |-> d.amount]
           g == [d \in part |-> d.amount]
<1>1. IsFiniteSet(dist) /\ IsFiniteSet(part) /\ IsDist(part)
  BY FS_Subset DEF IsDist
<1>2. \A d \in dist : f[d] \in Nat
  BY DEF IsDist
<1>3. \A d \in part : g[d] \in Nat /\ f[d] = g[d]
  BY DEF IsDist
<1>4. AmountOf(dist) = SumFunctionOnSet(f, dist) /\ AmountOf(part) = SumFunctionOnSet(g, part)
  BY DEF AmountOf, SumFunction
<1> HIDE DEF f, g
<1>5. SumFunctionOnSet(f, dist) \in Nat /\ SumFunctionOnSet(g, part) \in Nat
  BY <1>1, <1>2, <1>3, SumNat
<1>6. SumFunctionOnSet(f, part) = SumFunctionOnSet(g, part)
  BY <1>1, <1>3, SumSame
<1>7. SumFunctionOnSet(f, part) <= SumFunctionOnSet(f, dist)
  BY <1>1, <1>2, SumSubset
<1> QED
  BY <1>1, <1>4, <1>5, <1>6, <1>7

\* The outputs of a distribution are worth what it is.
LEMMA OutputsOfDist ==
  ASSUME NEW paid, IsDist(paid)
  PROVE  LET ms == SetToSeq({Pays(d.to, d.amount) : d \in paid})
         IN  ms \in Seq(OutputType) /\ OutSum(ms) = AmountOf(paid)
<1> DEFINE b == [d \in paid |-> Pays(d.to, d.amount)]
           S == {b[d] : d \in paid}
           f == [d \in paid |-> d.amount]
           g == [o \in S |-> o.amount]
<1>1. IsFiniteSet(paid)
  BY DEF IsDist
<1>2. S = {Pays(d.to, d.amount) : d \in paid}
  OBVIOUS
<1>3. \A d \in paid : b[d] \in OutputType /\ b[d].amount = d.amount /\ d.amount \in Nat
  BY DEF IsDist, Pays, OutputType
<1>4. \A x, y \in paid : b[x] = b[y] => x = y
  <2>1. TAKE x, y \in paid
  <2>2. x = [to |-> x.to, amount |-> x.amount] /\ y = [to |-> y.to, amount |-> y.amount]
    BY DEF IsDist
  <2>3. b[x].owner = x.to /\ b[y].owner = y.to
    BY DEF Pays
  <2> QED
    BY <1>3, <2>2, <2>3
<1>5. \A d \in paid : f[d] \in Nat /\ g[b[d]] = f[d]
  BY <1>3
<1>6. S \subseteq OutputType
  BY <1>3
<1>7. AmountOf(paid) = SumFunctionOnSet(f, paid)
  BY DEF AmountOf, SumFunction
<1> HIDE DEF b, f
<1>8. IsFiniteSet(S)
  BY <1>1, FiniteImage
<1>9. SetToSeq(S) \in Seq(OutputType) /\ OutSum(SetToSeq(S)) = SumFunctionOnSet(g, S)
  <2> HIDE DEF S
  <2> QED
    BY <1>6, <1>8, OutSumOfSet
<1> HIDE DEF g
<1>10. SumFunctionOnSet(g, S) = SumFunctionOnSet(f, paid)
  BY <1>1, <1>4, <1>5, SumImage
<1>11. SetToSeq(S) \in Seq(OutputType) /\ OutSum(SetToSeq(S)) = AmountOf(paid)
  BY <1>7, <1>9, <1>10
<1> HIDE DEF S
<1> QED
  BY <1>2, <1>11, Zenon

\* run_pool_payout, up to the transaction, keeps the invariant.
LEMMA StartPayoutOk ==
  ASSUME NamesFit, PaymentsOk, StartPayout
  PROVE  PaymentsOk'
<1> DEFINE bal == PayoutBalance
           opFee == OperatorFee
           part == OperatorPart
           dist == ToDistribute
           paid == {d \in dist : d.to \notin BadMembers}
           needed == AmountOf(dist) + part + PAYOUT_TX_FEE
           ms == SetToSeq({Pays(d.to, d.amount) : d \in paid})
           os == Change(operator, part)
           coins == SpendableCoins(PoolWallet, tipHeight)
<1>1. ChainOk /\ MinersOk /\ ledger \in LedgerType /\ operator \in Owners /\ PoolWallet \in Owners
  BY DEF PaymentsOk, ChainOk, MinersOk, MembersOk, NamesFit
<1>2. PAYOUT_TX_FEE \in Nat /\ POOL_FEE_BPS \in Nat /\ BPS \in Nat /\ BPS # 0
  BY PaymentsAssumption
<1>3. bal \in Nat /\ bal > PAYOUT_TX_FEE /\ job[PoolWallet].at = "idle"
  <2>1. coins \in SUBSET DOMAIN ledger.utxo
    BY DEF SpendableCoins
  <2>2. Value(coins) \in Nat
    BY <1>1, <2>1, ValueNat
  <2> QED
    BY <2>2 DEF PayoutBalance, StartPayout, PayoutDue
<1>4. opFee \in Nat
  <2>1. bal - PAYOUT_TX_FEE \in Nat
    BY <1>2, <1>3
  <2>2. \A x, y \in Nat : x * y \in Nat
    OBVIOUS
  <2>3. \A x, y \in Nat : y # 0 => x \div y \in Nat
    OBVIOUS
  <2>4. (bal - PAYOUT_TX_FEE) * POOL_FEE_BPS \in Nat
    BY <1>2, <2>1, <2>2
  <2> QED
    BY <1>2, <2>3, <2>4 DEF OperatorFee
<1>5. part \in Nat
  BY <1>4 DEF OperatorPart
<1>6. IsDist(dist)
  <2>1. bal - PAYOUT_TX_FEE - opFee \in Int
    BY <1>2, <1>3, <1>4
  <2> QED
    BY <1>1, <2>1, DistributionOk DEF ToDistribute
<1>7. /\ AmountOf(paid) \in Nat /\ AmountOf(dist) \in Nat /\ AmountOf(paid) <= AmountOf(dist)
      /\ IsDist(paid)
  <2> HIDE DEF dist
  <2> QED
    BY <1>6, PartOfDist
<1>8. ms \in Seq(OutputType) /\ OutSum(ms) = AmountOf(paid)
  <2> HIDE DEF paid
  <2> QED
    BY <1>7, OutputsOfDist
<1>9. os \in Seq(OutputType) /\ OutSum(os) = part
  <2> HIDE DEF part
  <2>1. CASE part > 0
    <3>1. Pays(operator, part) \in OutputType /\ Pays(operator, part).amount = part
      BY <1>1, <1>5 DEF Pays, OutputType
    <3>2. os = <<Pays(operator, part)>>
      BY <2>1 DEF Change
    <3> QED
      BY <3>1, <3>2, OutSumShort
  <2>2. CASE ~(part > 0)
    <3>1. os = <<>> /\ part = 0
      BY <1>5, <2>2 DEF Change
    <3> QED
      BY <3>1, OutSumShort
  <2> QED
    BY <2>1, <2>2
<1>10. PICK ops \in Selections(coins, needed) :
         Build(PoolWallet, PoolWallet, ops, ms, os, needed, PAYOUT_TX_FEE, "payout",
               NoOperator, dist)
  BY DEF StartPayout, BuildPayout
<1>11. UNCHANGED <<chainState, poolState, shareState, relayed, claims>>
  BY DEF StartPayout
<1> DEFINE q == Payment(PoolWallet, ops, ms, os, needed, PAYOUT_TX_FEE, "payout")
<1>12. /\ made' = made + 1
       /\ job' = [job EXCEPT ![PoolWallet] =
                    [at |-> "submit", to |-> NoOperator, dist |-> dist, pay |-> q]]
  <2> HIDE DEF ms, os, needed, dist
  <2> QED
    BY <1>10 DEF Build, Payment
<1>13. ops \subseteq coins /\ Value(ops) >= needed
  BY <1>10 DEF Selections
<1>14. needed \in Nat /\ PriceOk(ms, os, needed, PAYOUT_TX_FEE)
  <2> HIDE DEF ms, os, dist, part, paid
  <2> QED
    BY <1>2, <1>5, <1>7, <1>8, <1>9, WordsAssumption DEF PriceOk
<1>15. "payout" \in Kinds
  BY DEF Kinds
<1> HIDE DEF ms, os, needed, dist, paid
<1>16. /\ q \in PayType /\ q.tx.id = <<"p", made>> /\ q.kind = "payout"
       /\ Spends(q.tx) \subseteq DOMAIN ledger.utxo
       /\ Passes(q, ledger, tipHeight) /\ ToMembers(q) = OutSum(ms)
  <2>1. /\ PoolWallet \in Owners /\ needed \in Nat /\ PAYOUT_TX_FEE \in Nat /\ "payout" \in Kinds
        /\ NamesFit /\ ChainOk /\ ops \subseteq SpendableCoins(PoolWallet, tipHeight)
        /\ ms \in Seq(OutputType) /\ os \in Seq(OutputType)
        /\ Value(ops) >= needed /\ PriceOk(ms, os, needed, PAYOUT_TX_FEE)
    BY <1>1, <1>2, <1>8, <1>9, <1>13, <1>14, <1>15
  <2> QED
    BY ONLY <2>1, PayBuilt
<1>17. PoolWallet \in Payer /\ PoolWallet \notin RpcThreads
  BY PaymentsAssumption DEF Payer
<1>18. ToMembers(q) <= AmountOf(dist)
  BY <1>7, <1>8, <1>16
<1> HIDE DEF q
<1> QED
  BY <1>3, <1>6, <1>11, <1>12, <1>16, <1>17, <1>18, NewPayment

----------------------------------------------------------------------------
(* Payments: the mempool                                                   *)

\* A payment gives members a natural, and nothing when it is no payout.
LEMMA MembersNat ==
  ASSUME NEW q \in PayType
  PROVE  ToMembers(q) \in Nat /\ (q.members = 0 => ToMembers(q) = 0)
<1> DEFINE k == q.members
           D == 1..k
           f == [i \in D |-> q.tx.outputs[i].amount]
<1>1. k \in Nat /\ k <= Len(q.tx.outputs) /\ q.tx \in TxType
  BY DEF PayType
<1>2. \A i \in D : q.tx.outputs[i] \in OutputType
  BY <1>1, TxFields
<1>3. \A i \in D : f[i] \in Nat
  BY <1>2 DEF OutputType
<1>4. IsFiniteSet(D)
  <2> HIDE DEF k
  <2> QED
    BY <1>1, FS_Interval
<1>5. ToMembers(q) = SumFunctionOnSet(f, D)
  BY DEF ToMembers, SumFunction
<1>6. k = 0 => D = {}
  OBVIOUS
<1> HIDE DEF f, D
<1>7. SumFunctionOnSet(f, D) \in Nat
  BY <1>3, <1>4, SumNat
<1>8. SumFunctionOnSet(f, {}) = 0
  BY SumEmpty
<1> QED
  BY <1>5, <1>6, <1>7, <1>8

\* What a mempool holds for members is what each of its payments does.
LEMMA WaitingSum ==
  ASSUME NEW S, IsFiniteSet(S), S \subseteq PayType, NEW q \in PayType
  PROVE  /\ Waiting(S) \in Nat
         /\ q \in S => Waiting(S) = ToMembers(q) + Waiting(S \ {q})
         /\ q \notin S => Waiting(S \cup {q}) = ToMembers(q) + Waiting(S)
<1> DEFINE F(T) == [r \in T |-> ToMembers(r)]
<1>1. \A T : Waiting(T) = SumFunctionOnSet(F(T), T)
  BY DEF Waiting
<1>2. \A r \in PayType : ToMembers(r) \in Nat
  BY MembersNat
<1>3. ASSUME NEW T, NEW U, IsFiniteSet(U), T \subseteq U, U \subseteq PayType
      PROVE  SumFunctionOnSet(F(U), T) = Waiting(T)
  <2> DEFINE f == F(T)
             g == F(U)
  <2>1. \A r \in T : f[r] \in Nat /\ g[r] = f[r]
    BY <1>2, <1>3
  <2>2. IsFiniteSet(T)
    BY <1>3, FS_Subset
  <2> HIDE DEF f, g
  <2>3. SumFunctionOnSet(g, T) = SumFunctionOnSet(f, T)
    BY <2>1, <2>2, SumSame
  <2> QED
    BY <1>1, <2>3 DEF f, g
<1>4. ASSUME NEW T, IsFiniteSet(T), T \subseteq PayType, NEW r \in T
      PROVE  Waiting(T) = ToMembers(r) + Waiting(T \ {r}) /\ Waiting(T) \in Nat
  <2> DEFINE f == F(T)
  <2>1. (\A x \in T : f[x] \in Nat) /\ f[r] = ToMembers(r)
    BY <1>2, <1>4
  <2>2. SumFunctionOnSet(f, T) = Waiting(T)
    BY <1>1
  <2>3. SumFunctionOnSet(f, T \ {r}) = Waiting(T \ {r})
    <3>1. T \ {r} \subseteq T
      OBVIOUS
    <3> QED
      BY <1>3, <1>4, <3>1
  <2> HIDE DEF f
  <2>4. SumFunctionOnSet(f, T) = f[r] + SumFunctionOnSet(f, T \ {r})
    BY <1>4, <2>1, SumRemove
  <2>5. SumFunctionOnSet(f, T) \in Nat
    BY <1>4, <2>1, SumNat
  <2> QED
    BY <2>1, <2>2, <2>3, <2>4, <2>5
<1> HIDE DEF F
<1>5. Waiting(S) \in Nat
  <2>1. CASE S = {}
    BY <1>1, <2>1, SumEmpty
  <2>2. CASE S # {}
    BY <1>4, <2>2
  <2> QED
    BY <2>1, <2>2
<1>6. ASSUME q \in S PROVE Waiting(S) = ToMembers(q) + Waiting(S \ {q})
  BY <1>4, <1>6
<1>7. ASSUME q \notin S PROVE Waiting(S \cup {q}) = ToMembers(q) + Waiting(S)
  <2> DEFINE U == S \cup {q}
  <2>1. IsFiniteSet(U) /\ U \subseteq PayType /\ q \in U /\ U \ {q} = S
    BY <1>7, FS_AddElement
  <2> HIDE DEF U
  <2>2. Waiting(U) = ToMembers(q) + Waiting(U \ {q})
    BY <1>4, <2>1
  <2> QED
    BY <2>1, <2>2 DEF U
<1> QED
  BY <1>5, <1>6, <1>7

\* The job of a payer that has booked, or failed, is idle again.
LEMMA JobEnds ==
  ASSUME PaymentsOk, NEW p \in Payer, job' = [job EXCEPT ![p] = IdleJob],
         UNCHANGED <<ledger, tipHeight, relayed, made>>
  PROVE  /\ ChainOk' /\ JobsOk' /\ NamesOk' /\ PassOk'
         /\ job'[p].at = "idle" /\ \A r \in Payer : r # p => job'[r] = job[r]
<1>1. /\ job'[p] = IdleJob /\ \A r \in Payer : r # p => job'[r] = job[r]
      /\ job' = [r \in Payer |-> job'[r]]
  BY DEF PaymentsOk, JobsOk
<1>2. IdleJob.at = "idle" /\ IsJob(IdleJob)
  BY DEF IdleJob, IsJob
<1>3. ChainOk' /\ JobsOk'
  <2>1. \A r \in Payer : IsJob(job'[r])
    BY <1>1, <1>2 DEF PaymentsOk, JobsOk
  <2> QED
    BY <1>1, <2>1 DEF PaymentsOk, JobsOk, ChainOk, IsJob
<1>4. Submitting' \subseteq Submitting /\ \A r \in Submitting' : job'[r] = job[r]
  BY <1>1, <1>2 DEF Submitting
<1>5. Live' \subseteq Live
  BY <1>4 DEF Live
<1>6. \A id : Past(id) => Past(id)'
  BY DEF Past
<1>7. \A op : KnownOp(op) => KnownOp(op)'
  BY <1>5, <1>6 DEF KnownOp
<1>8. NamesOk'
  BY <1>4, <1>5, <1>6, <1>7 DEF PaymentsOk, NamesOk
<1>9. PassOk'
  BY <1>5 DEF PaymentsOk, PassOk
<1> QED
  BY <1>1, <1>2, <1>3, <1>8, <1>9

\* The mempool takes a payment, or refuses it: the invariant is kept.
LEMMA SubmitOk ==
  ASSUME PaymentsOk, NEW p \in Payer, Submit(p)
  PROVE  PaymentsOk'
<1> DEFINE q == job[p].pay
<1>1. /\ job[p].at = "submit"
      /\ UNCHANGED <<ledger, tipHeight, received, miners, totalPaid, due, mode, operator,
                     seen, checking, claims, made>>
  BY DEF Submit, chainState, poolState, shareState
<1>2. MinersOk'
  BY <1>1 DEF PaymentsOk, MinersOk, MembersOk
<1>3. q \in PayType /\ p \in Submitting /\ q \in Live /\ IsJob(job[p]) /\ IsDist(job[p].dist)
  BY <1>1 DEF PaymentsOk, JobsOk, IsJob, Submitting, Live
<1>4. /\ ToMembers(q) \in Nat /\ Waiting(relayed) \in Nat
      /\ q \notin relayed => Waiting(relayed \cup {q}) = ToMembers(q) + Waiting(relayed)
      /\ q.members = 0 => ToMembers(q) = 0
  <2>1. IsFiniteSet(relayed) /\ relayed \subseteq PayType
    BY DEF PaymentsOk, JobsOk
  <2> HIDE DEF q
  <2> QED
    BY <1>3, <2>1, WaitingSum, MembersNat
<1>5. Payer = RpcThreads \cup {PoolWallet} /\ PoolWallet \notin RpcThreads
  BY PaymentsAssumption DEF Payer
<1>6. CASE relayed' = relayed /\ job' = [job EXCEPT ![p] = IdleJob]
  <2>1. /\ ChainOk' /\ JobsOk' /\ NamesOk' /\ PassOk'
        /\ job'[p].at = "idle" /\ \A r \in Payer : r # p => job'[r] = job[r]
    BY <1>1, <1>6, JobEnds
  <2>2. Unbooked' = Unbooked
    BY <1>1, <1>5, <2>1 DEF Unbooked
  <2>3. (received + Waiting(relayed) <= totalPaid + Unbooked)'
    BY <1>1, <1>6, <2>2 DEF PaymentsOk, BookOk, Waiting
  <2>4. BookOk'
    BY <1>1, <1>5, <2>1, <2>3 DEF PaymentsOk, BookOk
  <2> QED
    BY <1>2, <2>1, <2>4 DEF PaymentsOk
<1>7. CASE /\ relayed' = relayed \cup {q}
           /\ job' = [job EXCEPT ![p] = IF @.pay.kind = "send" THEN IdleJob
                                        ELSE [@ EXCEPT !.at = "book"]]
  <2> DEFINE new == IF q.kind = "send" THEN IdleJob ELSE [job[p] EXCEPT !.at = "book"]
  <2>1. /\ job'[p] = new /\ \A r \in Payer : r # p => job'[r] = job[r]
        /\ job' = [r \in Payer |-> job'[r]]
    BY <1>7 DEF PaymentsOk, JobsOk
  <2>2. /\ IsJob(new) /\ new.at # "submit"
        /\ q.kind = "send" => new.at = "idle"
        /\ q.kind # "send" => new.at = "book" /\ new.pay = q /\ new.dist = job[p].dist
    BY <1>3 DEF IsJob, IdleJob
  <2> HIDE DEF new
  <2>3. ChainOk'
    BY <1>1 DEF PaymentsOk, ChainOk
  <2>4. JobsOk'
    <3>1. \A r \in Payer : IsJob(job'[r])
      BY <2>1, <2>2 DEF PaymentsOk, JobsOk
    <3>2. IsFiniteSet(relayed \cup {q})
      BY FS_AddElement DEF PaymentsOk, JobsOk
    <3>3. relayed' \subseteq PayType
      BY <1>3, <1>7 DEF PaymentsOk, JobsOk
    <3> QED
      BY <1>7, <2>1, <3>1, <3>2, <3>3 DEF JobsOk, IsJob
  <2>5. Submitting' = Submitting \ {p} /\ \A r \in Submitting' : job'[r] = job[r]
    BY <2>1, <2>2 DEF Submitting
  <2>6. Live' \subseteq Live
    BY <1>3, <1>7, <2>5 DEF Live
  <2>7. NamesOk'
    <3>1. \A id : Past(id) => Past(id)'
      BY <1>1 DEF Past
    <3>2. \A op : KnownOp(op) => KnownOp(op)'
      BY <2>6, <3>1 DEF KnownOp
    <3>3. \A r \in Live' : Past(r.tx.id)'
      BY <2>6, <3>1 DEF PaymentsOk, NamesOk
    <3>4. \A r, t \in relayed' : r.tx.id = t.tx.id => r = t
      BY <1>3, <1>7 DEF PaymentsOk, NamesOk
    <3>5. \A r \in relayed', t \in Submitting' : r.tx.id # job'[t].pay.tx.id
      BY <1>3, <1>7, <2>5 DEF PaymentsOk, NamesOk
    <3>6. \A r, t \in Submitting' : job'[r].pay.tx.id = job'[t].pay.tx.id => r = t
      BY <2>5 DEF PaymentsOk, NamesOk
    <3>7. \A op \in DOMAIN ledger'.utxo : KnownOp(op)'
      BY <1>1, <3>2 DEF PaymentsOk, NamesOk
    <3>8. \A r \in Live' : \A op \in Spends(r.tx) : KnownOp(op)'
      BY <2>6, <3>2 DEF PaymentsOk, NamesOk
    <3> QED
      BY <3>3, <3>4, <3>5, <3>6, <3>7, <3>8 DEF NamesOk
  <2>8. PassOk'
    BY <1>1, <2>6 DEF PaymentsOk, PassOk
  <2>9. Waiting(relayed') <= Waiting(relayed) + ToMembers(q)
    <3>1. CASE q \in relayed
      <4>1. relayed \cup {q} = relayed
        BY <3>1
      <4>2. relayed' = relayed
        BY <4>1, <1>7
      <4> HIDE DEF q
      <4> QED
        BY <1>4, <4>2
    <3>2. CASE q \notin relayed
      <4> HIDE DEF q
      <4> QED
        BY <1>4, <1>7, <3>2
    <3> QED
      BY <3>1, <3>2
  <2>10. Waiting(relayed') \in Nat
    <3>1. IsFiniteSet(relayed') /\ relayed' \subseteq PayType
      BY <2>4 DEF JobsOk
    <3> HIDE DEF q
    <3> QED
      BY <1>3, <3>1, WaitingSum
  <2>11. received \in Nat /\ totalPaid \in Nat /\ received + Waiting(relayed) <= totalPaid + Unbooked
    BY DEF PaymentsOk, BookOk
  <2>12. CASE p = PoolWallet
    <3>1. q.kind = "payout" /\ ToMembers(q) <= AmountOf(job[p].dist)
      BY <1>1, <2>12 DEF PaymentsOk, BookOk
    <3>2. Unbooked' = AmountOf(job[p].dist) /\ Unbooked = 0
      BY <1>1, <2>1, <2>2, <2>12, <3>1 DEF Unbooked
    <3>3. AmountOf(job[p].dist) \in Nat
      BY <1>3, PartOfDist
    <3>4. received + Waiting(relayed') <= totalPaid + Unbooked'
      <4> HIDE DEF q
      <4> QED
        BY <1>4, <2>9, <2>10, <2>11, <3>1, <3>2, <3>3
    <3>5. (received + Waiting(relayed) <= totalPaid + Unbooked)'
      BY <1>1, <3>4
    <3>6. \A r \in RpcThreads : job'[r] = job[r]
      BY <1>5, <2>1, <2>12
    <3> QED
      BY <1>1, <1>2, <2>1, <2>2, <2>3, <2>4, <2>7, <2>8, <2>12, <3>1, <3>5, <3>6
         DEF PaymentsOk, BookOk
  <2>13. CASE p # PoolWallet
    <3>1. p \in RpcThreads /\ job'[PoolWallet] = job[PoolWallet]
      BY <1>5, <2>1, <2>13
    <3>2. q.members = 0 /\ Unbooked' = Unbooked
      BY <1>1, <3>1 DEF PaymentsOk, BookOk, Unbooked
    <3>3. received + Waiting(relayed') <= totalPaid + Unbooked
      <4> HIDE DEF q
      <4>1. Waiting(relayed') <= Waiting(relayed)
        BY <1>4, <2>9, <3>2
      <4>2. Unbooked \in Nat
        BY <1>1, PartOfDist DEF Unbooked, PaymentsOk, JobsOk, IsJob, Payer
      <4> QED
        BY <1>4, <2>10, <2>11, <4>1, <4>2
    <3>4. (received + Waiting(relayed) <= totalPaid + Unbooked)'
      BY <1>1, <3>2, <3>3
    <3>5. \A r \in RpcThreads : job'[r].at # "idle" => job'[r].pay.members = 0
      BY <1>5, <2>1, <2>2, <3>2 DEF PaymentsOk, BookOk, IsJob
    <3> QED
      BY <1>1, <1>2, <2>3, <2>4, <2>7, <2>8, <3>1, <3>4, <3>5 DEF PaymentsOk, BookOk
  <2> QED
    BY <2>12, <2>13
<1> QED
  BY <1>6, <1>7 DEF Submit

\* faucet_claims.insert keeps the invariant.
LEMMA BookClaimOk ==
  ASSUME PaymentsOk, NEW p \in RpcThreads, BookClaim(p)
  PROVE  PaymentsOk'
<1>1. /\ job[p].at = "book" /\ job' = [job EXCEPT ![p] = IdleJob]
      /\ UNCHANGED <<ledger, tipHeight, received, miners, totalPaid, due, mode, operator,
                     seen, checking, relayed, made>>
  BY DEF BookClaim, chainState, poolState, shareState
<1>2. p \in Payer /\ p # PoolWallet /\ PoolWallet \in Payer /\ RpcThreads \subseteq Payer
  BY PaymentsAssumption DEF Payer
<1>3. /\ ChainOk' /\ JobsOk' /\ NamesOk' /\ PassOk'
      /\ job'[p].at = "idle" /\ \A r \in Payer : r # p => job'[r] = job[r]
  BY <1>1, <1>2, JobEnds
<1>4. MinersOk'
  BY <1>1 DEF PaymentsOk, MinersOk, MembersOk
<1>5. Unbooked' = Unbooked /\ job'[PoolWallet] = job[PoolWallet]
  BY <1>2, <1>3 DEF Unbooked
<1>6. (received + Waiting(relayed) <= totalPaid + Unbooked)'
  BY <1>1, <1>5 DEF PaymentsOk, BookOk, Waiting
<1>7. BookOk'
  BY <1>1, <1>2, <1>3, <1>5, <1>6 DEF PaymentsOk, BookOk
<1> QED
  BY <1>3, <1>4, <1>7 DEF PaymentsOk

\* apply_payout keeps the invariant: it books what was submitted.
LEMMA ApplyPayoutOk ==
  ASSUME PaymentsOk, ApplyPayout
  PROVE  PaymentsOk'
<1> DEFINE dist == job[PoolWallet].dist
           credit(m) == AmountOf({d \in dist : d.to = m})
<1>1. /\ job[PoolWallet].at = "book" /\ job' = [job EXCEPT ![PoolWallet] = IdleJob]
      /\ totalPaid' = totalPaid + AmountOf(dist)
      /\ miners' = [m \in DOMAIN miners |->
                      [miners[m] EXCEPT !.paid = @ + credit(m), !.shares = 0]]
      /\ UNCHANGED <<ledger, tipHeight, received, relayed, operator, seen, checking, made>>
  BY DEF ApplyPayout, Booked, chainState, shareState
<1>2. PoolWallet \in Payer /\ PoolWallet \notin RpcThreads /\ RpcThreads \subseteq Payer
  BY PaymentsAssumption DEF Payer
<1>3. /\ ChainOk' /\ JobsOk' /\ NamesOk' /\ PassOk'
      /\ job'[PoolWallet].at = "idle" /\ \A r \in Payer : r # PoolWallet => job'[r] = job[r]
  BY <1>1, <1>2, JobEnds
<1>4. IsDist(dist)
  BY <1>1, <1>2 DEF PaymentsOk, JobsOk, IsJob
<1>5. AmountOf(dist) \in Nat /\ \A m : credit(m) \in Nat
  <2> HIDE DEF dist
  <2> QED
    BY <1>4, PartOfDist
<1>6. MinersOk'
  <2> HIDE DEF credit, dist
  <2>1. ASSUME NEW m \in DOMAIN miners
        PROVE  [miners[m] EXCEPT !.paid = @ + credit(m), !.shares = 0] \in MinerType
    <3>1. miners[m] \in MinerType
      BY DEF PaymentsOk, MinersOk, MembersOk
    <3> DEFINE c == credit(m)
    <3>2. c \in Nat
      BY <1>5
    <3> HIDE DEF c
    <3>3. \A x \in MinerType, y \in Nat :
            [x EXCEPT !.paid = @ + y, !.shares = 0] \in MinerType
      <4>1. TAKE x \in MinerType, y \in Nat
      <4>2. x.shares \in Nat /\ x.paid \in Nat /\ x.online \in BOOLEAN
            /\ x = [shares |-> x.shares, paid |-> x.paid, online |-> x.online]
        BY DEF MinerType
      <4> DEFINE z == [x EXCEPT !.paid = x.paid + y]
      <4>3. z = [shares |-> x.shares, paid |-> x.paid + y, online |-> x.online]
        BY <4>2
      <4>4. [x EXCEPT !.paid = @ + y, !.shares = 0] = [z EXCEPT !.shares = 0]
        OBVIOUS
      <4> HIDE DEF z
      <4>5. [z EXCEPT !.shares = 0] = [shares |-> 0, paid |-> x.paid + y, online |-> x.online]
        BY <4>3
      <4>6. x.paid + y \in Nat
        BY <4>2
      <4> QED
        BY <4>2, <4>4, <4>5, <4>6 DEF MinerType
    <3>4. [miners[m] EXCEPT !.paid = @ + c, !.shares = 0] \in MinerType
      BY <3>1, <3>2, <3>3
    <3> QED
      BY <3>4 DEF c
  <2>2. DOMAIN miners' = DOMAIN miners /\ \A m \in DOMAIN miners : miners'[m] \in MinerType
    BY <1>1, <2>1
  <2> QED
    BY <1>1, <2>2 DEF PaymentsOk, MinersOk, MembersOk
<1>7. Unbooked' = 0 /\ Unbooked = AmountOf(dist)
  BY <1>1, <1>3 DEF Unbooked
<1>8. (received + Waiting(relayed) <= totalPaid + Unbooked)' /\ totalPaid' \in Nat
  <2> HIDE DEF dist
  <2>1. totalPaid \in Nat /\ received + Waiting(relayed) <= totalPaid + Unbooked
    BY DEF PaymentsOk, BookOk
  <2>2. Waiting(relayed)' = Waiting(relayed) /\ received' = received
    BY <1>1 DEF Waiting
  <2>3. totalPaid' + 0 = totalPaid + AmountOf(dist) /\ totalPaid' \in Nat
    <3>1. totalPaid' = totalPaid + AmountOf(dist) /\ AmountOf(dist) \in Nat
      BY <1>1, <1>5
    <3> QED
      BY <2>1, <3>1
  <2>4. received' + Waiting(relayed)' <= totalPaid' + Unbooked'
    BY <1>7, <2>1, <2>2, <2>3
  <2> QED
    BY <2>3, <2>4
<1>9. BookOk'
  BY <1>1, <1>2, <1>3, <1>8 DEF PaymentsOk, BookOk
<1> QED
  BY <1>3, <1>6, <1>9 DEF PaymentsOk

\* A payment leaves the mempool, unpaid: the invariant is kept.
LEMMA EvictOk ==
  ASSUME PaymentsOk, NEW q \in relayed, Evict(q)
  PROVE  PaymentsOk'
<1>1. /\ relayed' = relayed \ {q}
      /\ UNCHANGED <<ledger, tipHeight, received, job, miners, totalPaid, operator, seen,
                     checking, made>>
  BY DEF Evict, chainState, poolState, shareState
<1>2. ChainOk' /\ MinersOk'
  BY <1>1 DEF PaymentsOk, ChainOk, MinersOk, MembersOk
<1>3. IsFiniteSet(relayed) /\ relayed \subseteq PayType /\ q \in PayType /\ IsFiniteSet(relayed \ {q})
  BY FS_Subset DEF PaymentsOk, JobsOk
<1>4. JobsOk'
  BY <1>1, <1>3 DEF PaymentsOk, JobsOk, IsJob
<1>5. Submitting' = Submitting /\ Live' \subseteq Live
  BY <1>1 DEF Submitting, Live
<1>6. NamesOk'
  <2>1. \A id : Past(id) => Past(id)'
    BY <1>1 DEF Past
  <2>2. \A op : KnownOp(op) => KnownOp(op)'
    BY <1>5, <2>1 DEF KnownOp
  <2> QED
    BY <1>1, <1>5, <2>1, <2>2 DEF PaymentsOk, NamesOk
<1>7. PassOk'
  BY <1>1, <1>5 DEF PaymentsOk, PassOk
<1>8. BookOk'
  <2>1. Waiting(relayed) = ToMembers(q) + Waiting(relayed \ {q}) /\ Waiting(relayed) \in Nat
        /\ Waiting(relayed \ {q}) \in Nat /\ ToMembers(q) \in Nat
    BY <1>3, WaitingSum, MembersNat
  <2>2. Unbooked' = Unbooked /\ Unbooked \in Nat
    BY <1>1, PartOfDist DEF Unbooked, PaymentsOk, JobsOk, IsJob, Payer
  <2>3. received \in Nat /\ totalPaid \in Nat /\ received + Waiting(relayed) <= totalPaid + Unbooked
    BY DEF PaymentsOk, BookOk
  <2>4. received + Waiting(relayed \ {q}) <= totalPaid + Unbooked
    BY <2>1, <2>2, <2>3
  <2>5. (received + Waiting(relayed) <= totalPaid + Unbooked)'
    BY <1>1, <2>2, <2>4
  <2> QED
    BY <1>1, <2>5 DEF PaymentsOk, BookOk
<1> QED
  BY <1>2, <1>4, <1>6, <1>7, <1>8 DEF PaymentsOk

----------------------------------------------------------------------------
(* Payments: blocks                                                        *)

\* A transaction leaves of the UTXO set what it does not spend, as it was.
LEMMA ApplyKeeps ==
  ASSUME NEW led \in LedgerType, NEW tx \in TxType, NEW height \in Nat
  PROVE  LET after == ApplyTransaction(led, tx, height).led.utxo
         IN  \A op \in DOMAIN after :
               \/ op \in OutPoints(tx)
               \/ op \in DOMAIN led.utxo /\ after[op] = led.utxo[op]
<1> DEFINE u == led.utxo
           r == ApplyTransaction(led, tx, height)
           ops == TakenOps(tx, Taken(u, tx))
           rest == Without(u, ops)
           new == Entries(tx, height)
<1>1. u \in UtxoType
  BY DEF LedgerType
<1>2. /\ r.ok => r.led = [utxo |-> Over(new, rest), burned |-> led.burned + TotalBurn(tx)]
      /\ ~r.ok => r.led = [utxo |-> rest, burned |-> led.burned]
  BY ApplyType
<1>3. new \in UtxoType /\ DOMAIN new = OutPoints(tx)
  BY EntriesType
<1> HIDE DEF u, ops, new
<1>4. /\ rest \in UtxoType /\ DOMAIN rest \subseteq DOMAIN u
      /\ \A op \in DOMAIN rest : rest[op] = u[op]
  BY <1>1, WithoutType
<1> HIDE DEF rest, r
<1>5. /\ DOMAIN Over(new, rest) = DOMAIN new \cup DOMAIN rest
      /\ \A op \in DOMAIN rest \ DOMAIN new : Over(new, rest)[op] = rest[op]
  BY <1>3, <1>4, OverType
<1>6. CASE r.ok
  <2>1. r.led.utxo = Over(new, rest)
    BY <1>2, <1>6
  <2> QED
    BY <1>3, <1>4, <1>5, <2>1 DEF r, u
<1>7. CASE ~r.ok
  <2>1. r.led.utxo = rest
    BY <1>2, <1>7
  <2> QED
    BY <1>4, <2>1 DEF r, u
<1> QED
  BY <1>6, <1>7

\* A block adds outputs of its transactions and changes no other entry,
\* whether all of it is applied or not.
LEMMA BlockKeeps ==
  ASSUME NEW led \in LedgerType, NEW block, IsBlock(block)
  PROVE  LET after == ApplyBlock(led, block).led
         IN  /\ after \in LedgerType
             /\ \A op \in DOMAIN after.utxo :
                  \/ \E i \in DOMAIN block.txs : op \in OutPoints(block.txs[i])
                  \/ op \in DOMAIN led.utxo /\ after.utxo[op] = led.utxo[op]
<1> DEFINE n == Len(block.txs)
<1>1. PICK a : IsBlockRun(led, block, a) /\ ApplyBlock(led, block) = a[Len(block.txs)]
  BY BlockRunExists
<1>2. /\ n \in Nat /\ DOMAIN block.txs = 1..n /\ block.score \in Nat
      /\ a[0].led = led
      /\ \A k \in 0..n : a[k].led \in LedgerType /\ a[k].led.utxo \in UtxoType
      /\ \A k \in 1..n : block.txs[k] \in TxType /\ k - 1 \in 0..n
  BY <1>1, RunTypes
<1> DEFINE Good(l) == \A op \in DOMAIN l.utxo :
                        \/ \E i \in 1..n : op \in OutPoints(block.txs[i])
                        \/ op \in DOMAIN led.utxo /\ l.utxo[op] = led.utxo[op]
           T == {k \in Nat : k <= n => Good(a[k].led)}
<1>9. /\ \A m \in 1..n : a[m] = ApplyNext(a[m - 1], block.txs[m], block.score)
      /\ \A m \in 0..n : a[m].ok \in BOOLEAN
  <2>1. IsBlockRun(led, block, a)
    BY <1>1
  <2>2. \A m \in 0..n : a[m] \in AppliedType
    BY ONLY <2>1 DEF IsBlockRun
  <2>3. \A m \in 1..n : a[m] = ApplyNext(a[m - 1], block.txs[m], block.score)
    BY ONLY <2>1 DEF IsBlockRun
  <2> QED
    BY <2>2, <2>3 DEF AppliedType
<1>3. 0 \in T
  BY <1>2
<1>4. ASSUME NEW k \in Nat, k \in T PROVE k + 1 \in T
  <2>1. SUFFICES ASSUME k + 1 <= n PROVE Good(a[k + 1].led)
    OBVIOUS
  <2>2. k \in 0..n /\ k + 1 \in 1..n /\ (k + 1) - 1 = k /\ Good(a[k].led)
    BY <1>2, <1>4, <2>1
  <2> DEFINE tx == block.txs[k + 1]
             l == a[k].led
             r == ApplyTransaction(l, tx, block.score)
  <2>3. a[k + 1] = ApplyNext(a[k], tx, block.score)
    <3>1. \A m \in 1..n : a[m] = ApplyNext(a[m - 1], block.txs[m], block.score)
      BY <1>9
    <3> QED
      BY <2>2, <3>1
  <2>4. l \in LedgerType /\ tx \in TxType
    BY <1>2, <2>2
  <2> HIDE DEF Good
  <2>5. CASE ~a[k].ok
    BY <2>2, <2>3, <2>5 DEF ApplyNext
  <2>6. CASE a[k].ok
    <3>1. a[k + 1].led = r.led
      BY <2>3, <2>6 DEF ApplyNext, AfterTransaction
    <3> HIDE DEF l, tx
    <3>2. \A op \in DOMAIN r.led.utxo :
            \/ op \in OutPoints(tx)
            \/ op \in DOMAIN l.utxo /\ r.led.utxo[op] = l.utxo[op]
      BY <1>2, <2>4, ApplyKeeps
    <3> HIDE DEF r
    <3>3. Good(r.led)
      BY <2>2, <3>2 DEF Good, l, tx
    <3> QED
      BY <3>1, <3>3
  <2>7. a[k].ok \in BOOLEAN
    BY <1>9, <2>2
  <2> QED
    BY <2>5, <2>6, <2>7
<1> HIDE DEF T, Good
<1>5. Nat \subseteq T
  BY <1>3, <1>4, SetInduction
<1>6. n \in T /\ n \in 0..n
  BY <1>2, <1>5
<1>7. Good(a[n].led) /\ a[n].led \in LedgerType
  BY <1>2, <1>6 DEF T
<1>8. ApplyBlock(led, block).led = a[n].led
  BY <1>1
<1> QED
  BY <1>2, <1>7, <1>8 DEF Good

\* A payment that passes does so later, as long as its coins stay or go.
LEMMA PassesLater ==
  ASSUME NEW q \in PayType, NEW led \in LedgerType, NEW l2, NEW h \in Nat, Passes(q, led, h),
         \A op \in Spends(q.tx) : op \in DOMAIN l2.utxo =>
           op \in DOMAIN led.utxo /\ l2.utxo[op] = led.utxo[op]
  PROVE  Passes(q, l2, h + 1)
<1> DEFINE D == DOMAIN q.tx.inputs
           at(i) == q.tx.inputs[i].op
<1>1. \A i \in D : at(i) \in Spends(q.tx)
  BY DEF Spends
<1>2. \A op \in DOMAIN led.utxo : led.utxo[op] \in EntryType
  BY UtxoElim DEF LedgerType
<1>3. \A e \in EntryType : Mature(e, h) => Mature(e, h + 1)
  BY MaturityAssumption DEF Mature, EntryType
<1>4. ASSUME NEW i \in D, at(i) \in DOMAIN l2.utxo
      PROVE  l2.utxo[at(i)].owner = q.tx.inputs[i].key /\ Mature(l2.utxo[at(i)], h + 1)
  <2>1. at(i) \in DOMAIN led.utxo /\ l2.utxo[at(i)] = led.utxo[at(i)]
    BY <1>1, <1>4
  <2>2. led.utxo[at(i)].owner = q.tx.inputs[i].key /\ Mature(led.utxo[at(i)], h)
    BY <2>1, SMTT(30) DEF Passes
  <2> QED
    BY <1>2, <1>3, <2>1, <2>2
<1>5. ASSUME Spends(q.tx) \subseteq DOMAIN l2.utxo
      PROVE  Spends(q.tx) \subseteq DOMAIN led.utxo /\ InputSum(l2, q.tx) = InputSum(led, q.tx)
  <2>1. \A i \in D : l2.utxo[at(i)] = led.utxo[at(i)]
    BY <1>1, <1>5
  <2>2. [i \in D |-> l2.utxo[at(i)].amount] = [i \in D |-> led.utxo[at(i)].amount]
    BY <2>1
  <2> QED
    BY <1>5, <2>2 DEF InputSum
<1> QED
  BY <1>4, <1>5 DEF Passes

\* A member that joins or works is one.
LEMMA WithMinerOk ==
  ASSUME MembersOk, NEW m \in Owners, NEW record \in MinerType,
         miners' = WithMiner(m, record)
  PROVE  MembersOk'
<1>1. DOMAIN miners' = DOMAIN miners \cup {m}
  BY DEF WithMiner
<1>2. IsFiniteSet(DOMAIN miners \cup {m})
  BY FS_AddElement DEF MembersOk
<1>3. \A n \in DOMAIN miners' : miners'[n] \in MinerType
  BY <1>1 DEF WithMiner, MembersOk
<1> QED
  BY <1>1, <1>2, <1>3 DEF MembersOk

\* Work is credited to a member.
LEMMA CreditWorkOk ==
  ASSUME MembersOk, NEW m \in Owners, NEW work \in Nat,
         miners' = CreditWork(m, work)
  PROVE  MembersOk'
<1> DEFINE x == Miner(m)
           record == [x EXCEPT !.shares = @ + work, !.online = TRUE]
<1>1. x \in MinerType
  BY DEF Miner, NewMiner, MembersOk, MinerType
<1> HIDE DEF x
<1>2. record \in MinerType
  <2>1. /\ x.shares \in Nat /\ x.paid \in Nat /\ x.online \in BOOLEAN
        /\ x = [shares |-> x.shares, paid |-> x.paid, online |-> x.online]
    BY <1>1 DEF MinerType
  <2> DEFINE z == [x EXCEPT !.shares = x.shares + work]
  <2>2. z = [shares |-> x.shares + work, paid |-> x.paid, online |-> x.online]
    BY <2>1
  <2>3. record = [z EXCEPT !.online = TRUE]
    OBVIOUS
  <2> HIDE DEF z, record
  <2>4. x.shares + work \in Nat
    BY <2>1
  <2>5. z \in MinerType
    BY <2>1, <2>2, <2>4 DEF MinerType
  <2>6. [z EXCEPT !.online = TRUE] \in MinerType
    BY <2>5 DEF MinerType
  <2> QED
    BY <2>3, <2>6
<1>3. miners' = WithMiner(m, record)
  BY DEF CreditWork, x
<1> HIDE DEF record
<1> QED
  BY <1>2, <1>3, WithMinerOk

\* The block that the worker assembles.
NextBlock(owner, pays) ==
  [txs |-> <<CoinbaseTx(<<"c", tipHeight + 1>>, owner, BlockReward(Schedule, tipHeight + 1))>>
             \o SetToSeq({q.tx : q \in pays}),
   score |-> tipHeight + 1]

\* Its transactions are a coinbase and the payments.
LEMMA WorkerBlock ==
  ASSUME NamesFit, ChainOk, NEW owner \in Owners, NEW pays, IsFiniteSet(pays),
         pays \subseteq PayType
  PROVE  LET block == NextBlock(owner, pays)
         IN  /\ IsBlock(block)
             /\ \A i \in DOMAIN block.txs :
                  \/ block.txs[i].id = <<"c", tipHeight + 1>>
                  \/ \E q \in pays : block.txs[i] = q.tx
<1> DEFINE h == tipHeight + 1
           reward == BlockReward(Schedule, h)
           id == <<"c", h>>
           coinbase == CoinbaseTx(id, owner, reward)
           b == [q \in pays |-> q.tx]
           S == {b[q] : q \in pays}
           s == SetToSeq(S)
           txs == <<coinbase>> \o s
           block == [txs |-> txs, score |-> h]
<1>1. h \in Nat
  BY DEF ChainOk
<1>2. reward \in Nat
  <2>1. Schedule \in Scheds
    BY ScheduleAssumption DEF Scheds
  <2> HIDE DEF h
  <2> QED
    BY <1>1, <2>1, RewardIsGrowth
<1>3. coinbase \in TxType /\ coinbase.id = id
  <2>1. id \in TxIds
    BY <1>1 DEF NamesFit
  <2> DEFINE o == [burn |-> FALSE, owner |-> owner, amount |-> reward]
  <2>2. o \in OutputType
    BY <1>2 DEF OutputType
  <2>3. coinbase = [id |-> id, coinbase |-> TRUE, signed |-> TRUE, inputs |-> <<>>, outputs |-> <<o>>]
    BY DEF CoinbaseTx
  <2> HIDE DEF o, id, coinbase
  <2>4. <<o>> \in Seq(OutputType) /\ <<>> \in Seq(InputType)
    BY <2>2
  <2> QED
    BY <2>1, <2>3, <2>4 DEF TxType
<1>4. IsFiniteSet(S)
  <2> HIDE DEF b
  <2> QED
    BY FiniteImage
<1>5. S = {q.tx : q \in pays} /\ S \subseteq TxType
  BY DEF PayType
<1>6. s \in Seq(S)
  <2> HIDE DEF S
  <2> QED
    BY <1>4, Listed
<1> HIDE DEF coinbase, s, id
<1>7. s \in Seq(TxType) /\ \A i \in 1..Len(s) : s[i] \in S
  BY <1>5, <1>6
<1>8. txs \in Seq(TxType) /\ \A i \in DOMAIN txs : txs[i] = coinbase \/ txs[i] \in S
  <2>1. <<coinbase>> \in Seq(TxType) /\ Len(<<coinbase>>) = 1 /\ Len(s) \in Nat
    BY <1>3, <1>7
  <2>2. txs \in Seq(TxType) /\ DOMAIN txs = 1..(1 + Len(s))
    BY <1>7, <2>1
  <2>3. ASSUME NEW i \in 1..(1 + Len(s)) PROVE txs[i] = coinbase \/ txs[i] \in S
    <3>1. CASE i = 1
      BY <2>1, <3>1
    <3>2. CASE i # 1
      <4>1. i - 1 \in 1..Len(s) /\ txs[i] = s[i - 1]
        BY <2>1, <3>2, <1>7
      <4> HIDE DEF S
      <4> QED
        BY <1>7, <4>1
    <3> QED
      BY <3>1, <3>2
  <2> QED
    BY <2>2, <2>3
<1> HIDE DEF txs
<1>9. block.txs = txs /\ block.score = h
  OBVIOUS
<1>10. IsBlock(block)
  BY <1>1, <1>8, <1>9 DEF IsBlock
<1>11. \A i \in DOMAIN txs : txs[i].id = id \/ \E q \in pays : txs[i] = q.tx
  BY <1>3, <1>5, <1>8
<1> QED
  <2>1. SetToSeq({q.tx : q \in pays}) = s
    <3> HIDE DEF S
    <3> QED
      BY <1>5, Zenon DEF s
  <2>2. block = NextBlock(owner, pays)
    BY <2>1, Zenon DEF NextBlock, txs, coinbase, id
  <2> HIDE DEF block
  <2>3. /\ IsBlock(block)
        /\ \A i \in DOMAIN block.txs : block.txs[i].id = <<"c", tipHeight + 1>>
                                       \/ \E q \in pays : block.txs[i] = q.tx
    BY <1>9, <1>10, <1>11 DEF id
  <2> QED
    BY <2>2, <2>3

\* A block with payments of the mempool keeps the invariant.
LEMMA BlockOk ==
  ASSUME NamesFit, PaymentsOk, NEW owner \in {PoolWallet, FaucetWallet},
         NEW tag \in PoolMembers \cup {NoOperator},
         NEW pays \in {{}} \cup {{q} : q \in relayed}, Block(owner, tag, pays)
  PROVE  PaymentsOk'
<1> DEFINE h == tipHeight + 1
           block == NextBlock(owner, pays)
           cid == <<"c", h>>
<1>1. /\ tipHeight' = h /\ ledger' = ApplyBlock(ledger, block).led
      /\ relayed' = relayed \ pays /\ received' = received + Waiting(pays)
      /\ \/ miners' = CreditWork(tag, BLOCK_SHARES) /\ tag \in PoolMembers
         \/ UNCHANGED miners
      /\ UNCHANGED <<job, totalPaid, operator, checking, made>>
  <2>1. Waiting(pays) = SumFunction([q \in pays |-> ToMembers(q)])
    BY DEF Waiting, SumFunction
  <2>2. block = [txs |-> <<CoinbaseTx(cid, owner, BlockReward(Schedule, h))>>
                           \o SetToSeq({q.tx : q \in pays}), score |-> h]
    BY DEF NextBlock
  <2> QED
    BY <2>1, <2>2 DEF Block, shareState
<1>2. /\ ledger \in LedgerType /\ tipHeight \in Nat /\ made \in Nat /\ ChainOk
      /\ IsFiniteSet(relayed) /\ relayed \subseteq PayType /\ owner \in Owners
  BY DEF PaymentsOk, ChainOk, JobsOk, NamesFit
<1>3. pays \subseteq relayed /\ IsFiniteSet(pays) /\ pays \subseteq PayType
  BY <1>2, FS_Subset
<1>4. /\ IsBlock(block)
      /\ \A i \in DOMAIN block.txs : block.txs[i].id = cid \/ \E q \in pays : block.txs[i] = q.tx
  BY ONLY NamesFit, <1>2, <1>3, WorkerBlock
<1> HIDE DEF block
<1>5. /\ ledger' \in LedgerType
      /\ \A op \in DOMAIN ledger'.utxo :
           \/ \E i \in DOMAIN block.txs : op \in OutPoints(block.txs[i])
           \/ op \in DOMAIN ledger.utxo /\ ledger'.utxo[op] = ledger.utxo[op]
  BY <1>1, <1>2, <1>4, BlockKeeps
<1>6. ASSUME NEW op \in DOMAIN ledger'.utxo
      PROVE  \/ op[1] = cid
             \/ \E q \in pays : op[1] = q.tx.id
             \/ op \in DOMAIN ledger.utxo /\ ledger'.utxo[op] = ledger.utxo[op]
  <2>1. ASSUME NEW i \in DOMAIN block.txs, op \in OutPoints(block.txs[i])
        PROVE  op[1] = cid \/ \E q \in pays : op[1] = q.tx.id
    <3>1. op[1] = block.txs[i].id
      BY <2>1 DEF OutPoints
    <3> QED
      BY <1>4, <3>1
  <2> QED
    BY <1>5, <2>1
<1>7. ChainOk'
  BY <1>1, <1>2, <1>5 DEF ChainOk
<1>8. JobsOk'
  <2>1. IsFiniteSet(relayed \ pays)
    BY <1>2, FS_Subset
  <2> QED
    BY <1>1, <1>2, <2>1 DEF PaymentsOk, JobsOk, IsJob
<1>9. Submitting' = Submitting /\ Live' \subseteq Live /\ pays \subseteq Live
  BY <1>1, <1>3 DEF Submitting, Live
<1>10. \A id : Past(id) => Past(id)' /\ id # cid
  BY <1>1, <1>2 DEF Past
<1>11. ASSUME NEW id, id = cid PROVE Past(id)'
  <2>1. tipHeight' = h /\ id[1] = "c" /\ id[2] = h
    BY <1>1, <1>11
  <2>2. ASSUME NEW n \in Nat PROVE id # <<"p", n>> /\ (n > h => id # <<"c", n>>)
    <3>1. <<"p", n>>[1] = "p" /\ <<"c", n>>[2] = n
      OBVIOUS
    <3>2. n > h => n # h
      BY <1>2
    <3> HIDE DEF cid, h
    <3> QED
      BY <2>1, <3>1, <3>2
  <2> HIDE DEF cid, h
  <2> QED
    BY <2>1, <2>2 DEF Past
<1>12. \A r \in Live', q \in pays : r.tx.id # q.tx.id
  <2>1. TAKE r \in Live', q \in pays
  <2>2. CASE r \in relayed \ pays
    BY <1>3, <2>2 DEF PaymentsOk, NamesOk
  <2>3. ASSUME NEW t \in Submitting, r = job[t].pay PROVE r.tx.id # q.tx.id
    BY <1>3, <2>3 DEF PaymentsOk, NamesOk
  <2>4. r \in relayed \ pays \/ \E t \in Submitting : r = job[t].pay
    BY <1>1, <1>9 DEF Live
  <2> QED
    BY <2>2, <2>3, <2>4
<1>13. \A op : KnownOp(op) => KnownOp(op)' /\ op[1] # cid /\ \A q \in pays : op[1] # q.tx.id
  BY <1>9, <1>10 DEF KnownOp
<1>14. \A r \in Live : Past(r.tx.id) /\ \A op \in Spends(r.tx) : KnownOp(op)
  BY DEF PaymentsOk, NamesOk
<1>15. NamesOk'
  <2>1. \A r \in Live' : Past(r.tx.id)'
    BY <1>9, <1>10, <1>14
  <2>2. \A r \in Live' : \A op \in Spends(r.tx) : KnownOp(op)'
    BY <1>9, <1>13, <1>14
  <2>3. ASSUME NEW op \in DOMAIN ledger'.utxo PROVE KnownOp(op)'
    <3>1. CASE op[1] = cid
      <4> HIDE DEF cid
      <4>1. Past(op[1])'
        BY <1>11, <3>1
      <4>2. \A r \in Live' : op[1] # r.tx.id
        BY <1>9, <1>10, <1>14, <3>1
      <4> QED
        BY <4>1, <4>2 DEF KnownOp
    <3>2. ASSUME NEW q \in pays, op[1] = q.tx.id PROVE KnownOp(op)'
      BY <1>9, <1>10, <1>12, <1>14, <3>2 DEF KnownOp
    <3>3. CASE op \in DOMAIN ledger.utxo
      BY <1>13, <3>3 DEF PaymentsOk, NamesOk
    <3> QED
      BY <1>6, <3>1, <3>2, <3>3
  <2>4. /\ \A q, r \in relayed' : q.tx.id = r.tx.id => q = r
        /\ \A q \in relayed', p \in Submitting' : q.tx.id # job'[p].pay.tx.id
        /\ \A p, q \in Submitting' : job'[p].pay.tx.id = job'[q].pay.tx.id => p = q
    BY <1>1, <1>9 DEF PaymentsOk, NamesOk
  <2> QED
    BY <2>1, <2>2, <2>3, <2>4 DEF NamesOk
<1>16. Live \subseteq PayType
  BY DEF Live, Submitting, PaymentsOk, JobsOk, IsJob
<1>17. PassOk'
  <2>1. ASSUME NEW r \in Live' PROVE Passes(r, ledger', h)
    <3>1. r \in Live /\ r \in PayType /\ Passes(r, ledger, tipHeight)
      BY <1>9, <1>16 DEF PaymentsOk, PassOk
    <3>2. \A op \in Spends(r.tx) : op \in DOMAIN ledger'.utxo =>
            op \in DOMAIN ledger.utxo /\ ledger'.utxo[op] = ledger.utxo[op]
      BY <1>6, <1>13, <1>14, <3>1
    <3> QED
      BY <1>2, <3>1, <3>2, PassesLater
  <2> QED
    BY <1>1, <2>1 DEF PassOk
<1>18. MinersOk'
  <2>1. MembersOk /\ BLOCK_SHARES \in Nat /\ PoolMembers \subseteq Owners
    BY PaymentsAssumption DEF PaymentsOk, MinersOk, NamesFit
  <2>2. CASE miners' = CreditWork(tag, BLOCK_SHARES) /\ tag \in PoolMembers
    <3>1. MembersOk'
      BY <2>1, <2>2, CreditWorkOk
    <3> QED
      BY <1>1, <3>1 DEF PaymentsOk, MinersOk
  <2>3. CASE UNCHANGED miners
    BY <1>1, <2>3 DEF PaymentsOk, MinersOk, MembersOk
  <2> QED
    BY <1>1, <2>2, <2>3
<1>19. Waiting(relayed) = Waiting(pays) + Waiting(relayed \ pays) /\ Waiting(pays) \in Nat
  <2>1. IsFiniteSet({}) /\ Waiting({}) = 0
    BY FS_EmptySet, SumEmpty DEF Waiting
  <2>2. CASE pays = {}
    <3>1. relayed \ pays = relayed /\ Waiting(relayed) = 0 + Waiting(relayed)
      <4>1. ASSUME relayed = {} PROVE Waiting(relayed) = 0
        BY <2>1, <4>1
      <4>2. ASSUME NEW q \in relayed PROVE Waiting(relayed) \in Nat
        BY <1>2, WaitingSum
      <4> QED
        BY <2>2, <4>1, <4>2
    <3> QED
      BY <2>1, <2>2, <3>1
  <2>3. ASSUME NEW q \in relayed, pays = {q}
        PROVE  Waiting(relayed) = Waiting(pays) + Waiting(relayed \ pays) /\ Waiting(pays) \in Nat
    <3>1. q \in PayType
      BY <1>2
    <3>2. Waiting(relayed) = ToMembers(q) + Waiting(relayed \ {q})
      BY <1>2, <3>1, WaitingSum
    <3>3. {} \subseteq PayType /\ q \notin {} /\ {} \cup {q} = {q}
      OBVIOUS
    <3>4. Waiting({} \cup {q}) = ToMembers(q) + Waiting({})
      BY <2>1, <3>1, <3>3, WaitingSum
    <3>5. ToMembers(q) \in Nat
      BY <3>1, MembersNat
    <3>6. Waiting({q}) = ToMembers(q)
      BY <2>1, <3>3, <3>4, <3>5
    <3> QED
      BY <2>3, <3>2, <3>5, <3>6
  <2> QED
    BY <2>2, <2>3
<1>20. BookOk'
  <2>1. received \in Nat /\ totalPaid \in Nat /\ received + Waiting(relayed) <= totalPaid + Unbooked
    BY DEF PaymentsOk, BookOk
  <2>2. Unbooked' = Unbooked
    BY <1>1 DEF Unbooked
  <2>3. received' \in Nat
    BY <1>1, <1>19, <2>1
  <2>4. Waiting(relayed \ pays) \in Nat
    <3>1. IsFiniteSet(relayed \ pays) /\ relayed \ pays \subseteq PayType
      BY <1>2, FS_Subset
    <3>2. ASSUME relayed = {} PROVE Waiting(relayed \ pays) \in Nat
      <4>1. relayed \ pays = {}
        BY <3>2
      <4>2. Waiting({}) = 0
        BY SumEmpty DEF Waiting
      <4> QED
        BY <4>1, <4>2
    <3>3. ASSUME NEW q \in relayed PROVE Waiting(relayed \ pays) \in Nat
      <4> DEFINE R == relayed \ pays
      <4>1. IsFiniteSet(R) /\ R \subseteq PayType /\ q \in PayType
        BY <1>2, <3>1
      <4> HIDE DEF R
      <4>2. Waiting(R) \in Nat
        BY <4>1, WaitingSum
      <4> QED
        BY <4>2 DEF R
    <3> QED
      BY <3>2, <3>3
  <2>5. (received + Waiting(pays)) + Waiting(relayed \ pays) <= totalPaid + Unbooked
    BY <1>19, <2>1, <2>4
  <2>6. received' + Waiting(relayed') <= totalPaid + Unbooked
    BY <1>1, <2>5
  <2>7. (received + Waiting(relayed) <= totalPaid + Unbooked)'
    BY <1>1, <2>2, <2>6
  <2> QED
    BY <1>1, <2>3, <2>7 DEF PaymentsOk, BookOk
<1> QED
  BY <1>7, <1>8, <1>15, <1>17, <1>18, <1>20 DEF PaymentsOk

----------------------------------------------------------------------------
(* Payments: the pool's members, and the whole                             *)

\* What the payments of a state say depends on these variables.
moneyVars == <<ledger, tipHeight, relayed, job, made, received, totalPaid>>

\* A step that moves no money keeps what the invariant says of payments.
LEMMA NoMoneyMoves ==
  ASSUME PaymentsOk, UNCHANGED moneyVars, MinersOk'
  PROVE  PaymentsOk'
<1>1. UNCHANGED <<ledger, tipHeight, relayed, job, made, received, totalPaid>>
  BY DEF moneyVars
<1>2. ChainOk' /\ JobsOk'
  BY <1>1 DEF PaymentsOk, ChainOk, JobsOk
<1>3. Submitting' = Submitting /\ Live' = Live
  BY <1>1 DEF Submitting, Live
<1>4. \A id : Past(id)' <=> Past(id)
  BY <1>1 DEF Past
<1>5. \A op : KnownOp(op)' <=> KnownOp(op)
  BY <1>3, <1>4 DEF KnownOp
<1>6. NamesOk'
  <2>1. \A q \in Live' : Past(q.tx.id)' /\ \A op \in Spends(q.tx) : KnownOp(op)'
    BY <1>3, <1>4, <1>5 DEF PaymentsOk, NamesOk
  <2>2. \A op \in DOMAIN ledger'.utxo : KnownOp(op)'
    BY <1>1, <1>5 DEF PaymentsOk, NamesOk
  <2>3. /\ \A q, r \in relayed' : q.tx.id = r.tx.id => q = r
        /\ \A q \in relayed', p \in Submitting' : q.tx.id # job'[p].pay.tx.id
        /\ \A p, q \in Submitting' : job'[p].pay.tx.id = job'[q].pay.tx.id => p = q
    BY <1>1, <1>3 DEF PaymentsOk, NamesOk
  <2> QED
    BY <2>1, <2>2, <2>3 DEF NamesOk
<1>7. PassOk'
  BY <1>1, <1>3 DEF PaymentsOk, PassOk
<1>8. BookOk'
  <2>1. Unbooked' = Unbooked /\ Waiting(relayed)' = Waiting(relayed)
    BY <1>1 DEF Unbooked
  <2> QED
    BY <1>1, <2>1 DEF PaymentsOk, BookOk
<1> QED
  BY <1>2, <1>6, <1>7, <1>8 DEF PaymentsOk

\* Members join, work, fall silent and are pruned; shares are found and
\* credited; the operator sets the pool up.
LEMMA PoolStepOk ==
  ASSUME NamesFit, PaymentsOk, PoolNext
  PROVE  PaymentsOk'
<1>1. /\ MembersOk /\ operator \in {DEFAULT_OPERATOR_ADDRESS, NoOperator}
      /\ checking = [v \in Verifiers |-> checking[v]]
      /\ \A v \in Verifiers : checking[v].member \in Owners
  BY DEF PaymentsOk, MinersOk
<1>2. PoolMembers \subseteq Owners /\ NoOperator \in Owners /\ Work \subseteq Nat
  BY PaymentsAssumption DEF NamesFit
<1>3. ASSUME NEW m \in PoolMembers, PoolJoin(m) PROVE PaymentsOk'
  <2>1. /\ miners' = WithMiner(m, NewMiner)
        /\ UNCHANGED moneyVars /\ UNCHANGED <<operator, checking>>
    BY <1>3 DEF PoolJoin, moneyVars, chainState, shareState
  <2>2. NewMiner \in MinerType /\ m \in Owners
    BY <1>2 DEF NewMiner, MinerType
  <2>3. MembersOk'
    BY <1>1, <2>1, <2>2, WithMinerOk
  <2>4. MinersOk'
    BY <1>1, <2>1, <2>3 DEF MinersOk
  <2> QED
    BY <2>1, <2>4, NoMoneyMoves
<1>4. ASSUME NEW m \in PoolMembers, NEW work \in Work, Heartbeat(m, work) PROVE PaymentsOk'
  <2>1. /\ miners' = CreditWork(m, work)
        /\ UNCHANGED moneyVars /\ UNCHANGED <<operator, checking>>
    BY <1>4 DEF Heartbeat, moneyVars, chainState, shareState
  <2>2. m \in Owners /\ work \in Nat
    BY <1>2
  <2>3. MembersOk'
    BY <1>1, <2>1, <2>2, CreditWorkOk
  <2>4. MinersOk'
    BY <1>1, <2>1, <2>3 DEF MinersOk
  <2> QED
    BY <2>1, <2>4, NoMoneyMoves
<1>5. ASSUME NEW v \in Verifiers, NEW s \in PoolShares, FindShare(v, s) PROVE PaymentsOk'
  <2>1. /\ checking' = [checking EXCEPT ![v] = s]
        /\ UNCHANGED moneyVars /\ UNCHANGED <<operator, miners>>
    BY <1>5 DEF FindShare, moneyVars, chainState, poolState
  <2>2. s.member \in Owners
    BY DEF NamesFit
  <2>3. MembersOk'
    BY <1>1, <2>1 DEF MembersOk
  <2>4. MinersOk'
    BY <1>1, <2>1, <2>2, <2>3 DEF MinersOk
  <2> QED
    BY <2>1, <2>4, NoMoneyMoves
<1>6. ASSUME NEW v \in Verifiers, CreditShare(v) PROVE PaymentsOk'
  <2>1. /\ miners' = CreditWork(checking[v].member, 1)
        /\ checking' = [checking EXCEPT ![v] = NoShare]
        /\ UNCHANGED moneyVars /\ UNCHANGED operator
    BY <1>6 DEF CreditShare, moneyVars, chainState
  <2>2. checking[v].member \in Owners /\ NoShare.member \in Owners /\ 1 \in Nat
    BY <1>1, <1>2 DEF NoShare
  <2>3. MembersOk'
    BY <1>1, <2>1, <2>2, CreditWorkOk
  <2>4. MinersOk'
    BY <1>1, <2>1, <2>2, <2>3 DEF MinersOk
  <2> QED
    BY <2>1, <2>4, NoMoneyMoves
<1>7. ASSUME NEW m \in DOMAIN miners, Silence(m) PROVE PaymentsOk'
  <2>1. /\ miners' = [miners EXCEPT ![m].online = FALSE]
        /\ UNCHANGED moneyVars /\ UNCHANGED <<operator, checking>>
    BY <1>7 DEF Silence, moneyVars, chainState, shareState
  <2>2. [miners[m] EXCEPT !.online = FALSE] \in MinerType
    BY <1>1 DEF MembersOk, MinerType
  <2>3. DOMAIN miners' = DOMAIN miners /\ \A n \in DOMAIN miners : miners'[n] \in MinerType
    BY <1>1, <2>1, <2>2 DEF MembersOk
  <2>4. MembersOk'
    BY <1>1, <2>3 DEF MembersOk
  <2>5. MinersOk'
    BY <1>1, <2>1, <2>4 DEF MinersOk
  <2> QED
    BY <2>1, <2>5, NoMoneyMoves
<1>8. ASSUME Prune PROVE PaymentsOk'
  <2> DEFINE S == {m \in DOMAIN miners : miners[m].online \/ miners[m].shares > 0}
  <2>1. /\ miners' = [m \in S |-> miners[m]]
        /\ UNCHANGED moneyVars /\ UNCHANGED <<operator, checking>>
    BY <1>8 DEF Prune, Restrict, moneyVars, chainState, shareState
  <2>2. S \subseteq DOMAIN miners /\ IsFiniteSet(S)
    BY <1>1, FS_Subset DEF MembersOk
  <2> HIDE DEF S
  <2>3. MembersOk'
    BY <1>1, <2>1, <2>2 DEF MembersOk
  <2>4. MinersOk'
    BY <1>1, <2>1, <2>3 DEF MinersOk
  <2> QED
    BY <2>1, <2>4, NoMoneyMoves
<1>9. ASSUME \/ \E on \in BOOLEAN : SetMode(on)
             \/ SetOperator(DEFAULT_OPERATOR_ADDRESS) \/ IntervalEnds \/ SkipPayout
      PROVE  PaymentsOk'
  <2>1. /\ UNCHANGED moneyVars /\ UNCHANGED <<miners, checking>>
        /\ operator' \in {operator, DEFAULT_OPERATOR_ADDRESS}
    BY <1>9 DEF SetMode, SetOperator, IntervalEnds, SkipPayout, moneyVars, chainState, shareState
  <2>2. MembersOk'
    BY <1>1, <2>1 DEF MembersOk
  <2>3. MinersOk'
    BY <1>1, <2>1, <2>2 DEF MinersOk
  <2> QED
    BY <2>1, <2>3, NoMoneyMoves
<1>10. ASSUME StartPayout \/ SubmitPayout \/ ApplyPayout PROVE PaymentsOk'
  <2>1. PoolWallet \in Payer
    BY DEF Payer
  <2> QED
    BY <1>10, <2>1, StartPayoutOk, SubmitOk, ApplyPayoutOk DEF SubmitPayout
<1> QED
  BY <1>3, <1>4, <1>5, <1>6, <1>7, <1>8, <1>9, <1>10
  DEF PoolNext, PoolHeartbeat, ApplyPeerStats

----------------------------------------------------------------------------
(* Payments: the theorems                                                  *)

\* The first state: no payment, no member, nothing booked.
LEMMA PaymentsStart ==
  ASSUME NamesFit, PaymentsInit
  PROVE  PaymentsOk
<1>1. /\ ledger = InitialLedger /\ tipHeight = InitialHeight /\ relayed = {}
      /\ job = [p \in Payer |-> IdleJob] /\ miners = <<>> /\ totalPaid = 0
      /\ operator \in {DEFAULT_OPERATOR_ADDRESS, NoOperator}
      /\ checking = [v \in Verifiers |-> NoShare] /\ made = 0 /\ received = 0
  BY DEF PaymentsInit
<1>2. IsFiniteSet({})
  BY FS_EmptySet
<1>3. \A p \in Payer : job[p] = IdleJob /\ job[p].at = "idle"
  BY <1>1 DEF IdleJob
<1>4. Submitting = {} /\ Live = {}
  BY <1>1, <1>3 DEF Submitting, Live
<1>5. ChainOk
  BY <1>1, PaymentsAssumption DEF ChainOk, NamesFit
<1>6. JobsOk
  <2>1. IsJob(IdleJob)
    BY DEF IsJob, IdleJob
  <2> QED
    BY <1>1, <1>2, <1>3, <2>1 DEF JobsOk
<1>7. MinersOk
  <2>1. DOMAIN miners = {}
    BY <1>1
  <2>2. MembersOk
    BY <1>2, <2>1 DEF MembersOk
  <2>3. NoShare.member \in Owners
    BY DEF NoShare, NamesFit
  <2> QED
    BY <1>1, <2>2, <2>3 DEF MinersOk
<1>8. NamesOk
  <2>1. ASSUME NEW op \in DOMAIN ledger.utxo PROVE KnownOp(op)
    <3>1. Past(op[1])
      BY <1>1 DEF NamesFit, Past
    <3> QED
      BY <1>4, <3>1 DEF KnownOp
  <2> QED
    BY <1>1, <1>4, <2>1 DEF NamesOk
<1>9. PassOk
  BY <1>4 DEF PassOk
<1>10. BookOk
  <2>1. PoolWallet \in Payer /\ RpcThreads \subseteq Payer
    BY DEF Payer
  <2>2. Waiting({}) = 0
    BY SumEmpty DEF Waiting
  <2>3. Waiting(relayed) = 0
    BY <1>1, <2>2
  <2>4. Unbooked = 0
    BY <1>3, <2>1 DEF Unbooked
  <2> QED
    BY <1>1, <1>3, <2>1, <2>3, <2>4 DEF BookOk
<1> QED
  BY <1>5, <1>6, <1>7, <1>8, <1>9, <1>10 DEF PaymentsOk

\* Every step keeps the invariant.
LEMMA PaymentsStep ==
  ASSUME NamesFit, PaymentsOk, [PaymentsNext]_payVars
  PROVE  PaymentsOk'
<1>1. CASE UNCHANGED payVars
  <2>1. UNCHANGED moneyVars /\ UNCHANGED <<miners, operator, checking>>
    BY <1>1 DEF payVars, moneyVars
  <2>2. MinersOk'
    BY <2>1 DEF PaymentsOk, MinersOk, MembersOk
  <2> QED
    BY <2>1, <2>2, NoMoneyMoves
<1>2. CASE TransferNext
  <2>1. RpcThreads \subseteq Payer
    BY DEF Payer
  <2>2. ASSUME NEW to \in claims, CooldownEnds(to) PROVE PaymentsOk'
    <3>1. UNCHANGED moneyVars /\ UNCHANGED <<miners, operator, checking>>
      BY <2>2 DEF CooldownEnds, moneyVars, chainState, poolState, shareState
    <3>2. MinersOk'
      BY <3>1 DEF PaymentsOk, MinersOk, MembersOk
    <3> QED
      BY <3>1, <3>2, NoMoneyMoves
  <2> QED
    BY <1>2, <2>1, <2>2, SubmitTransactionOk, SendTransferOk, FaucetClaimOk, SubmitOk, BookClaimOk
    DEF TransferNext
<1>3. CASE PoolNext
  BY <1>3, PoolStepOk
<1>4. CASE ChainNext
  BY <1>4, BlockOk, EvictOk DEF ChainNext
<1> QED
  BY <1>1, <1>2, <1>3, <1>4 DEF PaymentsNext

\* PaymentsPass holds in every reachable state: whatever submitTransaction,
\* sendTransfer, faucetClaim or the pool's payout put in the mempool, as long
\* as its coins are there, the worker can include it now and at every later
\* height, and it leaves the fee it was priced with.
THEOREM PaymentsAlwaysPass ==
  ASSUME NamesFit
  PROVE  PaymentsSpec => []PaymentsPass
<1>1. PaymentsInit => PaymentsOk
  BY PaymentsStart
<1>2. PaymentsOk /\ [PaymentsNext]_payVars => PaymentsOk'
  BY PaymentsStep
<1>3. PaymentsOk => PaymentsPass
  <2> SUFFICES ASSUME PaymentsOk, NEW q \in relayed, Spends(q.tx) \subseteq DOMAIN ledger.utxo,
                      TotalOutput(q.tx) + q.fee <= MAX_U64
               PROVE  Spendable(ledger, q.tx, tipHeight) /\ Fee(ledger, q.tx) >= q.fee
    BY DEF PaymentsPass
  <2>1. q \in PayType /\ Passes(q, ledger, tipHeight) /\ ledger \in LedgerType
    BY DEF PaymentsOk, JobsOk, PassOk, Live, ChainOk
  <2>2. q.tx \in TxType /\ q.fee \in Nat
    BY <2>1 DEF PayType
  <2>3. TotalOutput(q.tx) \in Nat /\ InputSum(ledger, q.tx) \in Nat
    BY <2>1, <2>2, BurnNat, InputSumNat
  <2>4. TotalOutput(q.tx) + q.fee <= InputSum(ledger, q.tx)
    BY <2>1 DEF Passes
  <2>5. \A i \in DOMAIN q.tx.inputs : q.tx.inputs[i].op \in DOMAIN ledger.utxo
    BY DEF Spends
  <2> QED
    BY <2>1, <2>2, <2>3, <2>4, <2>5 DEF Passes, Spendable, Fee
<1> QED
  BY <1>1, <1>2, <1>3, PTL DEF PaymentsSpec

\* ReceivedIsBooked holds in every reachable state: however blocks, evictions
\* and the steps of run_pool_payout interleave, members have not received more
\* than total_paid_zents says once the worker has booked.
THEOREM PaidIsBooked ==
  ASSUME NamesFit
  PROVE  PaymentsSpec => []ReceivedIsBooked
<1>1. PaymentsInit => PaymentsOk
  BY PaymentsStart
<1>2. PaymentsOk /\ [PaymentsNext]_payVars => PaymentsOk'
  BY PaymentsStep
<1>3. PaymentsOk => ReceivedIsBooked
  <2> SUFFICES ASSUME PaymentsOk, job[PoolWallet].at = "idle" PROVE received <= totalPaid
    BY DEF ReceivedIsBooked
  <2>1. /\ received \in Nat /\ totalPaid \in Nat
        /\ received + Waiting(relayed) <= totalPaid + Unbooked
    BY DEF PaymentsOk, BookOk
  <2>2. Unbooked = 0
    BY DEF Unbooked
  <2>3. Waiting(relayed) \in Nat
    <3>1. CASE relayed = {}
      <4>1. Waiting({}) = 0
        BY SumEmpty DEF Waiting
      <4> QED
        BY <3>1, <4>1
    <3>2. ASSUME NEW q \in relayed PROVE Waiting(relayed) \in Nat
      BY WaitingSum DEF PaymentsOk, JobsOk
    <3> QED
      BY <3>1, <3>2
  <2> QED
    BY <2>1, <2>2, <2>3
<1> QED
  BY <1>1, <1>2, <1>3, PTL DEF PaymentsSpec

=============================================================================
