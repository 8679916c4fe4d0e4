------------------------------ MODULE Payments ------------------------------
(***************************************************************************)
(* The payments of a node: submitTransaction, sendTransfer and faucetClaim *)
(* of crates/zentrad/src/rpc.rs, and the payouts of the mining pool        *)
(* (run_pool_payout of crates/zentrad/src/node.rs with pool.rs).  Each     *)
(* reads the UTXO set, builds or tests a transaction, adds it to the       *)
(* mempool and then books it; locks are held for one step at a time.       *)
(*                                                                         *)
(* An address stands for its wallet.  Shares are naturals: the f64 of the  *)
(* code is taken as exact.                                                 *)
(***************************************************************************)
EXTENDS Ledger, Words, FiniteSetsExt

CONSTANTS
  PoolWallet, FaucetWallet,      \* the wallets whose seeds the node holds
  Senders, Payees,               \* the two sides of a sendTransfer
  PoolMembers,                       \* payout addresses of the pool's miners
  BadMembers,                     \* those that are not addresses: peers report them
  OperatorSeed,                  \* pool_wallet.txt holds the seed of PoolWallet
  DEFAULT_OPERATOR_ADDRESS, NoOperator,
  PAYOUT_TX_FEE, POOL_FEE_BPS, BPS, MIN_PAYOUT,
  FAUCET_CLAIM, FAUCET_FEE,
  SendAmounts, SendFees,         \* of sendTransfer
  MIN_RELAY_FEE,                 \* MIN_RELAY_FEE_ZENTS
  Work,                          \* hashrate x seconds of a heartbeat
  BLOCK_SHARES,                  \* shares a pool block is worth (256)
  PoolShares, MAX_SEEN,          \* shares sent by peers: [id, member]; 200_000
  Verifiers,                     \* threads that receive them
  RpcThreads,                    \* threads that serve the RPC
  InitialLedger, InitialHeight,
  MaxBlocks, MaxPayments, MaxTotalShares

ASSUME PaymentsAssumption ==
  /\ BadMembers \subseteq PoolMembers
  /\ PoolWallet \notin RpcThreads
  /\ {PAYOUT_TX_FEE, POOL_FEE_BPS, MIN_PAYOUT, FAUCET_CLAIM, FAUCET_FEE,
      MIN_RELAY_FEE, BLOCK_SHARES, InitialHeight} \subseteq Nat
  /\ SendAmounts \cup SendFees \cup Work \subseteq Nat
  /\ BPS \in Nat \ {0}

VARIABLES
  ledger, tipHeight,
  relayed,    \* the mempool: [tx, fee, kind, members]
  job,        \* what each payer is doing: [at, pay, to, dist]
  claims,     \* addresses whose last faucet claim is within the cooldown
  miners,     \* MiningPool.miners: [shares, paid, online] by address
  totalPaid,  \* MiningPool.total_paid_zents
  due,        \* ms_until_payout() = 0
  mode,       \* pool_mode
  operator,   \* operator_address
  seen,       \* seen_shares
  checking,   \* the share each verifier has found new
  made,       \* transactions built so far: names the next one
  received    \* what payouts in blocks have paid to members

payVars == <<ledger, tipHeight, relayed, job, claims, miners, totalPaid, due, mode,
             operator, seen, checking, made, received>>
chainState == <<ledger, tipHeight, received>>
poolState == <<miners, totalPaid, due, mode, operator>>
shareState == <<seen, checking>>

Payer == RpcThreads \cup {PoolWallet}

\* The first `members` outputs are those to the pool's miners.
NoPay == [tx |-> {}, fee |-> 0, kind |-> "none", members |-> 0]
IdleJob == [at |-> "idle", pay |-> NoPay, to |-> NoOperator, dist |-> {}]

NoShare == [id |-> 0, member |-> NoOperator]

PaymentsInit ==
  /\ ledger = InitialLedger /\ tipHeight = InitialHeight
  /\ relayed = {} /\ job = [p \in Payer |-> IdleJob]
  /\ claims = {} /\ miners = <<>> /\ totalPaid = 0
  /\ due = FALSE /\ mode \in BOOLEAN /\ operator \in {DEFAULT_OPERATOR_ADDRESS, NoOperator}
  /\ seen = {} /\ checking = [v \in Verifiers |-> NoShare]
  /\ made = 0 /\ received = 0

----------------------------------------------------------------------------
(* Coins and transactions                                                  *)

\* A faulty variant: immature coinbases too (get_utxos_for_address).
AllCoins(owner, h) == {op \in DOMAIN ledger.utxo : ledger.utxo[op].owner = owner}

\* get_spendable_utxos_for_address
SpendableCoins(owner, h) ==
  {op \in DOMAIN ledger.utxo : /\ ledger.utxo[op].owner = owner
                               /\ Mature(ledger.utxo[op], h)}

Value(ops) == SumFunction([op \in ops |-> ledger.utxo[op].amount])

\* The loop takes coins, in the order of a hash map, until they suffice; the
\* first is taken before the test.
Selections(coins, needed) ==
  {ops \in SUBSET coins :
     /\ Value(ops) >= needed
     /\ ops # {} => \E last \in ops : \/ Value(ops \ {last}) < needed
                                      \/ ops = {last}
     /\ ops = {} => coins = {}}

Pays(to, amount) == [burn |-> FALSE, owner |-> to, amount |-> amount]

Change(owner, amount) == IF amount > 0 THEN <<Pays(owner, amount)>> ELSE <<>>

Transfer(from, ops, outputs) ==
  [id |-> <<"p", made>>, coinbase |-> FALSE, signed |-> TRUE,
   inputs |-> SetToSeq({[op |-> op, key |-> from] : op \in ops}), outputs |-> outputs]

\* Mempool::add_transaction
CanEnter(tx) == \A p \in relayed : Spends(p.tx) \cap Spends(tx) = {}

\* The payer p has built a payment: it is not yet in the mempool.
Build(p, from, ops, members, outputs, needed, fee, kind, to, dist) ==
  /\ made < MaxPayments
  /\ made' = made + 1
  /\ job' = [job EXCEPT ![p] =
       [at |-> "submit", to |-> to, dist |-> dist,
        pay |-> [tx |-> Transfer(from, ops,
                                 members \o outputs \o Change(from, Value(ops) - needed)),
                 fee |-> fee, kind |-> kind, members |-> Len(members)]]]

----------------------------------------------------------------------------
(* submitTransaction, sendTransfer and faucetClaim                         *)

\* A transaction that a wallet signed, with one output.  Nothing here asks
\* whether it names an output twice: its amount then counts twice.
SubmitTransaction(p, coins, to, amount) ==
  LET tx == [id |-> <<"p", made>>, coinbase |-> FALSE, signed |-> TRUE,
             inputs |-> [i \in DOMAIN coins |->
                           [op |-> coins[i], key |-> ledger.utxo[coins[i]].owner]],
             outputs |-> <<Pays(to, amount)>>]
      inputsSum == Sat64(InputSum(ledger, tx))
  IN  /\ job[p].at = "idle"
      /\ amount > 0
      /\ \A i \in DOMAIN coins : Mature(ledger.utxo[coins[i]], tipHeight)
      /\ amount + MIN_RELAY_FEE <= inputsSum
      /\ made < MaxPayments /\ made' = made + 1
      /\ job' = [job EXCEPT ![p] =
           [at |-> "submit", to |-> to, dist |-> {},
            pay |-> [tx |-> tx, fee |-> inputsSum - amount, kind |-> "send", members |-> 0]]]
      /\ UNCHANGED <<chainState, poolState, shareState, relayed, claims>>

\* amount_zents + fee_zents wraps in a release build.
SendTransfer(p, from, to, amount, fee) ==
  LET needed == (amount + fee) % (MAX_U64 + 1) IN
  /\ job[p].at = "idle"
  /\ \E ops \in Selections(SpendableCoins(from, tipHeight), needed) :
       Build(p, from, ops, <<>>, <<Pays(to, amount)>>, needed, fee, "send", to, {})
  /\ UNCHANGED <<chainState, poolState, shareState, relayed, claims>>

FaucetClaim(p, to) ==
  /\ job[p].at = "idle"
  /\ to \notin claims
  /\ \E ops \in Selections(SpendableCoins(FaucetWallet, tipHeight), FAUCET_CLAIM + FAUCET_FEE) :
       Build(p, FaucetWallet, ops, <<>>, <<Pays(to, FAUCET_CLAIM)>>,
             FAUCET_CLAIM + FAUCET_FEE, FAUCET_FEE, "faucet", to, {})
  /\ UNCHANGED <<chainState, poolState, shareState, relayed, claims>>

\* The mempool takes the transaction, or the call ends with its error.
Submit(p) ==
  /\ job[p].at = "submit"
  /\ IF CanEnter(job[p].pay.tx)
     THEN /\ relayed' = relayed \cup {job[p].pay}
          /\ job' = [job EXCEPT ![p] = IF @.pay.kind = "send" THEN IdleJob
                                       ELSE [@ EXCEPT !.at = "book"]]
     ELSE relayed' = relayed /\ job' = [job EXCEPT ![p] = IdleJob]
  /\ UNCHANGED <<chainState, poolState, shareState, claims, made>>

\* faucet_claims.insert
BookClaim(p) ==
  /\ job[p].at = "book" /\ job[p].pay.kind = "faucet"
  /\ claims' = claims \cup {job[p].to}
  /\ job' = [job EXCEPT ![p] = IdleJob]
  /\ UNCHANGED <<chainState, poolState, shareState, relayed, made>>

CooldownEnds(to) ==
  /\ claims' = claims \ {to} /\ to \in claims
  /\ UNCHANGED <<chainState, poolState, shareState, relayed, job, made>>

----------------------------------------------------------------------------
(* The pool: members and shares                                            *)

NewMiner == [shares |-> 0, paid |-> 0, online |-> TRUE]

Miner(m) == IF m \in DOMAIN miners THEN miners[m] ELSE NewMiner

TotalShares == SumFunction([m \in DOMAIN miners |-> miners[m].shares])

WithMiner(m, record) ==
  [n \in DOMAIN miners \cup {m} |-> IF n = m THEN record ELSE miners[n]]

CreditWork(m, work) ==
  WithMiner(m, [Miner(m) EXCEPT !.shares = @ + work, !.online = TRUE])

\* poolJoin: idempotent.
PoolJoin(m) ==
  /\ m \notin DOMAIN miners /\ m \notin BadMembers
  /\ miners' = WithMiner(m, NewMiner)
  /\ UNCHANGED <<chainState, relayed, job, claims, totalPaid, due, mode, operator,
                 shareState, made>>

\* MiningPool::heartbeat
Heartbeat(m, work) ==
  /\ TotalShares + work <= MaxTotalShares
  /\ miners' = CreditWork(m, work)
  /\ UNCHANGED <<chainState, relayed, job, claims, totalPaid, due, mode, operator,
                 shareState, made>>

\* poolHeartbeat looks at the address, the statistics of a peer do not.
PoolHeartbeat(m, work) == m \notin BadMembers /\ Heartbeat(m, work)

ApplyPeerStats(m, work) == mode /\ Heartbeat(m, work)

\* verify_and_credit_share: the share is looked up, later credited and noted.
FindShare(v, s) ==
  /\ checking[v] = NoShare
  /\ mode /\ s \notin seen /\ s.member \notin BadMembers
  /\ TotalShares < MaxTotalShares
  /\ checking' = [checking EXCEPT ![v] = s]
  /\ UNCHANGED <<chainState, relayed, job, claims, poolState, seen, made>>

CreditShare(v) ==
  /\ checking[v] # NoShare
  /\ miners' = CreditWork(checking[v].member, 1)
  /\ seen' = LET after == seen \cup {checking[v]}
             IN  IF Cardinality(after) > MAX_SEEN THEN {} ELSE after
  /\ checking' = [checking EXCEPT ![v] = NoShare]
  /\ UNCHANGED <<chainState, relayed, job, claims, totalPaid, due, mode, operator, made>>

\* Five minutes without a sign of life.
Silence(m) ==
  /\ miners[m].online
  /\ miners' = [miners EXCEPT ![m].online = FALSE]
  /\ UNCHANGED <<chainState, relayed, job, claims, totalPaid, due, mode, operator,
                 shareState, made>>

SetMode(on) ==
  /\ mode' = on /\ mode # on
  /\ UNCHANGED <<chainState, relayed, job, claims, miners, totalPaid, due, operator,
                 shareState, made>>

SetOperator(address) ==
  /\ operator' = address /\ operator # address
  /\ UNCHANGED <<chainState, relayed, job, claims, miners, totalPaid, due, mode,
                 shareState, made>>

----------------------------------------------------------------------------
(* The pool: payouts                                                       *)

IntervalEnds ==
  /\ ~due /\ due' = TRUE
  /\ UNCHANGED <<chainState, relayed, job, claims, miners, totalPaid, mode, operator,
                 shareState, made>>

\* prune_offline, at each round of the worker
Prune ==
  /\ job[PoolWallet].at = "idle"
  /\ \E m \in DOMAIN miners : ~miners[m].online /\ miners[m].shares = 0
  /\ miners' = Restrict(miners, {m \in DOMAIN miners : miners[m].online \/ miners[m].shares > 0})
  /\ UNCHANGED <<chainState, relayed, job, claims, totalPaid, due, mode, operator,
                 shareState, made>>

Portion(m, amount) == (miners[m].shares * amount) \div TotalShares

\* compute_distribution
Distribution(amount) ==
  IF TotalShares = 0 \/ amount = 0 THEN {}
  ELSE {[to |-> m, amount |-> Portion(m, amount)] :
          m \in {n \in DOMAIN miners : /\ miners[n].shares > 0
                                       /\ Portion(n, amount) >= MIN_PAYOUT}}

AmountOf(dist) == SumFunction([d \in dist |-> d.amount])

PayoutBalance == Value(SpendableCoins(PoolWallet, tipHeight))

OperatorFee == ((PayoutBalance - PAYOUT_TX_FEE) * POOL_FEE_BPS) \div BPS

OperatorPart == IF operator = NoOperator THEN 0 ELSE OperatorFee

ToDistribute == Distribution(PayoutBalance - PAYOUT_TX_FEE - OperatorFee)

PayoutDue == job[PoolWallet].at = "idle" /\ mode /\ due

\* Another seed, nothing to pay, nobody to pay: the timer starts again.
SkipPayout ==
  /\ PayoutDue
  /\ \/ ~OperatorSeed
     \/ PayoutBalance <= PAYOUT_TX_FEE
     \/ ToDistribute = {}
  /\ due' = FALSE
  /\ UNCHANGED <<chainState, relayed, job, claims, miners, totalPaid, mode, operator,
                 shareState, made>>

\* The outputs leave out a member whose address does not parse.
BuildPayout(dist) ==
  LET needed == AmountOf(dist) + OperatorPart + PAYOUT_TX_FEE
      paid   == {d \in dist : d.to \notin BadMembers}
  IN  \E ops \in Selections(SpendableCoins(PoolWallet, tipHeight), needed) :
        Build(PoolWallet, PoolWallet, ops, SetToSeq({Pays(d.to, d.amount) : d \in paid}),
              Change(operator, OperatorPart), needed, PAYOUT_TX_FEE, "payout",
              NoOperator, dist)

StartPayout ==
  /\ PayoutDue /\ OperatorSeed
  /\ PayoutBalance > PAYOUT_TX_FEE
  /\ ToDistribute # {}
  /\ BuildPayout(ToDistribute)
  /\ UNCHANGED <<chainState, poolState, shareState, relayed, claims>>

SubmitPayout == Submit(PoolWallet)

\* A faulty variant: the transaction fee is deducted from the total.
BookedNet(dist) == AmountOf(dist) - PAYOUT_TX_FEE

Booked(dist) == AmountOf(dist)

\* apply_payout: credits the distribution, and resets everyone's shares.
ApplyPayout ==
  LET dist == job[PoolWallet].dist
      credit(m) == AmountOf({d \in dist : d.to = m})
  IN  /\ job[PoolWallet].at = "book"
      /\ miners' = [m \in DOMAIN miners |->
                      [miners[m] EXCEPT !.paid = @ + credit(m), !.shares = 0]]
      /\ totalPaid' = totalPaid + Booked(dist)
      /\ due' = FALSE
      /\ job' = [job EXCEPT ![PoolWallet] = IdleJob]
      /\ UNCHANGED <<chainState, relayed, claims, mode, operator, shareState, made>>

----------------------------------------------------------------------------
(* Blocks and the mempool                                                  *)

ToMembers(pay) ==
  SumFunction([i \in 1..pay.members |-> pay.tx.outputs[i].amount])

\* A block with the coinbase of `owner`, tagged with a member, and at most one
\* of the waiting payments.
Block(owner, tag, pays) ==
  LET coinbase == CoinbaseTx(<<"c", tipHeight + 1>>, owner, BlockReward(Schedule, tipHeight + 1))
      txs == <<coinbase>> \o SetToSeq({p.tx : p \in pays})
  IN  /\ tipHeight < InitialHeight + MaxBlocks
      /\ SelfContained([txs |-> txs])
      /\ \A p \in pays : Spendable(ledger, p.tx, tipHeight + 1)
      /\ tipHeight' = tipHeight + 1
      /\ ledger' = ApplyBlock(ledger, [txs |-> txs, score |-> tipHeight + 1]).led
      /\ relayed' = relayed \ pays
      /\ received' = received + SumFunction([p \in pays |-> ToMembers(p)])
      /\ IF mode /\ owner = PoolWallet /\ tag \in PoolMembers \ BadMembers
         THEN /\ TotalShares + BLOCK_SHARES <= MaxTotalShares
              /\ miners' = CreditWork(tag, BLOCK_SHARES)
         ELSE UNCHANGED miners
      /\ UNCHANGED <<job, claims, totalPaid, due, mode, operator, shareState, made>>

\* The worker evicts what it cannot include; the dialer what is too old.
Evict(p) ==
  /\ relayed' = relayed \ {p}
  /\ UNCHANGED <<chainState, job, claims, poolState, shareState, made>>

TransferNext ==
  \/ \E p \in RpcThreads, n \in {1, 2}, to \in Payees, a \in SendAmounts :
       \E coins \in [1..n -> {op \in DOMAIN ledger.utxo : ledger.utxo[op].owner \in Senders}] :
         SubmitTransaction(p, coins, to, a)
  \/ \E p \in RpcThreads, from \in Senders, to \in Payees, a \in SendAmounts, f \in SendFees :
       SendTransfer(p, from, to, a, f)
  \/ \E p \in RpcThreads, to \in Payees : FaucetClaim(p, to)
  \/ \E p \in RpcThreads : Submit(p) \/ BookClaim(p)
  \/ \E to \in claims : CooldownEnds(to)

PoolNext ==
  \/ \E m \in PoolMembers : PoolJoin(m)
  \/ \E m \in PoolMembers, work \in Work : PoolHeartbeat(m, work) \/ ApplyPeerStats(m, work)
  \/ \E v \in Verifiers, s \in PoolShares : FindShare(v, s)
  \/ \E v \in Verifiers : CreditShare(v)
  \/ \E m \in DOMAIN miners : Silence(m)
  \/ \E on \in BOOLEAN : SetMode(on)
  \/ SetOperator(DEFAULT_OPERATOR_ADDRESS)
  \/ IntervalEnds \/ Prune
  \/ SkipPayout \/ StartPayout \/ SubmitPayout \/ ApplyPayout

ChainNext ==
  \/ \E owner \in {PoolWallet, FaucetWallet}, tag \in PoolMembers \cup {NoOperator} :
       \E pays \in {{}} \cup {{p} : p \in relayed} : Block(owner, tag, pays)
  \/ \E p \in relayed : Evict(p)

PaymentsNext == TransferNext \/ PoolNext \/ ChainNext

PaymentsSpec == PaymentsInit /\ [][PaymentsNext]_payVars

----------------------------------------------------------------------------

\* "Filtering here keeps every payout transaction valid" (node.rs:590): a
\* payment in the mempool whose coins are still there passes the test of the
\* worker, at this height and later, and leaves the fee it was priced with;
\* unless its amounts do not fit a u64.
PaymentsPass ==
  \A p \in relayed :
    /\ Spends(p.tx) \subseteq DOMAIN ledger.utxo
    /\ TotalOutput(p.tx) + p.fee <= MAX_U64
    => Spendable(ledger, p.tx, tipHeight) /\ Fee(ledger, p.tx) >= p.fee

\* What members have received from payouts never exceeds what the pool has
\* booked as paid, once the worker is back from booking: a payout that is
\* mined before it is booked, expires, or is built again is not paid twice.
ReceivedIsBooked == job[PoolWallet].at = "idle" => received <= totalPaid
=============================================================================
