-------------------------------- MODULE Vault -------------------------------
(***************************************************************************)
(* The Omni-Vault of crates/zentra-finance/src/vault.rs with its signature *)
(* manager (tss.rs) and protocol-owned liquidity (pol.rs), under the calls *)
(* of its interface in any order and under the RPC handlers vaultDeposit   *)
(* and vaultWithdraw of crates/zentrad/src/rpc.rs in several threads.      *)
(*                                                                         *)
(*   request    [tx, amount, status]   (IngestRequest; chain and depositor *)
(*              are the same for every caller in the node)                 *)
(*   signature  [by, gen, tx]  a partial signature by validator `by` under *)
(*              the keys of generation `gen` on the message of request tx  *)
(*                                                                         *)
(* A call that returns an error or panics without having changed anything  *)
(* is no step.  The counters of POL that are only reported are left out.   *)
(***************************************************************************)
EXTENDS Amm, Sequences, Functions

CONSTANTS
  CROSS_CHAIN_INGEST_FEE_BPS,  \* (50)
  TxHashes,       \* hashes of external transactions
  Malformed,      \* strings vaultDeposit cannot decode
  FallbackHash,   \* what it takes for them (32 bytes of 0xAA)
  Deposits,       \* amounts deposited and withdrawn
  TotalValidators,  \* validators of the vault (3 in the node)
  Threshold,      \* signatures a request needs (2)
  RpcSigners,     \* validators whose keys vaultDeposit signs with (3)
  Callers,        \* threads of the RPC server
  MaxKeyGens      \* bound on the number of key generations

ASSUME VaultAssumption ==
  /\ CROSS_CHAIN_INGEST_FEE_BPS \in 0..BPS_DENOMINATOR
  /\ FallbackHash \in TxHashes
  /\ Deposits \subseteq Nat
  /\ TotalValidators \in Nat /\ RpcSigners \in 0..TotalValidators
  /\ Threshold \in 1..RpcSigners
  /\ MaxKeyGens \in Nat

VARIABLES
  requests,  \* pending_ingests, from which nothing is ever removed
  keyGen,    \* generation of the validators' keys, 0 before generate_keys
  minted,    \* total_zusd_minted
  burnt,     \* total_zusd_burned
  fees,      \* pol.total_ingest_fees_collected
  polPool,   \* pol.pool
  rpc        \* what each thread does: [at, tx, index]

vaultVars == <<requests, keyGen, minted, burnt, fees, polPool, rpc>>

Idle == [at |-> "idle", tx |-> FallbackHash, index |-> 0]

VaultInit ==
  /\ requests = <<>>
  /\ keyGen = 0
  /\ minted = 0 /\ burnt = 0 /\ fees = 0
  /\ polPool = EmptyPool
  /\ rpc = [c \in Callers |-> Idle]

----------------------------------------------------------------------------
(* Signatures                                                              *)

\* generate_keys replaces all keys: signatures made before are worthless.  It
\* refuses a threshold of 0 or above the number of validators, which
\* VaultAssumption excludes.
GenerateKeys ==
  /\ keyGen < MaxKeyGens
  /\ keyGen' = keyGen + 1
  /\ UNCHANGED <<requests, minted, burnt, fees, polPool, rpc, pool>>

\* identify_abort finds nothing: each signature is by a participant, made
\* with its present key, on this request.
NoAbort(sigs, tx) ==
  \A i \in DOMAIN sigs :
    /\ keyGen # 0 /\ sigs[i].by < TotalValidators
    /\ sigs[i].gen = keyGen /\ sigs[i].tx = tx

\* The checks of validate_ingest.  It counts the signatures, whoever made
\* them.
CanValidate(i, sigs) ==
  /\ i \in DOMAIN requests
  /\ requests[i].status = "Pending"
  /\ Len(sigs) >= Threshold
  /\ NoAbort(sigs, requests[i].tx)

----------------------------------------------------------------------------
(* Ingest                                                                  *)

Request(tx, amount) == [tx |-> tx, amount |-> amount, status |-> "Pending"]

\* A faulty variant: duplicates are looked for among the pending ones.
CanSubmitOncePending(tx, amount) ==
  amount # 0 /\ \A i \in DOMAIN requests :
                  requests[i].status = "Pending" => requests[i].tx # tx

\* The checks of submit_ingest.
CanSubmit(tx, amount) == amount # 0 /\ \A i \in DOMAIN requests : requests[i].tx # tx

SubmitIngest(tx, amount) ==
  /\ CanSubmit(tx, amount)
  /\ requests' = Append(requests, Request(tx, amount))
  /\ UNCHANGED <<keyGen, minted, burnt, fees, polPool, rpc, pool>>

ValidateIngest(i, sigs) ==
  /\ CanValidate(i, sigs)
  /\ requests' = [requests EXCEPT ![i].status = "Validated"]
  /\ UNCHANGED <<keyGen, minted, burnt, fees, polPool, rpc, pool>>

\* The fee of process_cross_chain_ingest.  The product is not checked: where
\* overflow wraps the fee is that of the wrapped product, and where it panics
\* nothing has been changed.
IngestFee(amount) ==
  ((amount * CROSS_CHAIN_INGEST_FEE_BPS) % (MAX_U128 + 1)) \div BPS_DENOMINATOR

\* A faulty variant: the fee is collected on top of the amount.
CreditGross(amount, fee) ==
  /\ minted' = Sat128(minted + amount)
  /\ fees' = Sat128(fees + fee)
  /\ polPool' = Inject(polPool, 0, fee)

\* process_cross_chain_ingest and the counter of mint_zusd.
Credit(amount, fee) ==
  /\ minted' = Sat128(minted + (amount - Least(fee, amount)))
  /\ fees' = Sat128(fees + fee)
  /\ polPool' = Inject(polPool, 0, fee)

MintZusd(i) ==
  /\ i \in DOMAIN requests
  /\ requests[i].status = "Validated"
  /\ Credit(requests[i].amount, IngestFee(requests[i].amount))
  /\ requests' = [requests EXCEPT ![i].status = "Minted"]
  /\ UNCHANGED <<keyGen, burnt, rpc, pool>>

\* The checks of burn_zusd: no more than the circulating supply.
CanRedeem(amount) == amount # 0 /\ amount <= minted - Least(burnt, minted)

\* burn_zusd, also as vaultWithdraw.
BurnZusd(amount) ==
  /\ CanRedeem(amount)
  /\ burnt' = Sat128(burnt + amount)
  /\ UNCHANGED <<requests, keyGen, minted, fees, polPool, rpc, pool>>

----------------------------------------------------------------------------
(* vaultDeposit holds the lock of the vault twice.                         *)

DecodeHash(string) == IF string \in Malformed THEN FallbackHash ELSE string

\* First: the request is queued and its index kept.
RpcSubmit(c, string, amount) ==
  /\ rpc[c].at # "queued"
  /\ CanSubmit(DecodeHash(string), amount)
  /\ requests' = Append(requests, Request(DecodeHash(string), amount))
  /\ rpc' = [rpc EXCEPT ![c] = [at |-> "queued", tx |-> DecodeHash(string),
                                index |-> Len(requests) + 1]]
  /\ UNCHANGED <<keyGen, minted, burnt, fees, polPool, pool>>

\* What the handler signs with the validators' keys.
RpcSignatures(c) ==
  [i \in 1..RpcSigners |-> [by |-> i - 1, gen |-> keyGen, tx |-> rpc[c].tx]]

\* A faulty variant: the index is taken when the lock is held again.
IndexOfLast(c) == Len(requests)

IndexOf(c) == rpc[c].index

\* Without keys the handler panics at participants[0].
RpcPanics == keyGen = 0

\* Second: sign, validate, mint, and inject the fee into the node's pool as
\* well (mint_zusd has injected it into pol.pool).
RpcMint(c) ==
  /\ rpc[c].at = "queued"
  /\ ~RpcPanics
  /\ CanValidate(IndexOf(c), RpcSignatures(c))
  /\ LET amount == requests[IndexOf(c)].amount
     IN  /\ Credit(amount, IngestFee(amount))
         /\ pool' = Inject(pool, 0, IngestFee(amount))
  /\ requests' = [requests EXCEPT ![IndexOf(c)].status = "Minted"]
  /\ rpc' = [rpc EXCEPT ![c].at = "minted"]
  /\ UNCHANGED <<keyGen, burnt>>

\* Or the handler ends in a panic or an error, and the request stays queued.
RpcFail(c) ==
  /\ rpc[c].at = "queued"
  /\ RpcPanics \/ ~CanValidate(IndexOf(c), RpcSignatures(c))
  /\ rpc' = [rpc EXCEPT ![c].at = "failed"]
  /\ UNCHANGED <<requests, keyGen, minted, burnt, fees, polPool, pool>>

----------------------------------------------------------------------------

\* Signatures that may be presented: by a validator or by nobody (an index
\* out of range), old or new, for any deposit.
Signatures == [by : 0..TotalValidators, gen : 1..MaxKeyGens, tx : TxHashes]

SignatureLists == UNION {[1..n -> Signatures] : n \in 0..Threshold}

VaultNext ==
  \/ GenerateKeys
  \/ \E tx \in TxHashes, amount \in Deposits : SubmitIngest(tx, amount)
  \/ \E i \in DOMAIN requests, sigs \in SignatureLists : ValidateIngest(i, sigs)
  \/ \E i \in DOMAIN requests : MintZusd(i)
  \/ \E amount \in Deposits : BurnZusd(amount)
  \/ \E c \in Callers, string \in TxHashes \cup Malformed, amount \in Deposits :
       RpcSubmit(c, string, amount)
  \/ \E c \in Callers : RpcMint(c) \/ RpcFail(c)

VaultSpec == VaultInit /\ AmmInit /\ [][VaultNext /\ UNCHANGED calls]_<<vaultVars, ammVars>>

----------------------------------------------------------------------------

Statuses == {"Pending", "Validated", "Minted"}

QueueType == Seq([tx : TxHashes, amount : Nat, status : Statuses])

RpcType == [Callers -> [at : {"idle", "queued", "minted", "failed"},
                        tx : TxHashes, index : Nat]]

\* The queue holds requests, the callers their local variables.
VaultTypeOK == requests \in QueueType /\ rpc \in RpcType

\* Duplicate detection "is based on the external_tx_hash" (vault.rs:121):
\* whichever path a deposit takes into the queue, and whatever has become of
\* the earlier ones, no deposit is there twice.
OneRequestPerDeposit ==
  \A i, j \in DOMAIN requests : requests[i].tx = requests[j].tx => i = j

MintedRequests == {requests[i] : i \in {j \in DOMAIN requests : requests[j].status = "Minted"}}

\* What each distinct deposit that was minted has brought in.
MintedDeposits ==
  [tx \in {r.tx : r \in MintedRequests} |-> (CHOOSE r \in MintedRequests : r.tx = tx).amount]

\* zUSD is "minted at 1:1 minus a 0.5% POL fee" (vault.rs:10): what has been
\* minted and what has been withheld is together exactly what was deposited
\* by the distinct deposits that were validated, and nothing is burned that
\* was not minted.
ZusdBacked == burnt <= minted /\ minted + fees = SumFunction(MintedDeposits)

\* Between the two lock sections of vaultDeposit other calls queue, validate,
\* mint and change keys.  The second section still works on the request of
\* its own deposit: it mints it whenever it is still pending and there are
\* keys, and gives up only otherwise.
DepositAnswered ==
  [][\A c \in Callers, i \in DOMAIN requests :
       rpc[c].at = "queued" /\ rpc'[c].at # "queued" /\ requests[i].tx = rpc[c].tx =>
         IF keyGen # 0 /\ requests[i].status = "Pending"
         THEN rpc'[c].at = "minted" /\ requests'[i].status = "Minted"
         ELSE rpc'[c].at = "failed"]_vaultVars
=============================================================================
