---------------------------- MODULE MCComponents ----------------------------
(***************************************************************************)
(* An instance, for TLC, of the components that work by themselves.  They  *)
(* have no state in common, but for the pool, which the vault shares: a    *)
(* behaviour moves the one that `focus` names, so that their states add up *)
(* instead of multiplying.  The payments have two focuses, the wallets and *)
(* the mining pool, and so has the desktop wallet, its seed and its node.  *)
(***************************************************************************)
EXTENDS Minting, Vault, Quarantine, EncryptedMempool, Mempool, Payments,
        Governance, StateMap, Contracts, Difficulty, DesktopWallet

VARIABLE focus

vars == <<focus, mintVars, ammVars, vaultVars, qVars, eVars, mempoolVars, payVars,
          govVars, stateVars, contractVars, diffVars, walletVars>>

----------------------------------------------------------------------------
(* Constants                                                               *)

\* y conflicts with x and with z.
MCTransactions ==
  {[id |-> "x", ins |-> {1}, rate |-> 1], [id |-> "y", ins |-> {1, 2}, rate |-> 2],
   [id |-> "z", ins |-> {2}, rate |-> 1]}

MCKeys == {<<1>>, <<2>>, <<1, 2>>}
MCValues == {<<>>, <<2>>}

MCExports == [c \in {"token"} |-> {"run"}]

MCGenesisBits == [exp |-> 5, man |-> 15]
MCEasiestBits == [exp |-> 7, man |-> 31]
MCDelays == {-20, 5, 30, 45, 200}

MCSchedule == [initial |-> 2, interval |-> 100, max |-> 100]

Coin(owner, amount, at, coinbase) ==
  [owner |-> owner, amount |-> amount, height |-> at, coinbase |-> coinbase]

\* At height 3 with a maturity of 2, the newer coinbase of the pool is immature.
MCLedger ==
  [burned |-> 0,
   utxo |-> (<<<<"g", 1>>, 1>> :> Coin("alice", 3, 0, FALSE)) @@
            (<<<<"g", 2>>, 1>> :> Coin("pool", 4, 2, TRUE)) @@
            (<<<<"g", 3>>, 1>> :> Coin("pool", 3, 1, TRUE)) @@
            (<<<<"g", 4>>, 1>> :> Coin("faucet", 3, 1, TRUE)) @@
            (<<<<"g", 5>>, 1>> :> Coin("faucet", 2, 1, FALSE))]

MCPoolShares == {[id |-> 1, member |-> "m1"]}
MCTransfers == {-1, 0, 1}

----------------------------------------------------------------------------

Focuses == {"emission", "amm", "vault", "quarantine", "encrypted", "mempool",
            "transfers", "pool", "governance", "state", "merkle", "contracts",
            "difficulty", "seed", "daemon"}

\* A component that is not looked at starts in one of its initial states.
Init ==
  /\ focus \in Focuses
  /\ MintingInit /\ AmmInit /\ VaultInit /\ QuarantineInit /\ EncryptedInit
  /\ MempoolInit /\ PaymentsInit /\ GovernanceInit /\ StateMapInit /\ ContractsInit
  /\ DifficultyInit /\ WalletInit
  /\ focus # "emission" => sched = CHOOSE s \in Schedules : TRUE
  /\ focus # "pool" => mode = FALSE /\ operator = NoOperator
  /\ focus \notin {"seed", "daemon"} => node = NoSeed

\* A step of the component that f names.
In(f) ==
  /\ focus = f /\ UNCHANGED focus
  /\ IF f = "emission" THEN TRUE ELSE UNCHANGED mintVars
  /\ IF f \in {"amm", "vault"} THEN TRUE ELSE UNCHANGED ammVars
  /\ IF f = "vault" THEN TRUE ELSE UNCHANGED vaultVars
  /\ IF f = "quarantine" THEN TRUE ELSE UNCHANGED qVars
  /\ IF f = "encrypted" THEN TRUE ELSE UNCHANGED eVars
  /\ IF f = "mempool" THEN TRUE ELSE UNCHANGED mempoolVars
  /\ IF f \in {"transfers", "pool"} THEN TRUE ELSE UNCHANGED payVars
  /\ IF f = "governance" THEN TRUE ELSE UNCHANGED govVars
  /\ IF f \in {"state", "merkle"} THEN TRUE ELSE UNCHANGED stateVars
  /\ IF f = "contracts" THEN TRUE ELSE UNCHANGED contractVars
  /\ IF f = "difficulty" THEN TRUE ELSE UNCHANGED diffVars
  /\ IF f \in {"seed", "daemon"} THEN TRUE ELSE UNCHANGED walletVars

Next ==
  \/ In("emission") /\ Mint
  \/ In("amm") /\ AmmNext
  \/ In("vault") /\ UNCHANGED calls /\ VaultNext
  \/ In("quarantine") /\ QuarantineNext
  \/ In("encrypted") /\ EncryptedNext
  \/ In("mempool") /\ MempoolNext
  \/ In("transfers") /\ (TransferNext \/ ChainNext)
  \/ In("pool") /\ (PoolNext \/ ChainNext)
  \/ In("governance") /\ GovernanceNext
  \/ In("state") /\ StorageNext
  \/ In("merkle") /\ AddLeaf
  \/ In("contracts") /\ ContractsNext
  \/ In("difficulty") /\ DifficultyNext
  \/ In("seed") /\ (ProcessNext \/ SeedNext)
  \/ In("daemon") /\ (ProcessNext \/ NodeNext \/ Frame \/ Restore("s1"))

Spec == Init /\ [][Next]_vars
=============================================================================
