----------------------------- MODULE Contracts ------------------------------
(***************************************************************************)
(* The execution of contracts: crates/zentra-runtime/src/engine.rs and the *)
(* meter of gas.rs.                                                        *)
(*                                                                         *)
(* Several threads may execute: each has a store of its own, and they      *)
(* share the registry of modules only.  The guest is whatever wasmi runs:  *)
(* any sequence of instructions and host calls, each of which burns fuel,  *)
(* until it returns, traps, or there is no fuel for the next.  An address  *)
(* or a text the guest passes may lie outside its memory (NoAddress).      *)
(***************************************************************************)
EXTENDS Words

CONSTANTS
  Runners,                 \* threads that execute contracts
  Codes,                   \* byte strings presented for deployment
  EmptyCode,               \* the empty one
  ValidCodes,              \* those wasmi compiles
  Exports,                 \* code -> names of its functions
  Functions,               \* function names asked for
  GasLimits,
  GAS_PER_STORAGE_READ,
  GAS_PER_STORAGE_WRITE,
  GAS_PER_LOG_BYTE,
  Burns,                   \* fuel that a step of the guest burns
  LogLengths,
  Accounts, NoAddress,
  Transfers64              \* amounts (i64) passed to host_transfer

ASSUME ContractsAssumption ==
  /\ ValidCodes \subseteq Codes \ {EmptyCode}
  /\ GasLimits \subseteq 0..MAX_U64
  /\ GAS_PER_STORAGE_READ \in Nat \ {0} /\ GAS_PER_STORAGE_WRITE \in Nat \ {0}
  /\ GAS_PER_LOG_BYTE \in Nat
  /\ Burns \subseteq Nat \ {0}
  /\ LogLengths \subseteq Nat
  /\ Transfers64 \subseteq Int

VARIABLES
  registry,  \* modules: the codes deployed; the id is a hash of the code
  exec,      \* thread -> its execution
  report     \* thread -> gas_used of its last result, or NoReport

contractVars == <<registry, exec, report>>

NoCall == [at |-> "idle", limit |-> 0, fuel |-> 0, used |-> 0, logged |-> 0,
           balances |-> [a \in Accounts |-> 0], reads |-> 0, writes |-> 0]

NoReport == [limit |-> 0, gas |-> 0, reads |-> 0, writes |-> 0]

ContractsInit ==
  /\ registry = {}
  /\ exec = [t \in Runners |-> NoCall]
  /\ report = [t \in Runners |-> NoReport]

----------------------------------------------------------------------------
(* GasMeter                                                                *)

\* A faulty variant: refuses only once the limit has been passed.
AffordsLate(e, amount) == e.used <= e.limit

\* consume succeeds: no overflow, and the new total is within the limit.
Affords(e, amount) == e.used + amount <= MAX_U64 /\ e.used + amount <= e.limit

Consumed(e, amount) == IF Affords(e, amount) THEN [e EXCEPT !.used = @ + amount] ELSE e

----------------------------------------------------------------------------

\* deploy_contract, where it succeeds.
DeployContract(code) ==
  /\ code \in ValidCodes
  /\ registry' = registry \cup {code}
  /\ UNCHANGED <<exec, report>>

\* execute_contract, up to the call: fuel and meter have the same limit; the
\* balances are a new, empty map.
ExecuteContract(t, code, function, limit) ==
  /\ exec[t].at = "idle"
  /\ code \in registry /\ function \in Exports[code]
  /\ exec' = [exec EXCEPT ![t] = [NoCall EXCEPT !.at = "guest", !.limit = limit, !.fuel = limit]]
  /\ report' = [report EXCEPT ![t] = NoReport]
  /\ UNCHANGED registry

\* The guest burns fuel and is at the host, or goes on.
Guest(t, burn, e) ==
  /\ exec[t].at = "guest" /\ burn <= exec[t].fuel
  /\ exec' = [exec EXCEPT ![t] = [e EXCEPT !.fuel = @ - burn]]
  /\ UNCHANGED <<registry, report>>

Instruction(t, burn) == Guest(t, burn, exec[t])

\* host_log: whether the charge succeeds is not looked at: the text is kept.
HostLog(t, burn, len) ==
  Guest(t, burn, [Consumed(exec[t], len * GAS_PER_LOG_BYTE) EXCEPT !.logged = @ + len])

\* host_get_balance: no effect but the charge.  Without gas it answers -1.
HostGetBalance(t, burn) ==
  LET e == exec[t] IN
  Guest(t, burn,
    IF Affords(e, GAS_PER_STORAGE_READ)
      THEN [Consumed(e, GAS_PER_STORAGE_READ) EXCEPT !.reads = @ + 1] ELSE e)

\* host_transfer, after its charge.
Moved(balances, from, to, amount) ==
  IF amount <= 0 \/ NoAddress \in {from, to} \/ balances[from] < amount THEN balances
  ELSE LET taken == [balances EXCEPT ![from] = @ - amount]
       IN  [taken EXCEPT ![to] = @ + amount]

HostTransfer(t, burn, from, to, amount) ==
  LET e == exec[t] IN
  Guest(t, burn,
    IF Affords(e, GAS_PER_STORAGE_WRITE)
      THEN [Consumed(e, GAS_PER_STORAGE_WRITE) EXCEPT
              !.writes = @ + 1, !.balances = Moved(@, from, to, amount)]
      ELSE e)

\* A faulty variant: only the fuel is reported.
FuelUsed(e) == e.limit - e.fuel

\* The larger of the fuel used and the gas metered.
GasUsed(e) == IF e.limit - e.fuel >= e.used THEN e.limit - e.fuel ELSE e.used

\* The guest returns: the caller gets an ExecutionResult.
Return(t) ==
  /\ exec[t].at = "guest"
  /\ report' = [report EXCEPT ![t] =
       [limit |-> exec[t].limit, gas |-> GasUsed(exec[t]),
        reads |-> exec[t].reads, writes |-> exec[t].writes]]
  /\ exec' = [exec EXCEPT ![t] = NoCall]
  /\ UNCHANGED registry

\* It traps, or has no fuel left: the caller gets an error and no effect.
Trap(t) ==
  /\ exec[t].at = "guest"
  /\ exec' = [exec EXCEPT ![t] = NoCall]
  /\ UNCHANGED <<registry, report>>

GuestStep(t) ==
  \E burn \in Burns :
    \/ Instruction(t, burn)
    \/ \E len \in LogLengths : HostLog(t, burn, len)
    \/ HostGetBalance(t, burn)
    \/ \E from, to \in Accounts \cup {NoAddress}, amount \in Transfers64 :
         HostTransfer(t, burn, from, to, amount)

ContractsNext ==
  \/ \E code \in Codes : DeployContract(code)
  \/ \E t \in Runners, code \in Codes, function \in Functions, limit \in GasLimits :
       ExecuteContract(t, code, function, limit)
  \/ \E t \in Runners : GuestStep(t) \/ Return(t) \/ Trap(t)

ContractsSpec == ContractsInit /\ [][ContractsNext]_contractVars

----------------------------------------------------------------------------

\* Fuel and meter stay in their range.
ContractsTypeOK ==
  /\ registry \subseteq ValidCodes
  /\ \A t \in Runners :
       /\ exec[t].at \in {"idle", "guest"}
       /\ exec[t].limit \in 0..MAX_U64
       /\ exec[t].fuel \in 0..exec[t].limit
       /\ exec[t].used \in Nat /\ exec[t].reads \in Nat /\ exec[t].writes \in Nat

\* "Maximum gas allowed for this execution" (gas.rs:44), kept by two counters
\* that the guest moves independently, fuel and meter: the gas reported never
\* exceeds the limit, and pays for every read and write of state that the
\* host has let through, whatever failed in between.
GasPaysForState ==
  \A t \in Runners :
    /\ report[t].gas <= report[t].limit
    /\ report[t].gas >= report[t].reads * GAS_PER_STORAGE_READ
                        + report[t].writes * GAS_PER_STORAGE_WRITE
=============================================================================
