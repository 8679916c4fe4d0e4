-------------------------------- MODULE Amm ---------------------------------
(***************************************************************************)
(* The constant-product pool of crates/zentra-finance/src/amm.rs under its *)
(* whole interface, in any order of calls: swaps (RPC swapTokens),         *)
(* add_liquidity, inject_protocol_liquidity.                               *)
(*                                                                         *)
(* The pool is [ztr, zusd, lp, burned]: the two reserves, the LP tokens in *)
(* circulation and the LP tokens destroyed.  Its volume and fee counters   *)
(* are reported and never read; they are left out.  Amounts are u128: the  *)
(* checked operations fail, the saturating ones stop, at MAX_U128.         *)
(***************************************************************************)
EXTENDS Words

CONSTANTS
  AMM_SWAP_FEE_BPS,   \* fee of a swap (20)
  BPS_DENOMINATOR,    \* (10000)
  Amounts,            \* amounts callers use
  MaxCalls            \* bound on the number of calls

ASSUME AmmAssumption ==
  /\ AMM_SWAP_FEE_BPS \in Nat /\ BPS_DENOMINATOR \in Nat \ {0}
  /\ AMM_SWAP_FEE_BPS <= BPS_DENOMINATOR
  /\ Amounts \subseteq Nat
  /\ MaxCalls \in Nat

Tokens == {"ztr", "zusd"}

Other(token) == IF token = "ztr" THEN "zusd" ELSE "ztr"

EmptyPool == [ztr |-> 0, zusd |-> 0, lp |-> 0, burned |-> 0]

\* integer_sqrt: Newton's iteration from n downwards while it falls.
IntegerSqrt(n) ==
  LET newton[x \in 1..n] ==
        LET y == (x + n \div x) \div 2 IN IF y < x THEN newton[y] ELSE x
  IN  IF n = 0 THEN 0 ELSE newton[n]

\* For n = MAX_U128 the first x + 1 of integer_sqrt overflows: a panic where
\* overflow is checked, and where it wraps, y = 0 and then a division by 0.
SqrtPanics(n) == n >= MAX_U128

----------------------------------------------------------------------------
(* Swaps                                                                   *)

SwapFee(amount) == (amount * AMM_SWAP_FEE_BPS) \div BPS_DENOMINATOR

\* A faulty variant: the output is rounded up.
OutputRoundedUp(reserveIn, reserveOut, paid) ==
  (reserveOut * paid + reserveIn + paid - 1) \div (reserveIn + paid)

\* What the constant product gives for `paid`, rounded down.
Output(reserveIn, reserveOut, paid) == (reserveOut * paid) \div (reserveIn + paid)

\* swap_ztr_to_zusd and swap_zusd_to_ztr, which mirror each other.
SwapFor(p, token, amount, out) ==
  IF out = 0 \/ out >= p[Other(token)] \/ p[token] + amount > MAX_U128 THEN p
  ELSE [p EXCEPT ![token] = @ + amount, ![Other(token)] = @ - out]

Swap(p, token, amount) ==
  IF amount = 0 \/ p.ztr = 0 \/ p.zusd = 0 \/ amount * AMM_SWAP_FEE_BPS > MAX_U128 THEN p
  ELSE SwapFor(p, token, amount, Output(p[token], p[Other(token)], amount - SwapFee(amount)))

----------------------------------------------------------------------------
(* Liquidity                                                               *)

\* A faulty variant: tokens for the larger of the two sides.
SharesOfLarger(p, ztr, zusd) ==
  LET a == (ztr * p.lp) \div p.ztr
      b == (zusd * p.lp) \div p.zusd
  IN  IF a <= b THEN b ELSE a

\* The LP tokens for a deposit, when there are some already.
Shares(p, ztr, zusd) == Least((ztr * p.lp) \div p.ztr, (zusd * p.lp) \div p.zusd)

\* The rest of add_liquidity.  The three checked additions come one after the
\* other: when a later one overflows, the earlier ones have been stored.
AddShares(p, ztr, zusd, lp) ==
  IF lp = 0 \/ p.ztr + ztr > MAX_U128 THEN p
  ELSE IF p.zusd + zusd > MAX_U128 THEN [p EXCEPT !.ztr = @ + ztr]
  ELSE IF p.lp + lp > MAX_U128 THEN [p EXCEPT !.ztr = @ + ztr, !.zusd = @ + zusd]
  ELSE [p EXCEPT !.ztr = @ + ztr, !.zusd = @ + zusd, !.lp = @ + lp]

AddLiquidity(p, ztr, zusd) ==
  IF ztr = 0 \/ zusd = 0 THEN p
  ELSE IF p.lp = 0
  THEN IF SqrtPanics(ztr * zusd) THEN p
       ELSE AddShares(p, ztr, zusd, IntegerSqrt(ztr * zusd))
  ELSE IF ztr * p.lp > MAX_U128 \/ zusd * p.lp > MAX_U128 THEN p
  ELSE AddShares(p, ztr, zusd, Shares(p, ztr, zusd))

\* The LP tokens inject_protocol_liquidity destroys when there are some in
\* circulation: the smaller share, except that a side without one is ignored.
BurnShares(fromZtr, fromZusd) ==
  IF fromZtr = 0 THEN fromZusd
  ELSE IF fromZusd = 0 THEN fromZtr
  ELSE Least(fromZtr, fromZusd)

LpFrom(amount, lp, reserve) == IF reserve > 0 THEN Sat128(amount * lp) \div reserve ELSE 0

BurnedBy(p, ztr, zusd) ==
  IF ztr = 0 /\ zusd = 0 THEN 0
  ELSE IF p.lp = 0 THEN IntegerSqrt(ztr * zusd)
  ELSE BurnShares(LpFrom(ztr, p.lp, p.ztr), LpFrom(zusd, p.lp, p.zusd))

InjectPanics(p, ztr, zusd) == p.lp = 0 /\ SqrtPanics(ztr * zusd)

Inject(p, ztr, zusd) ==
  IF InjectPanics(p, ztr, zusd) THEN p
  ELSE [p EXCEPT !.ztr = Sat128(@ + ztr), !.zusd = Sat128(@ + zusd),
                 !.burned = Sat128(@ + BurnedBy(p, ztr, zusd))]

----------------------------------------------------------------------------

VARIABLES
  pool,   \* a LiquidityPool; in the node its amm_pool
  calls   \* number of calls so far

Call == calls < MaxCalls /\ calls' = calls + 1

\* RPC swapTokens.  Its slippage limit is compared with the output after the
\* swap has been made, and does not enter the state.
SwapTokens(token, amount) == Call /\ pool' = Swap(pool, token, amount)

\* add_liquidity, which the node never calls: its pool has no ZTR.
Provide(ztr, zusd) == Call /\ pool' = AddLiquidity(pool, ztr, zusd)

\* process_swap_fee of pol.rs, and inject_protocol_liquidity by itself.
ProcessSwapFee(ztr, zusd) == Call /\ pool' = Inject(pool, ztr, zusd)

AmmInit == pool = EmptyPool /\ calls = 0

AmmNext ==
  \/ \E token \in Tokens, amount \in Amounts : SwapTokens(token, amount)
  \/ \E ztr, zusd \in Amounts : Provide(ztr, zusd)
  \/ \E ztr, zusd \in Amounts : ProcessSwapFee(ztr, zusd)

ammVars == <<pool, calls>>

AmmSpec == AmmInit /\ [][AmmNext]_ammVars

----------------------------------------------------------------------------

\* Reserves are u128 words: the checked arithmetic of LiquidityPool.
PoolTypeOK ==
  /\ DOMAIN pool = {"ztr", "zusd", "lp", "burned"}
  /\ pool.ztr \in 0..MAX_U128
  /\ pool.zusd \in 0..MAX_U128

\* The pool "maintains the invariant reserve_ztr * reserve_zusd = k (modulo
\* fees)": rounding, an overflow half way through a call or a burn never make
\* the product of the reserves smaller, so no sequence of swaps drains it.
ProductNeverFalls == [][pool'.ztr * pool'.zusd >= pool.ztr * pool.zusd]_ammVars

\* No call dilutes the holders of LP tokens: the product of the reserves per
\* square of the tokens in circulation never falls, whatever is added, burned
\* or swapped, in any proportion.
NoDilution ==
  [][pool.lp > 0 => pool'.ztr * pool'.zusd * pool.lp * pool.lp
                      >= pool.ztr * pool.zusd * pool'.lp * pool'.lp]_ammVars
=============================================================================
