--------------------------- MODULE FinanceProofs ----------------------------
(***************************************************************************)
(* Theorems about the finance components: for every word width, fee,       *)
(* threshold, number of callers and length of a behaviour.                 *)
(***************************************************************************)
EXTENDS Vault, Quarantine, EncryptedMempool, FoldProofs, TLAPS

----------------------------------------------------------------------------
(* The pool                                                                *)

\* Rounding down: the quotient times the divisor is at most the dividend.
LEMMA DivBelow ==
  ASSUME NEW n \in Nat, NEW d \in Nat, d > 0
  PROVE  n \div d \in Nat /\ d * (n \div d) <= n
  OBVIOUS

\* A product of naturals grows with its factors.
LEMMA ProductGrows ==
  ASSUME NEW a \in Nat, NEW b \in Nat, NEW c \in Nat, NEW d \in Nat, a <= c, b <= d
  PROVE  a * b <= c * d /\ a * b \in Nat
<1>1. a * b <= c * b /\ a * b \in Nat  OBVIOUS
<1>2. c * b <= c * d  OBVIOUS
<1> QED  BY <1>1, <1>2

\* The fee of a swap is at most the amount paid.
LEMMA FeeBounded ==
  ASSUME NEW amount \in Nat
  PROVE  SwapFee(amount) \in 0..amount
<1> DEFINE n == amount * AMM_SWAP_FEE_BPS
<1>1. n \in Nat /\ n <= amount * BPS_DENOMINATOR
  BY AmmAssumption, ProductGrows
<1>2. n \div BPS_DENOMINATOR \in Nat /\ BPS_DENOMINATOR * (n \div BPS_DENOMINATOR) <= n
  BY <1>1, DivBelow, AmmAssumption
<1>3. ASSUME NEW q \in Nat, BPS_DENOMINATOR * q <= amount * BPS_DENOMINATOR
      PROVE  q <= amount
  <2>1. SUFFICES ASSUME q >= amount + 1 PROVE FALSE
    BY <1>3
  <2>2. BPS_DENOMINATOR * (amount + 1) <= BPS_DENOMINATOR * q
    BY <2>1, <1>3, AmmAssumption, ProductGrows
  <2>3. BPS_DENOMINATOR * (amount + 1) = amount * BPS_DENOMINATOR + BPS_DENOMINATOR
    BY AmmAssumption
  <2> QED  BY <2>2, <2>3, <1>3, AmmAssumption
<1> QED  BY <1>1, <1>2, <1>3, AmmAssumption DEF SwapFee

\* The constant product, rounded down, with a fee that stays in the pool:
\* the product of the reserves does not fall.
LEMMA SwapKeepsProduct ==
  ASSUME NEW x \in Nat, NEW y \in Nat, NEW paid \in Nat, NEW amount \in Nat,
         x > 0, paid <= amount, Output(x, y, paid) <= y
  PROVE  x * y <= (x + amount) * (y - Output(x, y, paid))
<1> DEFINE out == Output(x, y, paid)
<1>1. y * paid \in Nat
  BY ProductGrows
<1>2. out \in Nat /\ (x + paid) * out <= y * paid
  BY <1>1, DivBelow DEF Output
<1> HIDE DEF out
<1>3. (x + paid) * (y - out) = x * y + y * paid - (x + paid) * out
  BY <1>2
<1>4. y - out \in Nat
  BY <1>2 DEF out
<1>5. (x + paid) * (y - out) <= (x + amount) * (y - out)
  BY <1>4, ProductGrows
<1>6. x * y \in Nat /\ (x + paid) * out \in Nat /\ (x + amount) * (y - out) \in Nat
  BY <1>2, <1>4, ProductGrows
<1> QED  BY <1>1, <1>2, <1>3, <1>5, <1>6 DEF out

\* No swap lowers the product or leaves the range of the reserves.
LEMMA SwapStep ==
  ASSUME PoolTypeOK, NEW token \in Tokens, NEW amount \in Nat,
         pool' = Swap(pool, token, amount)
  PROVE  PoolTypeOK' /\ pool.ztr * pool.zusd <= pool'.ztr * pool'.zusd
<1> DEFINE x == pool[token]
           y == pool[Other(token)]
           paid == amount - SwapFee(amount)
           out == Output(x, y, paid)
<1>1. x \in 0..MAX_U128 /\ y \in 0..MAX_U128
  BY DEF PoolTypeOK, Tokens, Other
<1>2. paid \in Nat /\ paid <= amount
  BY FeeBounded
<1>3. CASE pool' = pool
  BY <1>3, WordsAssumption, ProductGrows DEF PoolTypeOK
<1>4. CASE /\ x > 0 /\ y > 0
           /\ out # 0 /\ out < y /\ x + amount <= MAX_U128
           /\ pool' = [pool EXCEPT ![token] = @ + amount, ![Other(token)] = @ - out]
  <2>1. y * paid \in Nat /\ x + paid \in Nat /\ x + paid > 0
    BY <1>1, <1>2, <1>4, WordsAssumption, ProductGrows
  <2>2. out \in Nat
    BY <2>1, DivBelow DEF Output
  <2>3. x * y <= (x + amount) * (y - out)
    BY <1>1, <1>2, <1>4, <2>2, WordsAssumption, SwapKeepsProduct
  <2> HIDE DEF out, paid
  <2>4. CASE token = "ztr"
    <3>1. pool'.ztr = x + amount /\ pool'.zusd = y - out /\ DOMAIN pool' = DOMAIN pool
      BY <1>4, <2>4 DEF PoolTypeOK, Other
    <3> QED  BY <3>1, <1>1, <1>4, <2>2, <2>3, <2>4, WordsAssumption DEF PoolTypeOK, Other
  <2>5. CASE token = "zusd"
    <3>1. pool'.zusd = x + amount /\ pool'.ztr = y - out /\ DOMAIN pool' = DOMAIN pool
      BY <1>4, <2>5 DEF PoolTypeOK, Other
    <3>2. pool'.ztr * pool'.zusd = (x + amount) * (y - out) /\ pool.ztr * pool.zusd = x * y
      BY <3>1, <1>1, <2>2, <2>5, WordsAssumption DEF Other
    <3> QED  BY <3>1, <3>2, <1>1, <1>4, <2>2, <2>3, <2>5, WordsAssumption DEF PoolTypeOK, Other
  <2> QED  BY <2>4, <2>5 DEF Tokens
<1>5. pool' = pool \/ (pool.ztr # 0 /\ pool.zusd # 0 /\ pool' = SwapFor(pool, token, amount, out))
  BY DEF Swap
<1> HIDE DEF out, paid
<1>6. \/ pool' = pool
      \/ /\ pool.ztr # 0 /\ pool.zusd # 0
         /\ ~(out = 0) /\ ~(out >= y) /\ ~(x + amount > MAX_U128)
         /\ pool' = [pool EXCEPT ![token] = @ + amount, ![Other(token)] = @ - out]
  BY <1>5 DEF SwapFor
<1>7. out \in Nat \/ x = 0
  <2>1. SUFFICES ASSUME x # 0 PROVE out \in Nat
    OBVIOUS
  <2>2. y * paid \in Nat /\ x + paid \in Nat /\ x + paid > 0
    BY <1>1, <1>2, <2>1, WordsAssumption, ProductGrows
  <2> QED  BY <2>2, DivBelow DEF Output, out
<1>8. x \in {pool.ztr, pool.zusd} /\ y \in {pool.ztr, pool.zusd}
  BY DEF Tokens, Other
<1> QED
  BY <1>1, <1>3, <1>4, <1>6, <1>7, <1>8, WordsAssumption

\* Adding and injecting only add to the reserves, whatever is minted, burned
\* or refused, and at the limit of the words too.
LEMMA AddingStep ==
  ASSUME PoolTypeOK, NEW ztr \in Nat, NEW zusd \in Nat,
         \/ pool' = AddLiquidity(pool, ztr, zusd)
         \/ pool' = Inject(pool, ztr, zusd)
  PROVE  PoolTypeOK' /\ pool.ztr * pool.zusd <= pool'.ztr * pool'.zusd
<1>1. /\ DOMAIN pool' = DOMAIN pool
      /\ pool'.ztr \in 0..MAX_U128 /\ pool.ztr <= pool'.ztr
      /\ pool'.zusd \in 0..MAX_U128 /\ pool.zusd <= pool'.zusd
  <2>1. CASE pool' = AddLiquidity(pool, ztr, zusd)
    <3>1. PICK lp : pool' = pool \/ pool' = AddShares(pool, ztr, zusd, lp)
      BY <2>1 DEF AddLiquidity
    <3>2. \/ pool' = pool
          \/ pool.ztr + ztr <= MAX_U128 /\ pool' = [pool EXCEPT !.ztr = @ + ztr]
          \/ /\ pool.ztr + ztr <= MAX_U128 /\ pool.zusd + zusd <= MAX_U128
             /\ \/ pool' = [pool EXCEPT !.ztr = @ + ztr, !.zusd = @ + zusd]
                \/ pool' = [pool EXCEPT !.ztr = @ + ztr, !.zusd = @ + zusd, !.lp = @ + lp]
      BY <3>1, WordsAssumption DEF AddShares, PoolTypeOK
    <3>3. /\ DOMAIN pool' = DOMAIN pool
          /\ pool'.ztr \in {pool.ztr, pool.ztr + ztr}
          /\ pool'.zusd \in {pool.zusd, pool.zusd + zusd}
      BY <3>2 DEF PoolTypeOK
    <3>4. /\ pool'.ztr = pool.ztr \/ pool'.ztr <= MAX_U128
          /\ pool'.zusd = pool.zusd \/ pool'.zusd <= MAX_U128
      BY <3>2 DEF PoolTypeOK
    <3> QED  BY <3>3, <3>4, WordsAssumption DEF PoolTypeOK
  <2>2. CASE pool' = Inject(pool, ztr, zusd)
    BY <2>2, WordsAssumption DEF Inject, PoolTypeOK, Sat128, Least
  <2> QED  BY <2>1, <2>2
<1> QED  BY <1>1, WordsAssumption, ProductGrows DEF PoolTypeOK

\* A step of the pool keeps its type and does not lower the product.
LEMMA PoolStep ==
  ASSUME PoolTypeOK, [AmmNext]_ammVars
  PROVE  PoolTypeOK' /\ [pool'.ztr * pool'.zusd >= pool.ztr * pool.zusd]_ammVars
<1>1. ASSUME NEW token \in Tokens, NEW amount \in Amounts, SwapTokens(token, amount)
      PROVE  PoolTypeOK' /\ pool.ztr * pool.zusd <= pool'.ztr * pool'.zusd
  BY <1>1, SwapStep, AmmAssumption DEF SwapTokens
<1>2. ASSUME NEW ztr \in Amounts, NEW zusd \in Amounts,
             Provide(ztr, zusd) \/ ProcessSwapFee(ztr, zusd)
      PROVE  PoolTypeOK' /\ pool.ztr * pool.zusd <= pool'.ztr * pool'.zusd
  BY <1>2, AddingStep, AmmAssumption DEF Provide, ProcessSwapFee
<1>3. CASE UNCHANGED ammVars
  BY <1>3 DEF ammVars, PoolTypeOK
<1>4. CASE PoolTypeOK' /\ pool.ztr * pool.zusd <= pool'.ztr * pool'.zusd
  BY <1>4, WordsAssumption, ProductGrows DEF PoolTypeOK
<1> QED  BY <1>1, <1>2, <1>3, <1>4 DEF AmmNext

\* An empty pool has its type.
LEMMA PoolStart ==
  AmmInit => PoolTypeOK
  BY WordsAssumption DEF AmmInit, PoolTypeOK, EmptyPool

\* Both reserves stay in the range of a u128 whatever is called.
THEOREM PoolTypeCorrect == AmmSpec => []PoolTypeOK
<1>1. AmmInit => PoolTypeOK
  BY PoolStart
<1>2. PoolTypeOK /\ [AmmNext]_ammVars => PoolTypeOK'
  BY PoolStep
<1> QED  BY <1>1, <1>2, PTL DEF AmmSpec

\* The invariant of the constant product: no sequence of swaps, deposits and
\* injections, of any amounts and at any fee, lowers the product of the
\* reserves.
THEOREM ProductHolds == AmmSpec => ProductNeverFalls
<1>1. PoolTypeOK /\ [AmmNext]_ammVars
        => [pool'.ztr * pool'.zusd >= pool.ztr * pool.zusd]_ammVars
  BY PoolStep
<1> QED  BY <1>1, PoolTypeCorrect, PTL DEF AmmSpec, ProductNeverFalls

----------------------------------------------------------------------------
(* integer_sqrt                                                            *)

\* One step of Newton's iteration for the root of n.
NewtonFrom(n, x) == (x + n \div x) \div 2

\* The iterations for n from every start up to k.
NewtonTable(n, k, f) ==
  f = [x \in 1..k |-> IF NewtonFrom(n, x) < x THEN f[NewtonFrom(n, x)] ELSE x]

\* The root is the entry at n of the table.
LEMMA SqrtIsChosen ==
  ASSUME NEW n \in Nat
  PROVE  IntegerSqrt(n) = IF n = 0 THEN 0 ELSE (CHOOSE f : NewtonTable(n, n, f))[n]
BY DEF IntegerSqrt, NewtonTable, NewtonFrom

\* A step stays above zero and, where it does not fall any more, at or below
\* the root; and it never goes below the root, because the mean of x and n / x
\* is at least their geometric mean.
LEMMA NewtonFacts ==
  ASSUME NEW n \in Nat, NEW x \in 1..n
  PROVE  /\ NewtonFrom(n, x) \in Nat /\ NewtonFrom(n, x) >= 1
         /\ ~ (NewtonFrom(n, x) < x) => x * x <= n
         /\ n < (NewtonFrom(n, x) + 1) * (NewtonFrom(n, x) + 1)
<1> DEFINE q == n \div x
           y == NewtonFrom(n, x)
           s == x + q
<1>1. q \in Nat /\ x * q <= n /\ n < x * (q + 1) /\ q >= 1
  <2>1. q \in Nat /\ x * q <= n /\ n < x * q + x
    OBVIOUS
  <2>2. x * (q + 1) = x * q + x
    BY <2>1
  <2>3. q # 0
    <3>1. x * 0 = 0
      OBVIOUS
    <3> QED
      BY <2>1, <3>1
  <2> QED
    BY <2>1, <2>2, <2>3
<1> HIDE DEF q
<1>2. s \in Nat /\ s >= 2 /\ y = s \div 2
  BY <1>1 DEF NewtonFrom, q
<1>3. y \in Nat /\ y >= 1 /\ 2 * y <= s /\ s <= 2 * y + 1
  BY <1>2
<1>4. ASSUME ~ (y < x) PROVE x * x <= n
  <2>1. x <= q
    BY <1>1, <1>3, <1>4
  <2>2. x * x <= x * q /\ x * x \in Nat /\ x * q \in Nat
    BY <1>1, <2>1, ProductGrows
  <2> QED
    BY <1>1, <2>2
<1>5. n < (y + 1) * (y + 1)
  <2> DEFINE p == q + 1
             z == y + 1
  <2>1. p \in Nat /\ z \in Nat /\ x + p <= 2 * z /\ x + p \in Nat
    BY <1>1, <1>3
  <2>2. (x + p) * (x + p) <= (2 * z) * (2 * z)
    BY <2>1, ProductGrows
  <2>3. n + 1 <= x * p
    BY <1>1
  <2> HIDE DEF p, z, s, y
  <2>4. (x - p) * (x - p) >= 0
    BY <2>1
  <2>5. (x + p) * (x + p) = (x - p) * (x - p) + 4 * (x * p)
    BY <2>1
  <2>6. (2 * z) * (2 * z) = 4 * (z * z) /\ z * z \in Nat /\ x * p \in Nat
    BY <2>1, ProductGrows
  <2>7. x * p <= z * z
    <3> DEFINE ss == (x + p) * (x + p)
               dd == (x - p) * (x - p)
               tt == (2 * z) * (2 * z)
               xp == x * p
               zz == z * z
    <3>1. ss <= tt /\ dd >= 0 /\ ss = dd + 4 * xp /\ tt = 4 * zz
      BY <2>2, <2>4, <2>5, <2>6
    <3>2. dd \in Int /\ xp \in Int /\ zz \in Int
      BY <2>1
    <3> HIDE DEF ss, dd, tt, xp, zz
    <3>3. xp <= zz
      BY <3>1, <3>2
    <3> QED
      BY <3>3 DEF xp, zz
  <2>8. n < z * z
    <3> DEFINE xp == x * p
               zz == z * z
    <3>1. n + 1 <= xp /\ xp <= zz /\ xp \in Nat /\ zz \in Nat
      BY <2>3, <2>6, <2>7
    <3> HIDE DEF xp, zz
    <3>2. n < zz
      BY <3>1
    <3> QED
      BY <3>2 DEF zz
  <2> QED
    BY <2>8 DEF z
<1> QED
  BY <1>3, <1>4, <1>5

\* The table exists: a step that falls leads to an earlier entry.
LEMMA NewtonExists ==
  ASSUME NEW n \in Nat, n > 0
  PROVE  NewtonTable(n, n, CHOOSE f : NewtonTable(n, n, f))
<1> DEFINE T == {k \in Nat : k <= n => \E f : NewtonTable(n, k, f)}
<1>1. 0 \in T
  <2>1. NewtonTable(n, 0, [x \in 1..0 |-> x])
    BY DEF NewtonTable
  <2> QED
    BY <2>1
<1>2. ASSUME NEW k \in Nat, k \in T PROVE k + 1 \in T
  <2>1. SUFFICES ASSUME k + 1 <= n PROVE \E f : NewtonTable(n, k + 1, f)
    OBVIOUS
  <2>2. PICK f : NewtonTable(n, k, f)
    BY <1>2, <2>1
  <2> DEFINE Row(h, x) == IF NewtonFrom(n, x) < x THEN h[NewtonFrom(n, x)] ELSE x
             g == [x \in 1..(k + 1) |-> IF x <= k THEN f[x] ELSE Row(f, x)]
  <2>3. \A x \in 1..k : f[x] = Row(f, x)
    BY <2>2 DEF NewtonTable
  <2>4. \A x \in 1..(k + 1) : NewtonFrom(n, x) < x => NewtonFrom(n, x) \in 1..k
    <3>1. TAKE x \in 1..(k + 1)
    <3>2. x \in 1..n
      BY <2>1
    <3> QED
      BY <3>2, NewtonFacts
  <2>5. \A x \in 1..k : g[x] = f[x]
    OBVIOUS
  <2>6. g = [x \in 1..(k + 1) |-> Row(g, x)]
    <3>1. \A x \in 1..(k + 1) : Row(g, x) = Row(f, x)
      <4> HIDE DEF g
      <4> QED
        BY <2>4, <2>5
    <3>2. \A x \in 1..(k + 1) : g[x] = Row(f, x)
      BY <2>3
    <3>3. \A x \in 1..(k + 1) : g[x] = Row(g, x)
      <4> HIDE DEF g, Row
      <4> QED
        BY <3>1, <3>2
    <3>4. g = [x \in 1..(k + 1) |-> g[x]]
      OBVIOUS
    <3> HIDE DEF g, Row
    <3> QED
      BY <3>3, <3>4
  <2>7. NewtonTable(n, k + 1, g)
    <3> HIDE DEF g
    <3> QED
      BY <2>6 DEF NewtonTable
  <2> QED
    BY <2>7
<1> HIDE DEF T
<1>3. n \in T
  BY <1>1, <1>2, SetInduction
<1>4. \E f : NewtonTable(n, n, f)
  BY <1>3 DEF T
<1> QED
  BY <1>4

\* r is the largest number whose square is at most n.
FloorRoot(n, r) == r \in Nat /\ r * r <= n /\ n < (r + 1) * (r + 1)

\* integer_sqrt computes the root, rounded down, of every number: the loop
\* ends, and not too early.
THEOREM SqrtIsFloor ==
  ASSUME NEW n \in Nat
  PROVE  FloorRoot(n, IntegerSqrt(n))
<1>1. CASE n = 0
  <2>1. IntegerSqrt(n) = 0
    BY <1>1, SqrtIsChosen
  <2>2. FloorRoot(0, 0)
    BY DEF FloorRoot
  <2> QED
    BY <1>1, <2>1, <2>2
<1>2. CASE n > 0
  <2>1. PICK f : f = (CHOOSE g : NewtonTable(n, n, g))
    OBVIOUS
  <2>2. NewtonTable(n, n, f) /\ IntegerSqrt(n) = f[n]
    BY <1>2, <2>1, NewtonExists, SqrtIsChosen
  <2>3. \A x \in 1..n : f[x] = IF NewtonFrom(n, x) < x THEN f[NewtonFrom(n, x)] ELSE x
    BY <2>2 DEF NewtonTable
  <2> DEFINE Fine(x) == n < (x + 1) * (x + 1) => FloorRoot(n, f[x])
             T == {k \in Nat : \A x \in 1..n : x <= k => Fine(x)}
  <2>4. 0 \in T
    <3>1. \A x \in 1..n : ~ (x <= 0)
      OBVIOUS
    <3> HIDE DEF Fine
    <3> QED
      BY <3>1
  <2>5. ASSUME NEW k \in Nat, k \in T PROVE k + 1 \in T
    <3>1. SUFFICES ASSUME NEW x \in 1..n, x = k + 1, n < (x + 1) * (x + 1)
                   PROVE  FloorRoot(n, f[x])
      <4>1. \A x \in 1..n : x = k + 1 => Fine(x)
        BY <3>1
      <4> HIDE DEF Fine
      <4>2. \A x \in 1..n : x <= k + 1 => x <= k \/ x = k + 1
        OBVIOUS
      <4> QED
        BY <2>5, <4>1, <4>2
    <3> DEFINE y == NewtonFrom(n, x)
    <3>2. y \in Nat /\ y >= 1 /\ (~ (y < x) => x * x <= n) /\ n < (y + 1) * (y + 1)
      BY NewtonFacts
    <3>3. CASE y < x
      <4>1. y \in 1..n /\ y <= k
        BY <3>1, <3>2, <3>3
      <4>2. FloorRoot(n, f[y])
        <5> HIDE DEF y
        <5> QED
          BY <2>5, <3>2, <4>1
      <4>3. f[x] = f[y]
        BY <2>3, <3>3
      <4> QED
        BY <4>2, <4>3
    <3>4. CASE ~ (y < x)
      <4>1. f[x] = x
        BY <2>3, <3>4
      <4> QED
        BY <3>1, <3>2, <3>4, <4>1 DEF FloorRoot
    <3> QED
      BY <3>3, <3>4
  <2> HIDE DEF T
  <2>6. n \in T
    BY <2>4, <2>5, SetInduction
  <2>7. n < (n + 1) * (n + 1) /\ n \in 1..n
    <3>1. (n + 1) * (n + 1) = n * n + 2 * n + 1 /\ n * n \in Nat
      BY ProductGrows
    <3> QED
      BY <1>2, <3>1
  <2> QED
    BY <2>2, <2>6, <2>7 DEF T
<1> QED
  BY <1>1, <1>2

----------------------------------------------------------------------------
(* Holders of LP tokens                                                    *)

\* Whoever holds tokens holds them in two reserves that are not empty.
PoolIInv == PoolTypeOK /\ pool.lp \in Nat /\ (pool.lp > 0 => pool.ztr > 0 /\ pool.zusd > 0)

\* Each side alone: the tokens for a deposit of a, rounded down, against the
\* reserve x.
LEMMA SideGrows ==
  ASSUME NEW x \in Nat, x > 0, NEW a \in Nat, NEW lp \in Nat, NEW s \in Nat,
         s <= (a * lp) \div x
  PROVE  (lp + s) * x <= lp * (x + a)
<1> DEFINE q == (a * lp) \div x
<1>1. a * lp \in Nat
  BY ProductGrows
<1>2. q \in Nat /\ x * q <= a * lp
  BY <1>1, DivBelow
<1> HIDE DEF q
<1>3. s * x <= q * x
  BY <1>2, ProductGrows DEF q
<1>4. (lp + s) * x = lp * x + s * x /\ lp * (x + a) = lp * x + a * lp /\ q * x = x * q
  BY <1>2
<1>5. lp * x \in Nat /\ s * x \in Nat /\ q * x \in Nat
  BY <1>2, ProductGrows
<1> QED
  BY <1>1, <1>2, <1>3, <1>4, <1>5

\* The product per square of the tokens does not fall when tokens are given
\* for the smaller of the two sides.
LEMMA SharesKeep ==
  ASSUME NEW x \in Nat, NEW y \in Nat, x > 0, y > 0, NEW a \in Nat, NEW b \in Nat,
         NEW lp \in Nat, NEW s \in Nat, s <= (a * lp) \div x, s <= (b * lp) \div y
  PROVE  (x + a) * (y + b) * lp * lp >= x * y * (lp + s) * (lp + s)
<1> DEFINE m == lp + s
           u == x + a
           v == y + b
<1>1. m * x <= lp * u /\ m * y <= lp * v
  BY SideGrows
<1>2. m \in Nat /\ u \in Nat /\ v \in Nat
  OBVIOUS
<1> HIDE DEF m, u, v
<1>3. m * x \in Nat /\ m * y \in Nat /\ lp * u \in Nat /\ lp * v \in Nat
  BY <1>2, ProductGrows
<1>4. (m * x) * (m * y) <= (lp * u) * (lp * v)
  BY <1>1, <1>3, ProductGrows
<1>5. x * y * m * m = (m * x) * (m * y) /\ u * v * lp * lp = (lp * u) * (lp * v)
  BY <1>2
<1> QED
  BY <1>4, <1>5 DEF m, u, v

\* Where the tokens stay and the product does not fall.
LEMMA SameTokens ==
  ASSUME NEW p \in Nat, NEW q \in Nat, p <= q, NEW lp \in Nat
  PROVE  q * lp * lp >= p * lp * lp
<1>1. p * lp <= q * lp /\ p * lp \in Nat /\ q * lp \in Nat
  BY ProductGrows
<1> QED
  BY <1>1, ProductGrows

\* What a call does to the tokens: nothing, or add_liquidity mints the first
\* ones, or the smaller share for both sides.
LEMMA TokensStep ==
  ASSUME PoolIInv, [AmmNext]_ammVars
  PROVE  \/ pool'.lp = pool.lp
         \/ \E a, b \in Nat, s \in Nat :
              /\ a > 0 /\ b > 0 /\ s > 0
              /\ pool'.ztr = pool.ztr + a /\ pool'.zusd = pool.zusd + b /\ pool'.lp = pool.lp + s
              /\ pool.lp > 0 => s <= (a * pool.lp) \div pool.ztr /\ s <= (b * pool.lp) \div pool.zusd
<1>0. DOMAIN pool = {"ztr", "zusd", "lp", "burned"} /\ pool.ztr \in Nat /\ pool.zusd \in Nat /\ pool.lp \in Nat
  BY WordsAssumption DEF PoolIInv, PoolTypeOK
<1>1. ASSUME NEW token \in Tokens, NEW amount \in Amounts, SwapTokens(token, amount)
      PROVE  pool'.lp = pool.lp
  <2>1. PICK out : pool' = pool \/ pool' = SwapFor(pool, token, amount, out)
    BY <1>1 DEF SwapTokens, Swap
  <2>2. \/ pool' = pool
        \/ pool' = [pool EXCEPT ![token] = @ + amount, ![Other(token)] = @ - out]
    BY <2>1 DEF SwapFor
  <2>3. token # "lp" /\ Other(token) # "lp"
    BY DEF Tokens, Other
  <2> QED
    BY <1>0, <2>2, <2>3
<1>2. ASSUME NEW ztr \in Amounts, NEW zusd \in Amounts, ProcessSwapFee(ztr, zusd)
      PROVE  pool'.lp = pool.lp
  BY <1>0, <1>2 DEF ProcessSwapFee, Inject
<1>3. ASSUME NEW ztr \in Amounts, NEW zusd \in Amounts, Provide(ztr, zusd), pool'.lp # pool.lp
      PROVE  \E s \in Nat :
               /\ ztr > 0 /\ zusd > 0 /\ s > 0
               /\ pool'.ztr = pool.ztr + ztr /\ pool'.zusd = pool.zusd + zusd /\ pool'.lp = pool.lp + s
               /\ pool.lp > 0 => s <= (ztr * pool.lp) \div pool.ztr /\ s <= (zusd * pool.lp) \div pool.zusd
  <2>0. ztr \in Nat /\ zusd \in Nat
    BY AmmAssumption
  <2> DEFINE root == IntegerSqrt(ztr * zusd)
             share == Shares(pool, ztr, zusd)
             s == IF pool.lp = 0 THEN root ELSE share
  <2>1. ztr # 0 /\ zusd # 0 /\ pool' = AddShares(pool, ztr, zusd, s)
    BY <1>3 DEF Provide, AddLiquidity
  <2>2. s \in Nat /\ (pool.lp > 0 => s <= (ztr * pool.lp) \div pool.ztr
                                     /\ s <= (zusd * pool.lp) \div pool.zusd)
    <3>1. CASE pool.lp = 0
      <4>1. ztr * zusd \in Nat
        BY <2>0, ProductGrows
      <4>2. root \in Nat
        BY <4>1, SqrtIsFloor DEF FloorRoot
      <4> QED
        BY <3>1, <4>2
    <3>2. CASE pool.lp > 0
      <4>1. pool.ztr > 0 /\ pool.zusd > 0
        BY <3>2 DEF PoolIInv
      <4>2. ztr * pool.lp \in Nat /\ zusd * pool.lp \in Nat
        BY <1>0, <2>0, ProductGrows
      <4>3. (ztr * pool.lp) \div pool.ztr \in Nat /\ (zusd * pool.lp) \div pool.zusd \in Nat
        BY <1>0, <4>1, <4>2, DivBelow
      <4> QED
        BY <3>2, <4>3 DEF Shares, Least
    <3> QED
      BY <1>0, <3>1, <3>2
  <2> HIDE DEF s
  <2>3. s # 0 /\ pool' = [pool EXCEPT !.ztr = @ + ztr, !.zusd = @ + zusd, !.lp = @ + s]
    BY <1>0, <1>3, <2>1 DEF AddShares
  <2>4. pool'.ztr = pool.ztr + ztr /\ pool'.zusd = pool.zusd + zusd /\ pool'.lp = pool.lp + s
    BY <1>0, <2>3
  <2> QED
    BY <2>0, <2>1, <2>2, <2>3, <2>4
<1>4. CASE UNCHANGED ammVars
  BY <1>4 DEF ammVars
<1> QED
  BY <1>1, <1>2, <1>3, <1>4, AmmAssumption DEF AmmNext

\* A step keeps the reserves of those who hold tokens, and dilutes nobody.
LEMMA DilutionStep ==
  ASSUME PoolIInv, [AmmNext]_ammVars
  PROVE  /\ PoolIInv'
         /\ pool.lp > 0 => pool'.ztr * pool'.zusd * pool.lp * pool.lp
                             >= pool.ztr * pool.zusd * pool'.lp * pool'.lp
<1> DEFINE x == pool.ztr
           y == pool.zusd
<1>1. x \in Nat /\ y \in Nat /\ pool.lp \in Nat /\ (pool.lp > 0 => x > 0 /\ y > 0)
  BY WordsAssumption DEF PoolIInv, PoolTypeOK
<1>2. PoolTypeOK' /\ pool'.ztr \in Nat /\ pool'.zusd \in Nat
  BY PoolStep, WordsAssumption DEF PoolIInv, PoolTypeOK
<1>3. x * y <= pool'.ztr * pool'.zusd /\ x * y \in Nat /\ pool'.ztr * pool'.zusd \in Nat
  <2>1. x * y \in Nat /\ pool'.ztr * pool'.zusd \in Nat
    BY <1>1, <1>2, ProductGrows
  <2>2. pool' = pool \/ pool'.ztr * pool'.zusd >= pool.ztr * pool.zusd
    BY PoolStep DEF PoolIInv, ammVars
  <2> QED
    BY <2>1, <2>2
<1>4. CASE pool'.lp = pool.lp
  <2>1. ASSUME pool.lp > 0 PROVE pool'.ztr > 0 /\ pool'.zusd > 0
    <3>1. x * y > 0
      BY <1>1, <2>1
    <3>2. pool'.ztr * pool'.zusd > 0
      BY <1>3, <3>1
    <3> QED
      BY <1>2, <3>2
  <2>2. pool'.ztr * pool'.zusd * pool.lp * pool.lp >= x * y * pool.lp * pool.lp
    BY <1>1, <1>3, SameTokens
  <2> QED
    BY <1>1, <1>2, <1>4, <2>1, <2>2 DEF PoolIInv
<1>5. CASE \E a, b \in Nat, s \in Nat :
             /\ a > 0 /\ b > 0 /\ s > 0
             /\ pool'.ztr = pool.ztr + a /\ pool'.zusd = pool.zusd + b /\ pool'.lp = pool.lp + s
             /\ pool.lp > 0 => s <= (a * pool.lp) \div pool.ztr /\ s <= (b * pool.lp) \div pool.zusd
  <2>1. PICK a \in Nat, b \in Nat, s \in Nat :
             /\ a > 0 /\ b > 0 /\ s > 0
             /\ pool'.ztr = pool.ztr + a /\ pool'.zusd = pool.zusd + b /\ pool'.lp = pool.lp + s
             /\ pool.lp > 0 => s <= (a * pool.lp) \div pool.ztr /\ s <= (b * pool.lp) \div pool.zusd
    BY <1>5
  <2>2. PoolIInv'
    BY <1>1, <1>2, <2>1 DEF PoolIInv
  <2>3. ASSUME pool.lp > 0
        PROVE  (x + a) * (y + b) * pool.lp * pool.lp >= x * y * (pool.lp + s) * (pool.lp + s)
    BY <1>1, <2>1, <2>3, SharesKeep
  <2> QED
    BY <2>1, <2>2, <2>3
<1> QED
  BY <1>4, <1>5, TokensStep

\* No sequence of calls dilutes the holders of LP tokens, for every width of
\* the words, every fee and all amounts: deposits out of proportion, deposits
\* that fail half way and injections included.
THEOREM HoldersNotDiluted == AmmSpec => NoDilution
<1>1. AmmInit => PoolIInv
  BY PoolStart DEF PoolIInv, AmmInit, EmptyPool
<1>2. PoolIInv /\ [AmmNext]_ammVars
        => PoolIInv' /\ [pool.lp > 0 => pool'.ztr * pool'.zusd * pool.lp * pool.lp
                                         >= pool.ztr * pool.zusd * pool'.lp * pool'.lp]_ammVars
  BY DilutionStep
<1> QED
  BY <1>1, <1>2, PTL DEF AmmSpec, NoDilution

----------------------------------------------------------------------------
(* The quarantine                                                          *)

\* Conservation needs that a member's entry never saturates, hence the bound
\* on what it has posted; the full term needs that the lock of an entry is
\* the one its last offence gave.
QuarantineIInv ==
  /\ QuarantineTypeOK
  /\ CollateralConserved
  /\ \A m \in Members : posted[m] <= MaxLocked
  /\ \A m \in Members : m \notin quarantined => locked[m] = 0
  /\ \A m \in quarantined : unlock[m] = Sat64(offence[m] + QUARANTINE_LOCK_BLOCKS)

\* Sat64 yields a height.
LEMMA Sat64Type ==
  ASSUME NEW n \in Nat
  PROVE  Sat64(n) \in 0..MAX_U64
  BY WordsAssumption DEF Sat64, Least

\* Locking again, locking anew and unlocking each keep the invariant.
LEMMA QuarantineStep ==
  ASSUME QuarantineIInv, [QuarantineNext]_qVars
  PROVE  /\ QuarantineIInv'
         /\ [\A m \in quarantined \ quarantined' :
               height' >= Sat64(offence[m] + QUARANTINE_LOCK_BLOCKS)]_qVars
<1> USE QuarantineAssumption, WordsAssumption
<1>1. ASSUME NEW m \in Members, NEW h \in Heights, NEW collateral \in Collaterals,
             ExecuteQuarantine(m, h, collateral)
      PROVE  QuarantineIInv' /\ quarantined \ quarantined' = {}
  <2> USE <1>1 DEF QuarantineIInv, ExecuteQuarantine, UnlockHeight
  <2>1. h \in 0..MAX_U64 /\ collateral \in Nat
    OBVIOUS
  <2>2. Sat64(h + QUARANTINE_LOCK_BLOCKS) \in 0..MAX_U64
    BY <2>1, Sat64Type
  <2>3. locked'[m] = locked[m] + collateral /\ locked'[m] \in 0..MAX_U128
    <3>1. locked[m] + collateral <= posted[m] + collateral /\ locked[m] \in Nat
      BY <2>1 DEF QuarantineTypeOK, CollateralConserved
    <3>2. locked[m] + collateral \in 0..MAX_U128
      BY <3>1, <2>1 DEF QuarantineTypeOK
    <3>3. Collateral(m, collateral) = locked[m] + collateral
      BY <3>2, <2>1 DEF Collateral, Sat128, Least
    <3> QED  BY <3>2, <3>3 DEF QuarantineTypeOK
  <2>4. QuarantineTypeOK'
    BY <2>1, <2>2, <2>3 DEF QuarantineTypeOK
  <2>5. CollateralConserved'
    BY <2>1, <2>3 DEF QuarantineTypeOK, CollateralConserved
  <2>6. \A n \in Members : posted'[n] <= MaxLocked
    BY DEF QuarantineTypeOK
  <2>7. \A n \in Members : n \notin quarantined' => locked'[n] = 0
    BY DEF QuarantineTypeOK
  <2>8. \A n \in quarantined' : unlock'[n] = Sat64(offence'[n] + QUARANTINE_LOCK_BLOCKS)
    BY DEF QuarantineTypeOK
  <2> QED  BY <2>4, <2>5, <2>6, <2>7, <2>8
<1>2. ASSUME NEW m \in Members, NEW h \in Heights, ProcessUnlock(m, h)
      PROVE  /\ QuarantineIInv'
             /\ \A n \in quarantined \ quarantined' :
                  height' >= Sat64(offence[n] + QUARANTINE_LOCK_BLOCKS)
  <2> USE <1>2 DEF QuarantineIInv, ProcessUnlock
  <2>1. QuarantineTypeOK'
    BY DEF QuarantineTypeOK
  <2>2. CollateralConserved'
    BY DEF QuarantineTypeOK, CollateralConserved
  <2>3. \A n \in Members : n \notin quarantined' => locked'[n] = 0
    BY DEF QuarantineTypeOK
  <2>4. \A n \in quarantined' : unlock'[n] = Sat64(offence'[n] + QUARANTINE_LOCK_BLOCKS)
    BY DEF QuarantineTypeOK
  <2>5. \A n \in quarantined \ quarantined' :
          height' >= Sat64(offence[n] + QUARANTINE_LOCK_BLOCKS)
    BY DEF QuarantineTypeOK
  <2> QED  BY <2>1, <2>2, <2>3, <2>4, <2>5
<1>3. CASE UNCHANGED qVars
  BY <1>3 DEF qVars, QuarantineIInv, QuarantineTypeOK, CollateralConserved
<1> QED  BY <1>1, <1>2, <1>3 DEF QuarantineNext

\* The inductive invariant of the quarantine.
THEOREM QuarantineInvariant == QuarantineSpec => []QuarantineIInv
<1>1. QuarantineInit => QuarantineIInv
  BY QuarantineAssumption, WordsAssumption
     DEF QuarantineInit, QuarantineIInv, QuarantineTypeOK, CollateralConserved
<1>2. QuarantineIInv /\ [QuarantineNext]_qVars => QuarantineIInv'
  BY QuarantineStep
<1> QED  BY <1>1, <1>2, PTL DEF QuarantineSpec

\* What was taken from a member is locked or has been given back.
THEOREM CollateralIsConserved == QuarantineSpec => []CollateralConserved
  BY QuarantineInvariant, PTL DEF QuarantineIInv

\* No member leaves before the term that its last offence began is over.
THEOREM TermIsServed == QuarantineSpec => HeldFullTerm
<1>1. QuarantineIInv /\ [QuarantineNext]_qVars
        => [\A m \in quarantined \ quarantined' :
              height' >= Sat64(offence[m] + QUARANTINE_LOCK_BLOCKS)]_qVars
  BY QuarantineStep
<1> QED  BY <1>1, QuarantineInvariant, PTL DEF QuarantineSpec, HeldFullTerm

----------------------------------------------------------------------------
(* The vault                                                               *)

vaultAll == <<vaultVars, ammVars>>

VaultStepOf == VaultNext /\ UNCHANGED calls

\* That the second lock section finds its own request needs that the index
\* kept from the first is still that of the request: requests are never
\* removed, and no deposit has two.
VaultIInv ==
  /\ VaultTypeOK
  /\ OneRequestPerDeposit
  /\ \A c \in Callers : rpc[c].at = "queued" =>
       rpc[c].index \in DOMAIN requests /\ requests[rpc[c].index].tx = rpc[c].tx

\* Queueing a new deposit keeps the requests apart.
LEMMA SubmitKeeps ==
  ASSUME requests \in QueueType, OneRequestPerDeposit,
         NEW tx \in TxHashes, NEW amount \in Nat, CanSubmit(tx, amount),
         requests' = Append(requests, Request(tx, amount))
  PROVE  /\ requests' \in QueueType
         /\ OneRequestPerDeposit'
         /\ Len(requests') = Len(requests) + 1
         /\ requests'[Len(requests) + 1].tx = tx
         /\ \A i \in DOMAIN requests : i \in DOMAIN requests' /\ requests'[i] = requests[i]
<1>1. Request(tx, amount) \in [tx : TxHashes, amount : Nat, status : Statuses]
  BY DEF Request, Statuses
<1>2. /\ requests' \in QueueType
      /\ Len(requests') = Len(requests) + 1
      /\ DOMAIN requests = 1..Len(requests) /\ DOMAIN requests' = 1..Len(requests')
      /\ requests'[Len(requests) + 1] = Request(tx, amount)
      /\ \A i \in DOMAIN requests : i \in DOMAIN requests' /\ requests'[i] = requests[i]
  BY <1>1 DEF QueueType
<1>3. Len(requests) \in Nat
  BY DEF QueueType
<1>4. Request(tx, amount).tx = tx
  BY DEF Request
<1>5. OneRequestPerDeposit'
  <2> SUFFICES ASSUME NEW i \in DOMAIN requests', NEW j \in DOMAIN requests',
                      requests'[i].tx = requests'[j].tx
               PROVE  i = j
    BY DEF OneRequestPerDeposit
  <2>1. \A k \in DOMAIN requests' : k \in DOMAIN requests \/ k = Len(requests) + 1
    BY <1>2, <1>3
  <2> QED  BY <2>1, <1>2, <1>4 DEF OneRequestPerDeposit, CanSubmit
<1> QED  BY <1>2, <1>4, <1>5

\* A change of status keeps everything else.
LEMMA StatusKeeps ==
  ASSUME requests \in QueueType, OneRequestPerDeposit,
         NEW i \in DOMAIN requests, NEW status \in Statuses,
         requests' = [requests EXCEPT ![i].status = status]
  PROVE  /\ requests' \in QueueType
         /\ OneRequestPerDeposit'
         /\ DOMAIN requests' = DOMAIN requests
         /\ requests'[i].status = status
         /\ \A j \in DOMAIN requests : requests'[j].tx = requests[j].tx
<1> DEFINE R == [tx : TxHashes, amount : Nat, status : Statuses]
<1>1. requests \in Seq(R)
  BY DEF QueueType
<1>2. Len(requests) \in Nat /\ DOMAIN requests = 1..Len(requests) /\ requests \in [1..Len(requests) -> R]
  <2> HIDE DEF R
  <2> QED  BY <1>1
<1>3. DOMAIN requests' = DOMAIN requests /\ requests'[i] = [requests[i] EXCEPT !.status = status]
  BY <1>2
<1>4. requests'[i] \in R /\ requests'[i].status = status
  BY <1>2, <1>3
<1>5. requests' \in Seq(R)
  <2> HIDE DEF R
  <2>1. requests' \in [1..Len(requests) -> R]
    BY <1>2, <1>3, <1>4
  <2> QED  BY <1>2, <2>1
<1>6. \A j \in DOMAIN requests : requests'[j].tx = requests[j].tx
  BY DEF QueueType
<1> QED  BY <1>3, <1>4, <1>5, <1>6 DEF OneRequestPerDeposit, QueueType

\* What the handler signs passes the checks, if its request is still pending.
LEMMA RpcPasses ==
  ASSUME VaultIInv, NEW c \in Callers, rpc[c].at = "queued",
         keyGen # 0, requests[rpc[c].index].status = "Pending"
  PROVE  CanValidate(IndexOf(c), RpcSignatures(c))
<1>1. Len(RpcSignatures(c)) = RpcSigners /\ DOMAIN RpcSignatures(c) = 1..RpcSigners
  BY VaultAssumption DEF RpcSignatures
<1>2. NoAbort(RpcSignatures(c), rpc[c].tx)
  BY <1>1, VaultAssumption DEF NoAbort, RpcSignatures
<1> QED  BY <1>1, <1>2, VaultAssumption DEF CanValidate, IndexOf, VaultIInv, VaultTypeOK

\* One answer of the handler, as DepositAnswered states it.
AnswerRight ==
  \A c \in Callers, i \in DOMAIN requests :
    rpc[c].at = "queued" /\ rpc'[c].at # "queued" /\ requests[i].tx = rpc[c].tx =>
      IF keyGen # 0 /\ requests[i].status = "Pending"
      THEN rpc'[c].at = "minted" /\ requests'[i].status = "Minted"
      ELSE rpc'[c].at = "failed"

\* Every action of the vault, of a caller or of the local path, keeps the
\* invariant, and the second section of vaultDeposit finds its own request.
LEMMA VaultStep ==
  ASSUME VaultIInv, [VaultStepOf]_vaultAll
  PROVE  VaultIInv' /\ [AnswerRight]_vaultVars
<1> USE DEF VaultIInv, VaultTypeOK
<1>1. ASSUME NEW tx \in TxHashes, NEW amount \in Deposits, SubmitIngest(tx, amount)
      PROVE  VaultIInv' /\ AnswerRight
  <2>1. amount \in Nat
    BY VaultAssumption
  <2> QED  BY <1>1, <2>1, SubmitKeeps DEF SubmitIngest, AnswerRight, RpcType
<1>2. ASSUME NEW i \in DOMAIN requests, NEW sigs \in SignatureLists, ValidateIngest(i, sigs)
      PROVE  VaultIInv' /\ AnswerRight
  <2>1. requests' = [requests EXCEPT ![i].status = "Validated"] /\ rpc' = rpc
    BY <1>2 DEF ValidateIngest
  <2>2. /\ requests' \in QueueType /\ OneRequestPerDeposit'
        /\ DOMAIN requests' = DOMAIN requests
        /\ \A j \in DOMAIN requests : requests'[j].tx = requests[j].tx
    BY <2>1, StatusKeeps DEF Statuses
  <2> QED  BY <2>1, <2>2 DEF AnswerRight
<1>3. ASSUME NEW i \in DOMAIN requests, MintZusd(i)
      PROVE  VaultIInv' /\ AnswerRight
  <2>1. requests' = [requests EXCEPT ![i].status = "Minted"] /\ rpc' = rpc
    BY <1>3 DEF MintZusd
  <2>2. /\ requests' \in QueueType /\ OneRequestPerDeposit'
        /\ DOMAIN requests' = DOMAIN requests
        /\ \A j \in DOMAIN requests : requests'[j].tx = requests[j].tx
    BY <2>1, StatusKeeps DEF Statuses
  <2> QED  BY <2>1, <2>2 DEF AnswerRight
<1>4. ASSUME NEW c \in Callers, NEW string \in TxHashes \cup Malformed,
             NEW amount \in Deposits, RpcSubmit(c, string, amount)
      PROVE  VaultIInv' /\ AnswerRight
  <2> DEFINE tx == DecodeHash(string)
  <2>1. tx \in TxHashes /\ amount \in Nat
    BY VaultAssumption DEF DecodeHash
  <2>2. /\ CanSubmit(tx, amount)
        /\ requests' = Append(requests, Request(tx, amount))
        /\ rpc' = [rpc EXCEPT ![c] = [at |-> "queued", tx |-> tx, index |-> Len(requests) + 1]]
        /\ rpc[c].at # "queued"
    BY <1>4 DEF RpcSubmit
  <2> HIDE DEF tx
  <2>3. /\ requests' \in QueueType /\ OneRequestPerDeposit'
        /\ Len(requests') = Len(requests) + 1 /\ requests'[Len(requests) + 1].tx = tx
        /\ \A i \in DOMAIN requests : i \in DOMAIN requests' /\ requests'[i] = requests[i]
    BY <2>1, <2>2, SubmitKeeps
  <2>4. Len(requests) + 1 \in DOMAIN requests' /\ Len(requests) + 1 \in Nat
    BY <2>3 DEF QueueType
  <2>5. rpc' \in RpcType
    BY <2>1, <2>2, <2>4 DEF RpcType
  <2>6. \A d \in Callers : rpc'[d].at = "queued" =>
          rpc'[d].index \in DOMAIN requests' /\ requests'[rpc'[d].index].tx = rpc'[d].tx
    <3> SUFFICES ASSUME NEW d \in Callers, rpc'[d].at = "queued"
                 PROVE  rpc'[d].index \in DOMAIN requests' /\ requests'[rpc'[d].index].tx = rpc'[d].tx
      OBVIOUS
    <3>1. CASE d = c
      BY <3>1, <2>2, <2>3, <2>4 DEF RpcType
    <3>2. CASE d # c
      BY <3>2, <2>2, <2>3 DEF RpcType
    <3> QED  BY <3>1, <3>2
  <2>7. AnswerRight
    BY <2>2 DEF AnswerRight, RpcType
  <2> QED  BY <2>3, <2>5, <2>6, <2>7
<1>5. ASSUME NEW c \in Callers, RpcMint(c)
      PROVE  VaultIInv' /\ AnswerRight
  <2> DEFINE i == rpc[c].index
  <2>1. /\ i \in DOMAIN requests /\ requests[i].status = "Pending" /\ keyGen # 0
        /\ requests' = [requests EXCEPT ![i].status = "Minted"]
        /\ rpc' = [rpc EXCEPT ![c].at = "minted"]
        /\ requests[i].tx = rpc[c].tx
    BY <1>5 DEF RpcMint, CanValidate, IndexOf, RpcPanics
  <2> HIDE DEF i
  <2>2. /\ requests' \in QueueType /\ OneRequestPerDeposit'
        /\ DOMAIN requests' = DOMAIN requests /\ requests'[i].status = "Minted"
        /\ \A j \in DOMAIN requests : requests'[j].tx = requests[j].tx
    BY <2>1, StatusKeeps DEF Statuses
  <2>3. rpc' \in RpcType
    BY <2>1 DEF RpcType
  <2>4. \A d \in Callers : rpc'[d].at = "queued" =>
          rpc'[d].index \in DOMAIN requests' /\ requests'[rpc'[d].index].tx = rpc'[d].tx
    BY <2>1, <2>2 DEF RpcType
  <2>5. AnswerRight
    BY <2>1, <2>2 DEF AnswerRight, OneRequestPerDeposit, RpcType
  <2> QED  BY <2>2, <2>3, <2>4, <2>5
<1>6. ASSUME NEW c \in Callers, RpcFail(c)
      PROVE  VaultIInv' /\ AnswerRight
  <2>1. /\ requests' = requests /\ keyGen' = keyGen
        /\ rpc' = [rpc EXCEPT ![c].at = "failed"]
        /\ rpc[c].at = "queued"
    BY <1>6 DEF RpcFail
  <2>2. ~(keyGen # 0 /\ requests[rpc[c].index].status = "Pending")
    BY <1>6, RpcPasses DEF RpcFail, RpcPanics
  <2>3. rpc' \in RpcType
    BY <2>1 DEF RpcType
  <2>4. \A d \in Callers : rpc'[d].at = "queued" =>
          rpc'[d].index \in DOMAIN requests' /\ requests'[rpc'[d].index].tx = rpc'[d].tx
    BY <2>1 DEF RpcType
  <2>5. AnswerRight
    BY <2>1, <2>2 DEF AnswerRight, OneRequestPerDeposit, RpcType
  <2>6. OneRequestPerDeposit'
    BY <2>1 DEF OneRequestPerDeposit
  <2> QED  BY <2>1, <2>3, <2>4, <2>5, <2>6
<1>7. ASSUME requests' = requests, rpc' = rpc
      PROVE  VaultIInv' /\ AnswerRight
  BY <1>7 DEF AnswerRight, OneRequestPerDeposit, RpcType
<1>8. ASSUME GenerateKeys \/ \E amount \in Deposits : BurnZusd(amount)
      PROVE  requests' = requests /\ rpc' = rpc
  BY <1>8 DEF GenerateKeys, BurnZusd
<1>9. CASE UNCHANGED vaultAll
  BY <1>9, <1>7 DEF vaultAll, vaultVars
<1> QED
  BY <1>1, <1>2, <1>3, <1>4, <1>5, <1>6, <1>7, <1>8, <1>9 DEF VaultStepOf, VaultNext

\* The inductive invariant of the vault's queue and of its callers.
THEOREM VaultInvariant == VaultSpec => []VaultIInv
<1>1. VaultInit => VaultIInv
  BY VaultAssumption DEF VaultInit, VaultIInv, VaultTypeOK, QueueType, RpcType, Idle, OneRequestPerDeposit
<1>2. VaultIInv /\ [VaultStepOf]_vaultAll => VaultIInv'
  BY VaultStep
<1> QED  BY <1>1, <1>2, PTL DEF VaultSpec, VaultStepOf, vaultAll

\* No external deposit is in the queue twice, by whichever path it came.
THEOREM DepositsAreDistinct == VaultSpec => []OneRequestPerDeposit
  BY VaultInvariant, PTL DEF VaultIInv

\* vaultDeposit works on its own request although it lets the lock go, for
\* any number of callers: it mints a pending request whenever keys exist.
THEOREM DepositIsAnswered == VaultSpec => DepositAnswered
<1>1. VaultIInv /\ [VaultStepOf]_vaultAll => [AnswerRight]_vaultVars
  BY VaultStep
<1> QED
  BY <1>1, VaultInvariant, PTL
     DEF VaultSpec, VaultStepOf, vaultAll, DepositAnswered, AnswerRight

----------------------------------------------------------------------------
(* What backs the zUSD                                                     *)

Requests == [tx : TxHashes, amount : Nat, status : Statuses]

AmountsOf(q) == [i \in DOMAIN q |-> q[i].amount]

MintedAt(q) == {i \in DOMAIN q : q[i].status = "Minted"}

\* What the minted requests of a queue have brought in.
MintedSum(q) == SumFunctionOnSet(AmountsOf(q), MintedAt(q))

\* The positions of a queue are finite in number, its amounts are naturals.
LEMMA QueueSums ==
  ASSUME NEW q \in Seq(Requests)
  PROVE  /\ Len(q) \in Nat /\ DOMAIN q = 1..Len(q) /\ q \in [1..Len(q) -> Requests]
         /\ IsFiniteSet(DOMAIN q) /\ IsFiniteSet(MintedAt(q)) /\ MintedAt(q) \subseteq DOMAIN q
         /\ \A i \in DOMAIN q : AmountsOf(q)[i] \in Nat /\ AmountsOf(q)[i] = q[i].amount
         /\ MintedSum(q) \in Nat
         /\ SumFunctionOnSet(AmountsOf(q), DOMAIN q) \in Nat
<1>1. Len(q) \in Nat /\ DOMAIN q = 1..Len(q) /\ q \in [1..Len(q) -> Requests]
  OBVIOUS
<1>2. IsFiniteSet(DOMAIN q) /\ MintedAt(q) \subseteq DOMAIN q
  BY <1>1, FS_Interval DEF MintedAt
<1>3. IsFiniteSet(MintedAt(q))
  BY <1>2, FS_Subset
<1>4. \A i \in DOMAIN q : AmountsOf(q)[i] \in Nat /\ AmountsOf(q)[i] = q[i].amount
  BY <1>1 DEF AmountsOf, Requests
<1>5. MintedSum(q) \in Nat
  BY <1>2, <1>3, <1>4, SumNat DEF MintedSum
<1>6. SumFunctionOnSet(AmountsOf(q), DOMAIN q) \in Nat
  BY <1>2, <1>4, SumNat
<1> QED
  BY <1>1, <1>2, <1>3, <1>4, <1>5, <1>6

\* A request that is queued brings nothing in yet.
LEMMA QueuedSum ==
  ASSUME NEW q \in Seq(Requests), NEW e \in Requests, e.status # "Minted",
         NEW r, r = Append(q, e)
  PROVE  r \in Seq(Requests) /\ MintedSum(r) = MintedSum(q)
<1>1. r \in Seq(Requests) /\ Len(r) = Len(q) + 1 /\ r[Len(q) + 1] = e
      /\ \A i \in 1..Len(q) : r[i] = q[i]
  OBVIOUS
<1>2. MintedAt(r) = MintedAt(q)
  <2>1. DOMAIN r = 1..(Len(q) + 1) /\ Len(q) \in Nat /\ DOMAIN q = 1..Len(q)
    BY <1>1, QueueSums
  <2>2. ASSUME NEW i PROVE i \in MintedAt(r) <=> i \in MintedAt(q)
    <3>1. CASE i = Len(q) + 1
      BY <1>1, <2>1, <3>1 DEF MintedAt
    <3>2. CASE i # Len(q) + 1
      <4>1. i \in DOMAIN r <=> i \in DOMAIN q
        BY <2>1, <3>2
      <4> QED
        BY <1>1, <2>1, <4>1 DEF MintedAt
    <3> QED
      BY <3>1, <3>2
  <2> QED
    BY <2>2
<1>3. \A i \in MintedAt(q) : AmountsOf(q)[i] \in Nat /\ AmountsOf(r)[i] = AmountsOf(q)[i]
  <2>1. TAKE i \in MintedAt(q)
  <2>2. i \in DOMAIN q /\ i \in DOMAIN r /\ r[i] = q[i]
    BY <1>1, <1>2, QueueSums DEF MintedAt
  <2> QED
    BY <2>2, QueueSums DEF AmountsOf
<1> QED
  BY <1>1, <1>2, <1>3, QueueSums, SumSame DEF MintedSum

\* A change of status brings the amount in when it is to "Minted".
LEMMA StatusSum ==
  ASSUME NEW q \in Seq(Requests), NEW i \in DOMAIN q, q[i].status # "Minted",
         NEW status \in Statuses, NEW r, DOMAIN r = DOMAIN q,
         r[i].status = status, r[i].amount = q[i].amount,
         \A j \in DOMAIN q : j # i => r[j] = q[j]
  PROVE  MintedSum(r) = MintedSum(q) + (IF status = "Minted" THEN q[i].amount ELSE 0)
<1>1. \A j \in DOMAIN q : AmountsOf(r)[j] = AmountsOf(q)[j] /\ AmountsOf(q)[j] \in Nat
  <2>1. TAKE j \in DOMAIN q
  <2>2. r[j].amount = q[j].amount
    OBVIOUS
  <2> QED
    BY <2>2, QueueSums DEF AmountsOf
<1>2. i \notin MintedAt(q) /\ MintedAt(q) \subseteq DOMAIN q /\ IsFiniteSet(MintedAt(q))
      /\ MintedSum(q) \in Nat /\ AmountsOf(q)[i] = q[i].amount
  BY QueueSums DEF MintedAt
<1>3. MintedAt(r) = IF status = "Minted" THEN MintedAt(q) \cup {i} ELSE MintedAt(q)
  BY DEF MintedAt
<1>4. SumFunctionOnSet(AmountsOf(r), MintedAt(q)) = MintedSum(q)
  BY <1>1, <1>2, SumSame DEF MintedSum
<1>5. CASE status = "Minted"
  <2>1. \A j \in MintedAt(q) : AmountsOf(r)[j] \in Nat
    BY <1>1, <1>2
  <2>2. AmountsOf(r)[i] \in Nat /\ AmountsOf(r)[i] = q[i].amount
    BY <1>1, <1>2
  <2>3. SumFunctionOnSet(AmountsOf(r), MintedAt(q) \cup {i}) = AmountsOf(r)[i] + MintedSum(q)
    BY <1>2, <1>4, <2>1, <2>2, SumAdd
  <2> QED
    BY <1>2, <1>3, <1>5, <2>2, <2>3 DEF MintedSum
<1>6. CASE status # "Minted"
  BY <1>2, <1>3, <1>4, <1>6 DEF MintedSum
<1> QED
  BY <1>5, <1>6

\* No request is of more than all of the queue.
LEMMA RequestBelowTotal ==
  ASSUME NEW q \in Seq(Requests), NEW i \in DOMAIN q, q[i].status # "Minted"
  PROVE  MintedSum(q) + q[i].amount <= SumFunctionOnSet(AmountsOf(q), DOMAIN q)
<1>1. i \notin MintedAt(q) /\ MintedAt(q) \subseteq DOMAIN q /\ IsFiniteSet(MintedAt(q))
      /\ IsFiniteSet(DOMAIN q) /\ MintedSum(q) \in Nat
      /\ AmountsOf(q)[i] \in Nat /\ AmountsOf(q)[i] = q[i].amount
      /\ \A j \in DOMAIN q : AmountsOf(q)[j] \in Nat
  BY QueueSums DEF MintedAt
<1>2. SumFunctionOnSet(AmountsOf(q), MintedAt(q) \cup {i}) = q[i].amount + MintedSum(q)
  <2>1. \A j \in MintedAt(q) : AmountsOf(q)[j] \in Nat
    BY <1>1
  <2> QED
    BY <1>1, <2>1, SumAdd DEF MintedSum
<1>3. MintedAt(q) \cup {i} \subseteq DOMAIN q
  BY <1>1
<1>4. SumFunctionOnSet(AmountsOf(q), MintedAt(q) \cup {i}) <= SumFunctionOnSet(AmountsOf(q), DOMAIN q)
  BY <1>1, <1>3, SumSubset
<1> QED
  BY <1>1, <1>2, <1>4

\* What backs the zUSD is the sum over the minted positions: no deposit is
\* counted twice, since none is in the queue twice.
LEMMA DepositsSum ==
  ASSUME requests \in QueueType, OneRequestPerDeposit
  PROVE  SumFunction(MintedDeposits) = MintedSum(requests)
<1>1. requests \in Seq(Requests)
  BY DEF QueueType, Requests
<1> DEFINE M == MintedAt(requests)
           f == AmountsOf(requests)
           b == [i \in DOMAIN requests |-> requests[i].tx]
<1>2. M \subseteq DOMAIN requests /\ IsFiniteSet(M) /\ \A i \in M : f[i] \in Nat
  BY <1>1, QueueSums
<1>3. \A i, j \in M : b[i] = b[j] => i = j
  BY <1>2 DEF OneRequestPerDeposit
<1>4. MintedRequests = {requests[i] : i \in M}
  BY DEF MintedRequests, MintedAt
<1>5. DOMAIN MintedDeposits = {b[i] : i \in M}
  <2>1. DOMAIN MintedDeposits = {r.tx : r \in MintedRequests}
    BY DEF MintedDeposits
  <2>2. \A t : (\E r \in MintedRequests : t = r.tx) <=> (\E i \in M : t = requests[i].tx)
    BY <1>4, Zenon
  <2>3. \A i \in M : b[i] = requests[i].tx
    BY <1>2
  <2> HIDE DEF M, b
  <2> QED
    BY <2>1, <2>2, <2>3
<1>6. \A i \in M : MintedDeposits[b[i]] = f[i]
  <2>1. TAKE i \in M
  <2>2. requests[i] \in MintedRequests /\ b[i] = requests[i].tx
    BY <1>2, <1>4
  <2>3. \A r \in MintedRequests : r.tx = requests[i].tx => r = requests[i]
    BY <1>2, <1>4 DEF OneRequestPerDeposit
  <2>4. (CHOOSE r \in MintedRequests : r.tx = requests[i].tx) = requests[i]
    BY <2>2, <2>3
  <2>5. requests[i].tx \in {r.tx : r \in MintedRequests}
    BY <2>2
  <2>6. MintedDeposits[requests[i].tx] =
          (CHOOSE r \in MintedRequests : r.tx = requests[i].tx).amount
    BY <2>5 DEF MintedDeposits
  <2>7. f[i] = requests[i].amount
    BY <1>2 DEF AmountsOf
  <2>8. MintedDeposits[b[i]] = MintedDeposits[requests[i].tx]
    BY <2>2
  <2>9. MintedDeposits[requests[i].tx] = requests[i].amount
    BY <2>4, <2>6, Zenon
  <2> HIDE DEF b, f
  <2> QED
    BY <2>7, <2>8, <2>9
<1>7. SumFunctionOnSet(MintedDeposits, {b[i] : i \in M}) = SumFunctionOnSet(f, M)
  <2> HIDE DEF M, f, b
  <2> QED
    BY <1>2, <1>3, <1>6, SumImage
<1> QED
  BY <1>5, <1>7 DEF SumFunction, MintedSum

\* As long as all the amounts ever presented together fit u128.  The counters
\* saturate; a total beyond 2^128 units would be counted short.
DepositsFit == SumFunctionOnSet(AmountsOf(requests), DOMAIN requests) <= MAX_U128

\* What is minted and what is withheld is what the minted requests brought.
Backed ==
  /\ minted \in Nat /\ burnt \in Nat /\ fees \in Nat
  /\ burnt <= minted
  /\ minted + fees = MintedSum(requests)

\* The fee is at most the amount, also when its product wraps.
LEMMA IngestFeeBounded ==
  ASSUME NEW amount \in Nat
  PROVE  IngestFee(amount) \in 0..amount
<1> DEFINE B == BPS_DENOMINATOR
           n == amount * CROSS_CHAIN_INGEST_FEE_BPS
           W == MAX_U128 + 1
           w == n % W
<1>1. B \in Nat /\ B > 0 /\ CROSS_CHAIN_INGEST_FEE_BPS \in Nat /\ CROSS_CHAIN_INGEST_FEE_BPS <= B
      /\ W \in Nat /\ W > 0
  BY AmmAssumption, VaultAssumption, WordsAssumption
<1>2. n \in Nat /\ n <= amount * B
  BY <1>1, ProductGrows
<1>3. w \in Nat /\ w <= n
  <2> HIDE DEF n, W
  <2> QED
    BY <1>1, <1>2
<1>4. w \div B \in Nat /\ B * (w \div B) <= w
  BY <1>1, <1>3, DivBelow
<1>5. ASSUME NEW q \in Nat, B * q <= amount * B
      PROVE  q <= amount
  <2>1. SUFFICES ASSUME q >= amount + 1 PROVE FALSE
    BY <1>5
  <2>2. B * (amount + 1) <= B * q
    BY <2>1, <1>1, ProductGrows
  <2>3. B * (amount + 1) = amount * B + B
    BY <1>1
  <2> QED
    BY <1>1, <1>5, <2>2, <2>3
<1>6. B * (w \div B) <= amount * B
  <2>1. amount * B \in Nat /\ B * (w \div B) \in Nat
    BY <1>1, <1>4
  <2> HIDE DEF n, w
  <2> QED
    BY <1>2, <1>3, <1>4, <2>1
<1>7. w \div B <= amount
  BY <1>4, <1>5, <1>6
<1> QED
  BY <1>4, <1>7 DEF IngestFee

\* Crediting a request moves its whole amount into the two counters.
LEMMA CreditAdds ==
  ASSUME Backed, DepositsFit, requests \in Seq(Requests),
         NEW i \in DOMAIN requests, requests[i].status # "Minted",
         Credit(requests[i].amount, IngestFee(requests[i].amount))
  PROVE  /\ minted' \in Nat /\ fees' \in Nat /\ minted <= minted'
         /\ minted' + fees' = MintedSum(requests) + requests[i].amount
<1> DEFINE a == requests[i].amount
           fee == IngestFee(a)
           total == SumFunctionOnSet(AmountsOf(requests), DOMAIN requests)
<1>1. a \in Nat /\ MintedSum(requests) \in Nat /\ total \in Nat
  BY QueueSums
<1>2. fee \in Nat /\ fee <= a
  <2> HIDE DEF a
  <2>1. fee \in 0..a
    BY <1>1, IngestFeeBounded
  <2> HIDE DEF fee
  <2> QED
    BY <1>1, <2>1
<1>3. MintedSum(requests) + a <= total /\ total <= MAX_U128 /\ MAX_U128 \in Nat
  BY RequestBelowTotal, WordsAssumption DEF DepositsFit
<1>4. minted' = Sat128(minted + (a - Least(fee, a))) /\ fees' = Sat128(fees + fee)
  BY DEF Credit
<1> HIDE DEF a, fee, total
<1>5. minted + (a - fee) <= MAX_U128 /\ fees + fee <= MAX_U128
  BY <1>1, <1>2, <1>3 DEF Backed
<1>6. minted' = minted + (a - fee) /\ fees' = fees + fee
  BY <1>1, <1>2, <1>3, <1>4, <1>5 DEF Sat128, Least, Backed
<1>7. /\ minted' \in Nat /\ fees' \in Nat /\ minted <= minted'
      /\ minted' + fees' = MintedSum(requests) + a
  BY <1>1, <1>2, <1>6, SMTT(30) DEF Backed
<1> QED
  BY <1>7 DEF a

\* What a change of status leaves as it is, position by position.
LEMMA StatusOnly ==
  ASSUME NEW q \in Seq(Requests), NEW i \in DOMAIN q, NEW status \in Statuses,
         NEW r, r = [q EXCEPT ![i].status = status]
  PROVE  /\ DOMAIN r = DOMAIN q
         /\ r[i].status = status /\ r[i].amount = q[i].amount
         /\ \A j \in DOMAIN q : j # i => r[j] = q[j]
<1>1. q[i] \in Requests
  BY QueueSums
<1>2. DOMAIN r = DOMAIN q /\ r[i] = [q[i] EXCEPT !.status = status]
      /\ \A j \in DOMAIN q : j # i => r[j] = q[j]
  OBVIOUS
<1> QED
  BY <1>1, <1>2 DEF Requests

\* Every action keeps the zUSD backed while the deposits fit.
LEMMA BackedStep ==
  ASSUME VaultIInv, Backed, DepositsFit, [VaultStepOf]_vaultAll
  PROVE  Backed'
<1>1. requests \in Seq(Requests) /\ MintedSum(requests) \in Nat
  BY QueueSums DEF VaultIInv, VaultTypeOK, QueueType, Requests
<1>2. ASSUME NEW tx \in TxHashes, NEW amount \in Deposits,
             requests' = Append(requests, Request(tx, amount)),
             UNCHANGED <<minted, burnt, fees>>
      PROVE  Backed'
  <2>1. Request(tx, amount) \in Requests /\ Request(tx, amount).status # "Minted"
    BY VaultAssumption DEF Request, Requests, Statuses
  <2>2. MintedSum(requests') = MintedSum(requests)
    BY <1>1, <1>2, <2>1, QueuedSum
  <2> QED
    BY <1>2, <2>2 DEF Backed
<1>3. ASSUME NEW i \in DOMAIN requests, requests[i].status # "Minted",
             requests' = [requests EXCEPT ![i].status = "Minted"],
             Credit(requests[i].amount, IngestFee(requests[i].amount)), burnt' = burnt
      PROVE  Backed'
  <2>1. /\ minted' \in Nat /\ fees' \in Nat /\ minted <= minted'
        /\ minted' + fees' = MintedSum(requests) + requests[i].amount
    BY <1>1, <1>3, CreditAdds
  <2>2. /\ DOMAIN requests' = DOMAIN requests
        /\ requests'[i].status = "Minted" /\ requests'[i].amount = requests[i].amount
        /\ \A j \in DOMAIN requests : j # i => requests'[j] = requests[j]
    BY <1>1, <1>3, StatusOnly, SMTT(30) DEF Statuses
  <2>3. MintedSum(requests') = MintedSum(requests) + requests[i].amount
    BY <1>1, <1>3, <2>2, StatusSum, ZenonT(30) DEF Statuses
  <2> QED
    BY <1>3, <2>1, <2>3 DEF Backed
<1>4. ASSUME NEW tx \in TxHashes, NEW amount \in Deposits, SubmitIngest(tx, amount)
      PROVE  Backed'
  BY <1>2, <1>4 DEF SubmitIngest
<1>5. ASSUME NEW i \in DOMAIN requests, NEW sigs \in SignatureLists, ValidateIngest(i, sigs)
      PROVE  Backed'
  <2>1. /\ requests[i].status # "Minted" /\ UNCHANGED <<minted, burnt, fees>>
        /\ requests' = [requests EXCEPT ![i].status = "Validated"]
    BY <1>5 DEF ValidateIngest, CanValidate
  <2>2. /\ DOMAIN requests' = DOMAIN requests
        /\ requests'[i].status = "Validated" /\ requests'[i].amount = requests[i].amount
        /\ \A j \in DOMAIN requests : j # i => requests'[j] = requests[j]
    BY <1>1, <2>1, StatusOnly DEF Statuses
  <2>3. MintedSum(requests') = MintedSum(requests) +
          (IF "Validated" = "Minted" THEN requests[i].amount ELSE 0)
    <3>1. "Validated" \in Statuses
      BY DEF Statuses
    <3>2. requests[i].status # "Minted"
      BY <2>1
    <3> QED
      BY <1>1, <2>2, <3>1, <3>2, StatusSum
  <2>4. MintedSum(requests') = MintedSum(requests)
    BY <1>1, <2>3
  <2> QED
    BY <2>1, <2>4 DEF Backed
<1>6. ASSUME NEW i \in DOMAIN requests, MintZusd(i)
      PROVE  Backed'
  BY <1>3, <1>6 DEF MintZusd
<1>7. ASSUME NEW amount \in Deposits, BurnZusd(amount)
      PROVE  Backed'
  <2>1. amount \in Nat /\ amount <= minted - Least(burnt, minted)
    BY <1>7, VaultAssumption DEF BurnZusd, CanRedeem
  <2>2. burnt + amount <= minted
    BY <2>1 DEF Backed, Least
  <2>3. minted <= MAX_U128
    <3>1. MintedSum(requests) <= SumFunctionOnSet(AmountsOf(requests), DOMAIN requests)
      BY <1>1, QueueSums, SumSubset DEF MintedSum
    <3>2. SumFunctionOnSet(AmountsOf(requests), DOMAIN requests) \in Nat
      BY <1>1, QueueSums
    <3> QED
      BY <1>1, <3>1, <3>2, WordsAssumption DEF DepositsFit, Backed
  <2>4. burnt' = burnt + amount /\ UNCHANGED <<minted, fees, requests>>
    BY <1>7, <2>1, <2>2, <2>3, WordsAssumption DEF BurnZusd, Sat128, Least, Backed
  <2> QED
    BY <2>1, <2>2, <2>4 DEF Backed
<1>8. ASSUME NEW c \in Callers, NEW string \in TxHashes \cup Malformed,
             NEW amount \in Deposits, RpcSubmit(c, string, amount)
      PROVE  Backed'
  <2>1. DecodeHash(string) \in TxHashes
    BY VaultAssumption DEF DecodeHash
  <2> QED
    BY <1>2, <1>8, <2>1 DEF RpcSubmit
<1>9. ASSUME NEW c \in Callers, RpcMint(c)
      PROVE  Backed'
  <2>1. /\ IndexOf(c) \in DOMAIN requests /\ requests[IndexOf(c)].status # "Minted"
        /\ requests' = [requests EXCEPT ![IndexOf(c)].status = "Minted"]
        /\ Credit(requests[IndexOf(c)].amount, IngestFee(requests[IndexOf(c)].amount))
        /\ burnt' = burnt
    BY <1>9 DEF RpcMint, CanValidate
  <2> QED
    BY <1>3, <2>1
<1>10. ASSUME UNCHANGED <<requests, minted, burnt, fees>>
       PROVE  Backed'
  BY <1>10 DEF Backed
<1>11. ASSUME NEW c \in Callers, RpcFail(c)
       PROVE  Backed'
  BY <1>10, <1>11 DEF RpcFail
<1>12. CASE GenerateKeys
  BY <1>10, <1>12 DEF GenerateKeys
<1>13. CASE UNCHANGED vaultAll
  BY <1>10, <1>13 DEF vaultAll, vaultVars
<1> QED
  BY <1>4, <1>5, <1>6, <1>7, <1>8, <1>9, <1>11, <1>12, <1>13 DEF VaultStepOf, VaultNext

\* Every zUSD in circulation is backed: minted and withheld are together what
\* the distinct minted deposits brought in, for any calls in any order, any
\* number of callers and any fee up to the whole amount.
THEOREM ZusdIsBacked == VaultSpec /\ []DepositsFit => []ZusdBacked
<1>1. VaultInit => Backed
  <2>1. SUFFICES ASSUME VaultInit PROVE Backed
    OBVIOUS
  <2>2. MintedAt(requests) = {}
    BY <2>1 DEF VaultInit, MintedAt
  <2> QED
    BY <2>1, <2>2, SumEmpty DEF VaultInit, Backed, MintedSum
<1>2. VaultIInv /\ Backed /\ DepositsFit /\ [VaultStepOf]_vaultAll => Backed'
  BY BackedStep
<1>3. VaultIInv /\ Backed => ZusdBacked
  BY DepositsSum DEF VaultIInv, VaultTypeOK, Backed, ZusdBacked
<1> QED
  BY <1>1, <1>2, <1>3, VaultInvariant, PTL DEF VaultSpec, VaultStepOf, vaultAll

----------------------------------------------------------------------------
(* The encrypted mempool                                                   *)

\* The ids of all that has been accepted and not dropped, in one list.
Lined == revealed \o queue

Entry == [id : Nat, text : Texts, key : EpochKeys]
Reveal == [id : Nat, text : Texts \cup {Noise}]

EncryptedTypeOK ==
  /\ queue \in Seq(Entry)
  /\ revealed \in Seq(Reveal)
  /\ accepted \in Nat /\ drains \in Nat /\ keysSet \in Nat
  /\ dropped \subseteq 1..accepted

EncryptedIInv == EncryptedTypeOK /\ RevealedInOrder /\ KeyOpensOneQueue

\* The elements of two sequences put together.
LEMMA JoinedAt ==
  ASSUME NEW S, NEW T, NEW a \in Seq(S), NEW b \in Seq(T)
  PROVE  /\ DOMAIN (a \o b) = 1..(Len(a) + Len(b))
         /\ Len(a) \in Nat /\ Len(b) \in Nat
         /\ DOMAIN a = 1..Len(a) /\ DOMAIN b = 1..Len(b)
         /\ \A i \in 1..Len(a) : (a \o b)[i] = a[i]
         /\ \A i \in 1..Len(b) : (a \o b)[Len(a) + i] = b[i]
  OBVIOUS

\* A line is one sequence, with the revealed entries first: each place in it
\* is a place among the revealed or one in the queue.
LEMMA LineAt ==
  ASSUME NEW r \in Seq(Reveal), NEW q \in Seq(Entry)
  PROVE  /\ Len(r) \in Nat /\ DOMAIN r = 1..Len(r)
         /\ Len(q) \in Nat /\ DOMAIN q = 1..Len(q)
         /\ Len(r) + Len(q) \in Nat
         /\ DOMAIN (r \o q) = 1..(Len(r) + Len(q))
         /\ \A i \in 1..Len(r) : /\ (r \o q)[i].id = r[i].id /\ r[i].id \in Nat
                                 /\ i \in 1..(Len(r) + Len(q))
         /\ \A i \in 1..Len(q) : /\ (r \o q)[Len(r) + i].id = q[i].id /\ q[i].id \in Nat
                                 /\ Len(r) + i \in 1..(Len(r) + Len(q))
         /\ \A i \in 1..(Len(r) + Len(q)) :
              i \in 1..Len(r) \/ \E k \in 1..Len(q) : i = Len(r) + k
<1>1. (\A e \in Reveal : e.id \in Nat) /\ (\A e \in Entry : e.id \in Nat)
  BY DEF Reveal, Entry
<1>2. (\A i \in 1..Len(r) : r[i] \in Reveal) /\ (\A i \in 1..Len(q) : q[i] \in Entry)
  OBVIOUS
<1>3. Len(r) \in Nat /\ Len(q) \in Nat
  OBVIOUS
<1>4. ASSUME NEW i \in 1..(Len(r) + Len(q))
      PROVE  i \in 1..Len(r) \/ \E k \in 1..Len(q) : i = Len(r) + k
  <2>1. CASE i > Len(r)
    <3>1. i - Len(r) \in 1..Len(q) /\ i = Len(r) + (i - Len(r))
      BY <1>3, <2>1
    <3> QED  BY <3>1
  <2> QED  BY <1>3, <2>1
<1>5. /\ \A i \in 1..Len(r) : i \in 1..(Len(r) + Len(q))
      /\ \A i \in 1..Len(q) : Len(r) + i \in 1..(Len(r) + Len(q))
  BY <1>3
<1> QED  BY <1>1, <1>2, <1>3, <1>4, <1>5, JoinedAt

\* Submitting puts a new place at the end of the line.
LEMMA SubmitInOrder ==
  ASSUME EncryptedTypeOK, EncryptedTypeOK', RevealedInOrder,
         NEW text \in Texts, NEW key \in EpochKeys, SubmitEncrypted(text, key)
  PROVE  RevealedInOrder'
<1> DEFINE n == Len(revealed) + Len(queue)
           e == [id |-> accepted + 1, text |-> text, key |-> key]
<1>1. /\ queue' = Append(queue, e) /\ revealed' = revealed
      /\ accepted' = accepted + 1 /\ dropped' = dropped /\ accepted \in Nat
  BY DEF SubmitEncrypted, EncryptTransaction, EncryptedTypeOK
<1>2. e.id = accepted + 1
  OBVIOUS
<1> HIDE DEF e
<1>3. revealed \in Seq(Reveal) /\ queue \in Seq(Entry) /\ queue' \in Seq(Entry)
  BY DEF EncryptedTypeOK
<1>4. /\ Len(queue') = Len(queue) + 1
      /\ \A i \in 1..Len(queue) : queue'[i] = queue[i] /\ i \in 1..Len(queue')
      /\ queue'[Len(queue) + 1] = e /\ Len(queue) + 1 \in 1..Len(queue')
  BY <1>1, <1>3
<1>5. /\ n \in Nat /\ DOMAIN Lined = 1..n /\ DOMAIN Lined' = 1..(n + 1)
      /\ \A i \in 1..n : Lined'[i].id = Lined[i].id
      /\ Lined'[n + 1].id = accepted + 1
  <2>1. n \in Nat /\ DOMAIN Lined = 1..n
    BY <1>3, LineAt DEF Lined
  <2>2. DOMAIN Lined' = 1..(Len(revealed) + Len(queue')) /\ Len(revealed) + Len(queue') = n + 1
    BY <1>1, <1>3, <1>4, LineAt DEF Lined
  <2>3. \A i \in 1..Len(revealed) : Lined'[i].id = Lined[i].id
    BY <1>1, <1>3, LineAt DEF Lined
  <2>4. \A k \in 1..Len(queue) : Lined'[Len(revealed) + k].id = Lined[Len(revealed) + k].id
    BY <1>1, <1>3, <1>4, LineAt DEF Lined
  <2>5. Lined'[Len(revealed) + (Len(queue) + 1)].id = accepted + 1
    BY <1>1, <1>2, <1>3, <1>4, LineAt DEF Lined
  <2>6. Len(revealed) + (Len(queue) + 1) = n + 1
    BY <1>3, LineAt
  <2>7. \A i \in 1..n : i \in 1..Len(revealed) \/ \E k \in 1..Len(queue) : i = Len(revealed) + k
    BY <1>3, LineAt
  <2> QED  BY <2>1, <2>2, <2>3, <2>4, <2>5, <2>6, <2>7
<1> HIDE DEF n
<1>6. /\ \A i, j \in 1..n : i < j => Lined[i].id < Lined[j].id
      /\ 1..accepted = dropped \cup {Lined[i].id : i \in 1..n}
  BY <1>5 DEF RevealedInOrder, Increasing, Lined
<1>7. \A i \in 1..n : Lined[i].id \in 1..accepted
  BY <1>6
<1>8. Increasing(Lined')
  <2> SUFFICES ASSUME NEW i \in 1..(n + 1), NEW j \in 1..(n + 1), i < j
               PROVE  Lined'[i].id < Lined'[j].id
    BY <1>5 DEF Increasing
  <2>1. i \in 1..n
    BY <1>5
  <2>2. CASE j \in 1..n
    BY <2>1, <2>2, <1>5, <1>6
  <2>3. CASE j = n + 1
    BY <2>1, <2>3, <1>1, <1>5, <1>7
  <2> QED  BY <2>2, <2>3, <1>5
<1>9. {Lined'[i].id : i \in 1..(n + 1)} = {Lined[i].id : i \in 1..n} \cup {accepted + 1}
  <2>1. \A i \in 1..(n + 1) : i \in 1..n \/ i = n + 1
    BY <1>5
  <2>2. \A i \in 1..n : i \in 1..(n + 1)
    BY <1>5
  <2>3. n + 1 \in 1..(n + 1)
    BY <1>5
  <2> QED  BY <2>1, <2>2, <2>3, <1>5
<1>10. 1..accepted' = (1..accepted) \cup {accepted + 1}
  BY <1>1
<1> QED  BY <1>1, <1>5, <1>6, <1>8, <1>9, <1>10 DEF RevealedInOrder, Lined

\* Revealing moves entries from the queue to the revealed and leaves their
\* places in the line.
LEMMA DecryptInOrder ==
  ASSUME EncryptedTypeOK, EncryptedTypeOK', RevealedInOrder, DecryptAll
  PROVE  RevealedInOrder'
<1> DEFINE n == Len(revealed) + Len(queue)
           D == [i \in DOMAIN queue |-> Decrypt(queue[i], decKey)]
<1>1. /\ revealed' = revealed \o D /\ queue' = <<>>
      /\ accepted' = accepted /\ dropped' = dropped
  BY DEF DecryptAll, QueueAfter
<1>2. revealed \in Seq(Reveal) /\ queue \in Seq(Entry) /\ revealed' \in Seq(Reveal)
  BY DEF EncryptedTypeOK
<1>3. DOMAIN queue = 1..Len(queue) /\ Len(queue) \in Nat
  BY <1>2, LineAt
<1>4. \A i \in 1..Len(queue) : D[i].id = queue[i].id
  BY <1>3 DEF Decrypt
<1>5. D \in Seq({Decrypt(queue[i], decKey) : i \in DOMAIN queue}) /\ Len(D) = Len(queue)
  BY <1>3
<1> HIDE DEF D
<1>6. /\ Len(revealed') = n
      /\ \A i \in 1..Len(revealed) : revealed'[i] = revealed[i]
      /\ \A i \in 1..Len(queue) : revealed'[Len(revealed) + i] = D[i]
  <2>1. PICK S : D \in Seq(S)
    BY <1>5
  <2>2. /\ \A i \in 1..Len(revealed) : (revealed \o D)[i] = revealed[i]
        /\ \A i \in 1..Len(D) : (revealed \o D)[Len(revealed) + i] = D[i]
    BY <2>1, <1>2, JoinedAt
  <2>3. Len(revealed \o D) = Len(revealed) + Len(D)
    BY <2>1, <1>2
  <2> QED  BY <2>2, <2>3, <1>1, <1>5
<1>7. Lined' = revealed'
  BY <1>1, <1>2 DEF Lined
<1>8. n \in Nat /\ DOMAIN Lined = 1..n /\ DOMAIN Lined' = 1..n
  BY <1>2, <1>6, <1>7, LineAt DEF Lined
<1>9. \A i \in 1..n : Lined'[i].id = Lined[i].id
  <2>1. \A i \in 1..Len(revealed) : Lined'[i].id = Lined[i].id
    BY <1>2, <1>6, <1>7, LineAt DEF Lined
  <2>2. \A k \in 1..Len(queue) : Lined'[Len(revealed) + k].id = Lined[Len(revealed) + k].id
    <3>1. \A k \in 1..Len(queue) : Lined[Len(revealed) + k].id = queue[k].id
      BY <1>2, LineAt DEF Lined
    <3>2. \A k \in 1..Len(queue) : Lined'[Len(revealed) + k] = D[k]
      BY <1>6, <1>7
    <3> QED  BY <3>1, <3>2, <1>4
  <2>3. \A i \in 1..n : i \in 1..Len(revealed) \/ \E k \in 1..Len(queue) : i = Len(revealed) + k
    BY <1>2, LineAt
  <2> QED  BY <2>1, <2>2, <2>3
<1> HIDE DEF n
<1>10. Increasing(Lined) /\ 1..accepted = dropped \cup {Lined[i].id : i \in 1..n}
  BY <1>8 DEF RevealedInOrder, Lined
<1>11. {Lined'[i].id : i \in 1..n} = {Lined[i].id : i \in 1..n}
  BY <1>9
<1>12. Increasing(Lined')
  BY <1>8, <1>9, <1>10 DEF Increasing
<1> QED  BY <1>1, <1>8, <1>10, <1>11, <1>12 DEF RevealedInOrder, Lined

\* Clearing moves the entries of the queue to the dropped.
LEMMA ClearInOrder ==
  ASSUME EncryptedTypeOK, EncryptedTypeOK', RevealedInOrder, Clear
  PROVE  RevealedInOrder'
<1> DEFINE n == Len(revealed) + Len(queue)
           m == Len(revealed)
<1>1. /\ queue' = <<>> /\ revealed' = revealed /\ accepted' = accepted
      /\ dropped' = dropped \cup {queue[i].id : i \in DOMAIN queue}
  BY DEF Clear
<1>2. revealed \in Seq(Reveal) /\ queue \in Seq(Entry)
  BY DEF EncryptedTypeOK
<1>3. Lined' = revealed
  BY <1>1, <1>2 DEF Lined
<1>4. /\ DOMAIN Lined' = 1..m /\ DOMAIN Lined = 1..n /\ DOMAIN queue = 1..Len(queue)
      /\ \A i \in 1..m : Lined'[i].id = Lined[i].id /\ i \in 1..n
      /\ \A k \in 1..Len(queue) : m + k \in 1..n /\ Lined[m + k].id = queue[k].id
      /\ \A i \in 1..n : i \in 1..m \/ \E k \in 1..Len(queue) : i = m + k
  BY <1>2, <1>3, LineAt DEF Lined
<1> HIDE DEF n, m
<1>5. Increasing(Lined) /\ 1..accepted = dropped \cup {Lined[i].id : i \in 1..n}
  BY <1>4 DEF RevealedInOrder, Lined
<1>6. {Lined[i].id : i \in 1..n}
        = {Lined'[i].id : i \in 1..m} \cup {queue[k].id : k \in 1..Len(queue)}
  BY <1>4, SMTT(30)
<1>7. Increasing(Lined')
  BY <1>4, <1>5 DEF Increasing
<1> QED  BY <1>1, <1>4, <1>5, <1>6, <1>7 DEF RevealedInOrder, Lined

\* Every action of the encrypted mempool keeps the types.
LEMMA EncryptedTypeStep ==
  ASSUME EncryptedTypeOK, RevealedInOrder, [EncryptedNext]_eVars
  PROVE  EncryptedTypeOK'
<1> USE DEF EncryptedTypeOK
<1>1. ASSUME NEW text \in Texts, NEW key \in EpochKeys, SubmitEncrypted(text, key)
      PROVE  EncryptedTypeOK'
  <2>1. [id |-> accepted + 1, text |-> text, key |-> key] \in Entry
    BY DEF Entry
  <2>2. queue' \in Seq(Entry)
    BY <1>1, <2>1 DEF SubmitEncrypted, EncryptTransaction
  <2> QED  BY <1>1, <2>2 DEF SubmitEncrypted
<1>2. ASSUME NEW key \in EpochKeys, SetDecryptionKey(key)
      PROVE  EncryptedTypeOK'
  BY <1>2 DEF SetDecryptionKey
<1>3. CASE DecryptAll
  <2> DEFINE D == [i \in DOMAIN queue |-> Decrypt(queue[i], decKey)]
  <2>1. DOMAIN queue = 1..Len(queue) /\ Len(queue) \in Nat
    BY LineAt
  <2>2. \A i \in DOMAIN queue : queue[i] \in Entry
    BY <2>1
  <2>3. \A e \in Entry : Decrypt(e, decKey) \in Reveal
    BY DEF Entry, Reveal, Decrypt
  <2>4. D \in [1..Len(queue) -> Reveal]
    BY <2>1, <2>2, <2>3
  <2>5. D \in Seq(Reveal)
    <3> HIDE DEF D
    <3> QED  BY <2>1, <2>4
  <2>6. revealed' = revealed \o D
    BY <1>3 DEF DecryptAll
  <2> HIDE DEF D
  <2>7. revealed' \in Seq(Reveal)
    BY <2>5, <2>6
  <2> QED  BY <1>3, <2>7 DEF DecryptAll, QueueAfter
<1>4. CASE Clear
  <2>1. {queue[i].id : i \in DOMAIN queue} \subseteq 1..accepted
    <3> SUFFICES ASSUME NEW k \in 1..Len(queue) PROVE queue[k].id \in 1..accepted
      BY LineAt
    <3>1. /\ Len(revealed) + k \in DOMAIN Lined
          /\ Lined[Len(revealed) + k].id = queue[k].id
      BY LineAt DEF Lined
    <3> QED  BY <3>1 DEF RevealedInOrder, Lined
  <2>2. dropped' \subseteq 1..accepted
    BY <1>4, <2>1 DEF Clear
  <2>3. queue' \in Seq(Entry)
    BY <1>4 DEF Clear
  <2> QED  BY <1>4, <2>2, <2>3 DEF Clear
<1>5. CASE UNCHANGED eVars
  BY <1>5 DEF eVars
<1> QED  BY <1>1, <1>2, <1>3, <1>4, <1>5 DEF EncryptedNext

\* Every action of the encrypted mempool keeps the invariant.
LEMMA EncryptedStep ==
  ASSUME EncryptedIInv, [EncryptedNext]_eVars
  PROVE  EncryptedIInv'
<1> USE DEF EncryptedIInv
<1>1. EncryptedTypeOK'
  BY EncryptedTypeStep
<1>2. RevealedInOrder'
  <2>1. CASE revealed' = revealed /\ queue' = queue /\ accepted' = accepted /\ dropped' = dropped
    BY <2>1 DEF RevealedInOrder, Increasing
  <2>2. ASSUME NEW key \in EpochKeys, SetDecryptionKey(key)
        PROVE  revealed' = revealed /\ queue' = queue /\ accepted' = accepted /\ dropped' = dropped
    BY <2>2 DEF SetDecryptionKey
  <2> QED
    BY <1>1, <2>1, <2>2, SubmitInOrder, DecryptInOrder, ClearInOrder DEF EncryptedNext, eVars
<1>3. KeyOpensOneQueue'
  <2> USE EncryptedAssumption DEF KeyOpensOneQueue, EncryptedTypeOK
  <2>1. ASSUME NEW text \in Texts, NEW key \in EpochKeys, SubmitEncrypted(text, key)
        PROVE  KeyOpensOneQueue'
    BY <2>1 DEF SubmitEncrypted
  <2>2. ASSUME NEW key \in EpochKeys, SetDecryptionKey(key)
        PROVE  KeyOpensOneQueue'
    BY <2>2 DEF SetDecryptionKey
  <2>3. CASE DecryptAll
    BY <2>3 DEF DecryptAll, KeyAfter
  <2>4. CASE Clear
    BY <2>4 DEF Clear
  <2>5. CASE UNCHANGED eVars
    BY <2>5 DEF eVars
  <2> QED  BY <2>1, <2>2, <2>3, <2>4, <2>5 DEF EncryptedNext
<1> QED  BY <1>1, <1>2, <1>3

\* The inductive invariant of the encrypted mempool.
THEOREM EncryptedInvariant == EncryptedSpec => []EncryptedIInv
<1>1. EncryptedInit => EncryptedIInv
  <2> SUFFICES ASSUME EncryptedInit PROVE EncryptedIInv
    OBVIOUS
  <2>1. EncryptedTypeOK /\ KeyOpensOneQueue
    BY DEF EncryptedInit, EncryptedTypeOK, KeyOpensOneQueue
  <2>2. revealed \o queue = <<>>
    BY DEF EncryptedInit
  <2>3. RevealedInOrder
    BY <2>2 DEF EncryptedInit, RevealedInOrder, Increasing
  <2> QED  BY <2>1, <2>3 DEF EncryptedIInv
<1>2. EncryptedIInv /\ [EncryptedNext]_eVars => EncryptedIInv'
  BY EncryptedStep
<1> QED  BY <1>1, <1>2, PTL DEF EncryptedSpec

\* Whatever is submitted, keyed, opened and cleared, in any order: what is
\* revealed is in the order of acceptance, once, and nothing is lost.
THEOREM OrderIsCommitted == EncryptedSpec => []RevealedInOrder
  BY EncryptedInvariant, PTL DEF EncryptedIInv

\* A key opens one queue.
THEOREM KeyIsConsumed == EncryptedSpec => []KeyOpensOneQueue
  BY EncryptedInvariant, PTL DEF EncryptedIInv
=============================================================================
