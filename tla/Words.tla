-------------------------------- MODULE Words -------------------------------
(***************************************************************************)
(* The unsigned integers of the code: naturals up to a largest value, with *)
(* the saturating addition of Rust.                                        *)
(***************************************************************************)
EXTENDS Integers

CONSTANTS
  MAX_U64,    \* u64::MAX
  MAX_U128    \* u128::MAX

ASSUME WordsAssumption == MAX_U64 \in Nat /\ MAX_U128 \in Nat

Least(a, b) == IF a <= b THEN a ELSE b

\* saturating_add, saturating_mul: of the exact result.
Sat64(n) == Least(n, MAX_U64)
Sat128(n) == Least(n, MAX_U128)
=============================================================================
