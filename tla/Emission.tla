------------------------------ MODULE Emission ------------------------------
(***************************************************************************)
(* The block reward of crates/zentra-consensus/src/emission.rs.            *)
(*                                                                         *)
(* A schedule s is the struct EmissionSchedule: [initial, interval, max].  *)
(* The amounts the code multiplies stay far below 2^64 for the constants   *)
(* of the three networks (525600 * 4756468797 < 2^52), so its saturating   *)
(* operations never saturate and are written here with Nat.                *)
(***************************************************************************)
EXTENDS Integers

CONSTANT
  MAX_HALVINGS      \* epochs that pay a reward (64 in the code)

ASSUME HalvingsAssumption == MAX_HALVINGS \in Nat

\* initial_reward >> epoch
EpochReward(s, epoch) ==
  LET halved[e \in 0..epoch] == IF e = 0 THEN s.initial ELSE halved[e-1] \div 2
  IN  halved[epoch]

\* Blocks of an epoch among the first `height` blocks.
EpochBlocks(s, height, epoch) ==
  LET left == height - epoch * s.interval
  IN  IF left <= 0 THEN 0 ELSE IF left < s.interval THEN left ELSE s.interval

\* A faulty variant: the loop runs one epoch short.
EmittedBeforeShort(s, height) ==
  LET full[e \in 0..MAX_HALVINGS] ==
        IF e <= 1 THEN 0
        ELSE full[e-1] + EpochBlocks(s, height, e - 2) * EpochReward(s, e - 2)
  IN  full[MAX_HALVINGS]

\* `while remaining_blocks > 0 && epoch < MAX_HALVINGS`: blocks of the
\* epochs below e among the first `height` blocks, times their rewards.
EmittedBefore(s, height) ==
  LET full[e \in 0..MAX_HALVINGS] ==
        IF e = 0 THEN 0
        ELSE full[e-1] + EpochBlocks(s, height, e - 1) * EpochReward(s, e - 1)
  IN  full[MAX_HALVINGS]

\* total_emitted_at_height
TotalEmittedAtHeight(s, height) ==
  LET total == EmittedBefore(s, height) IN IF total < s.max THEN total ELSE s.max

\* block_reward: the epoch's reward, cut to what is left under the cap.
BlockReward(s, height) ==
  LET epoch     == height \div s.interval
      remaining == s.max - TotalEmittedAtHeight(s, height)
  IN  IF epoch >= MAX_HALVINGS THEN 0
      ELSE IF EpochReward(s, epoch) < remaining THEN EpochReward(s, epoch)
           ELSE remaining
=============================================================================
