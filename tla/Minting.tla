------------------------------ MODULE Minting -------------------------------
(***************************************************************************)
(* The reference definition of the emission: a chain mints the reward of   *)
(* one height after the other, and the closed form of Emission is compared *)
(* with the sum.                                                           *)
(***************************************************************************)
EXTENDS Emission

CONSTANTS
  Initials, Intervals, Caps,  \* the schedules
  MaxHeight                   \* bound of the chain

ASSUME MintingAssumption ==
  Initials \subseteq Nat /\ Intervals \subseteq Nat \ {0} /\ Caps \subseteq Nat

VARIABLES
  sched,       \* the schedule of the network
  nextHeight,  \* height of the next block
  supply       \* sum of the rewards below it

mintVars == <<sched, nextHeight, supply>>

Schedules == [initial : Initials, interval : Intervals, max : Caps]

MintingInit == sched \in Schedules /\ nextHeight = 0 /\ supply = 0

Mint ==
  /\ nextHeight < MaxHeight
  /\ supply' = supply + BlockReward(sched, nextHeight)
  /\ nextHeight' = nextHeight + 1
  /\ UNCHANGED sched

MintingSpec == MintingInit /\ [][Mint]_mintVars

\* What block_reward has paid for the heights below a height is what
\* total_emitted_at_height says, through every halving, the last epoch and
\* the cut at the cap: so the supply of a chain never passes the cap.
SumMatchesSchedule == supply = TotalEmittedAtHeight(sched, nextHeight)
=============================================================================
