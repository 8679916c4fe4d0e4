----------------------------- MODULE Difficulty -----------------------------
(***************************************************************************)
(* The difficulty of crates/zentra-consensus/src/difficulty.rs, and the    *)
(* two ways in which the node (crates/zentrad/src/node.rs) uses it: the    *)
(* manager that the mining worker asks, which follows the selected chain,  *)
(* and the engine that validation builds anew for each block.              *)
(*                                                                         *)
(* A target is a number of DIGITS digits in base BASE (32 bytes), compact  *)
(* bits are an exponent and a mantissa of three digits whose highest bit   *)
(* is not used.                                                            *)
(***************************************************************************)
EXTENDS Integers, Sequences, SequencesExt, Functions

CONSTANTS
  BASE, DIGITS,          \* 256, 32
  GENESIS_BITS,          \* genesis_difficulty
  EASIEST_BITS,          \* easiest_bits: the bits of the genesis block
  TARGET_BLOCK_TIME_MS,
  WINDOW,                \* window_size
  WALK,                  \* blocks that validation walks back: 20
  PRECISION,             \* 100
  Lanes,                 \* LaneId::ALL; the genesis block is of the first
  FirstLane,
  Delays,                \* milliseconds from a block to the next; may be negative
  MaxChain               \* bound on the length of the chain

ASSUME DifficultyAssumption ==
  /\ BASE \in Nat /\ BASE % 2 = 0 /\ BASE > 0
  /\ DIGITS \in Nat /\ DIGITS > 3
  /\ TARGET_BLOCK_TIME_MS \in Nat \ {0} /\ TARGET_BLOCK_TIME_MS % 3 = 0
  /\ WINDOW \in Nat \ {0} /\ WALK \in Nat /\ WALK >= WINDOW + 1
  /\ PRECISION \in Nat /\ PRECISION > 3
  /\ FirstLane \in Lanes
  /\ Delays \subseteq Int /\ MaxChain \in Nat

VARIABLES
  chain,   \* the selected chain: [lane, time, bits], genesis first
  manager  \* DifficultyManager: lane -> history of its engine, <<time, bits>>

diffVars == <<chain, manager>>

----------------------------------------------------------------------------
(* Targets                                                                 *)

\* The powers of the base.
Power[n \in Nat] == IF n = 0 THEN 1 ELSE BASE * Power[n - 1]

TopTarget == Power[DIGITS] - 1

\* target_from_bits: an exponent beyond the word puts the mantissa at its top.
TargetFromBits(bits) ==
  IF bits.exp = 0 THEN 0
  ELSE IF bits.exp <= 3 THEN bits.man \div Power[3 - bits.exp]
  ELSE IF bits.exp <= DIGITS THEN bits.man * Power[bits.exp - 3]
  ELSE bits.man * Power[DIGITS - 3]

\* The easiest target is far enough below the top of the word for the retarget
\* to multiply it, and not zero: 0x1F0FFFFF leaves twelve bits.
ASSUME RetargetAssumption ==
  /\ {GENESIS_BITS, EASIEST_BITS} \subseteq [exp : Nat, man : Nat]
  /\ TargetFromBits(GENESIS_BITS) > 0
  /\ 2 * PRECISION * TargetFromBits(GENESIS_BITS) <= TopTarget

NumDigits(target) == CHOOSE n \in 0..DIGITS : target < Power[n] /\ (n = 0 \/ target >= Power[n - 1])

\* target_to_bits: the three highest digits, or two if the highest bit is set.
TargetToBits(target) ==
  LET n == NumDigits(target)
      m == IF n <= 3 THEN target * Power[3 - n] ELSE target \div Power[n - 3]
  IN  IF target = 0 THEN [exp |-> 0, man |-> 0]
      ELSE IF m >= Power[3] \div 2 THEN [exp |-> n + 1, man |-> m \div BASE]
      ELSE [exp |-> n, man |-> m]

\* mul_div_target.
MulDivTarget(target, num, den) ==
  IF target * num > TopTarget THEN TopTarget ELSE (target * num) \div den

----------------------------------------------------------------------------
(* DifficultyEngine                                                        *)

\* record_block keeps WINDOW + 1 blocks.
RecordBlock(history, entry) ==
  LET longer == Append(history, entry)
  IN  IF Len(longer) > WINDOW + 1 THEN Tail(longer) ELSE longer

RecordAll(history, entries) == FoldLeft(RecordBlock, history, entries)

\* The average target, without the oldest block: add_targets drops the carry
\* of its highest digit.
AverageTarget(history) ==
  LET sum == FoldLeft(LAMBDA acc, e : (acc + TargetFromBits(e[2])) % (TopTarget + 1),
                      0, Tail(history))
  IN  sum \div (Len(history) - 1)

TargetTimespan(history) == (Len(history) - 1) * TARGET_BLOCK_TIME_MS

\* The time from the oldest block to the newest, within a third and three
\* times the target.
ClampedTimespan(history) ==
  LET actual == history[Len(history)][1] - history[1][1]
      target == TargetTimespan(history)
      low    == target \div 3
      high   == target * 3
  IN  IF actual < low THEN low ELSE IF actual > high THEN high ELSE actual

Scale(num) == IF num > PRECISION THEN num \div PRECISION ELSE 1

\* A faulty variant: only the numerator is scaled.
UnscaledDen(num, den) == den

ScaledDen(num, den) == IF den \div Scale(num) = 0 THEN 1 ELSE den \div Scale(num)

AdjustedTarget(history) ==
  LET num == ClampedTimespan(history)
  IN  MulDivTarget(AverageTarget(history), num \div Scale(num),
                   ScaledDen(num, TargetTimespan(history)))

\* next_difficulty.
NextDifficulty(history) ==
  LET adjusted == AdjustedTarget(history)
      easiest  == TargetFromBits(GENESIS_BITS)
  IN  IF Len(history) <= 1 THEN GENESIS_BITS
      ELSE TargetToBits(IF adjusted > easiest \/ adjusted = 0 THEN easiest ELSE adjusted)

----------------------------------------------------------------------------
(* The node                                                                *)

Genesis0 == [lane |-> FirstLane, time |-> 0, bits |-> EASIEST_BITS]

\* The blocks of a lane, in the order of the chain, as an engine records them.
OfLane(blocks, lane) ==
  LET mine  == {i \in DOMAIN blocks : blocks[i].lane = lane}
      at(k) == CHOOSE i \in mine : Cardinality({j \in mine : j < i}) = k - 1
  IN  [k \in 1..Cardinality(mine) |-> <<blocks[at(k)].time, blocks[at(k)].bits>>]

DifficultyInit ==
  /\ chain = <<Genesis0>>
  /\ manager = [lane \in Lanes |-> RecordAll(<<>>, OfLane(<<Genesis0>>, lane))]

\* calculate_expected_difficulty for a block whose heaviest parent ends blocks:
\* a new engine with the last WALK blocks of the lane.
ExpectedDifficulty(blocks, lane) ==
  LET mine == OfLane(blocks, lane)
      first == IF Len(mine) > WALK THEN Len(mine) - WALK + 1 ELSE 1
  IN  NextDifficulty(RecordAll(<<>>, SubSeq(mine, first, Len(mine))))

\* A faulty variant: the manager is not cleared first.
NotCleared(blocks) ==
  [lane \in Lanes |-> RecordAll(manager[lane], OfLane(blocks, lane))]

\* rebuild_difficulty_history: the whole selected chain, oldest block first.
Rebuilt(blocks) == [lane \in Lanes |-> RecordAll(<<>>, OfLane(blocks, lane))]

\* The selected tip changes: the chain leaves the old one after `keep` blocks
\* and has a new block.  Validation has compared its bits.
TipChanges(keep, lane, delay) ==
  LET kept == SubSeq(chain, 1, keep)
      new  == Append(kept, [lane |-> lane, time |-> kept[keep].time + delay,
                            bits |-> ExpectedDifficulty(kept, lane)])
  IN  /\ keep < MaxChain
      /\ kept[keep].time + delay >= 0
      /\ chain' = new
      /\ manager' = Rebuilt(new)

\* A restart records the chain in a new manager.
RestartNode ==
  /\ manager' = [lane \in Lanes |-> RecordAll(<<>>, OfLane(chain, lane))]
  /\ UNCHANGED chain

DifficultyNext ==
  \/ \E keep \in DOMAIN chain, lane \in Lanes, delay \in Delays : TipChanges(keep, lane, delay)
  \/ RestartNode

DifficultySpec == DifficultyInit /\ [][DifficultyNext]_diffVars

----------------------------------------------------------------------------

\* The worker takes the bits of its template from the manager, validation
\* computes them from the chain: they agree for every lane, whatever
\* reorganizations and restarts there were, or the node would reject the
\* blocks it finds.
WorkerBitsExpected ==
  \A lane \in Lanes : NextDifficulty(manager[lane]) = ExpectedDifficulty(chain, lane)

\* "Clamps the adjustment factor per block to [1/3, 3]" (difficulty.rs:33),
\* up to the precision of the scaled fraction: the target moves from the
\* average by no more, whatever the timestamps and although the genesis block
\* has a target outside the range of all others, the product does not leave
\* its word, and the target is never zero nor easier than at the start.
RetargetBounded ==
  \A lane \in Lanes :
    Len(manager[lane]) > 1 =>
      LET average  == AverageTarget(manager[lane])
          adjusted == AdjustedTarget(manager[lane])
          next     == TargetFromBits(NextDifficulty(manager[lane]))
      IN  /\ adjusted * (PRECISION - 3) <= 3 * PRECISION * average
          /\ 3 * PRECISION * (adjusted + 1) >= (PRECISION - 1) * average
          /\ next \in 1..TargetFromBits(GENESIS_BITS)
=============================================================================
