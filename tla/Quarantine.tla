----------------------------- MODULE Quarantine -----------------------------
(***************************************************************************)
(* The quarantine of crates/zentra-finance/src/quarantine.rs: collateral   *)
(* locked for QUARANTINE_LOCK_BLOCKS, longer and higher for those that     *)
(* offend again.                                                           *)
(*                                                                         *)
(* Callers pass the height of the chain.  The node keeps a manager behind  *)
(* a lock and does not call it yet, so any caller the interface admits is  *)
(* modelled: no order is assumed between the heights of two calls, since a *)
(* reorganization may lower the height.                                    *)
(***************************************************************************)
EXTENDS Words

CONSTANTS
  Members,                 \* node ids
  QUARANTINE_LOCK_BLOCKS,  \* length of the lock
  Heights,                 \* heights at which calls are made
  Collaterals,             \* amounts locked by a call
  MaxLocked                \* bound on what one member locks in its life

ASSUME QuarantineAssumption ==
  /\ QUARANTINE_LOCK_BLOCKS \in Nat
  /\ Heights \subseteq 0..MAX_U64
  /\ Collaterals \subseteq Nat
  /\ MaxLocked \in 0..MAX_U128

VARIABLES
  quarantined,  \* quarantined_nodes: the ids that have an entry
  unlock,       \* unlock_height of the entry
  locked,       \* locked_collateral of the entry
  height,       \* the height of the last call
  offence,      \* history: height of a member's last offence
  posted,       \* history: all collateral ever taken from a member
  returned      \* history: all collateral given back to it

qVars == <<quarantined, unlock, locked, height, offence, posted, returned>>

\* unlock and locked are 0 where there is no entry.
QuarantineInit ==
  /\ quarantined = {}
  /\ unlock = [m \in Members |-> 0]
  /\ locked = [m \in Members |-> 0]
  /\ height = 0
  /\ offence = [m \in Members |-> 0]
  /\ posted = [m \in Members |-> 0]
  /\ returned = [m \in Members |-> 0]

\* Faulty variants: a lock that runs is not extended; a second collateral
\* replaces the first.
UnlockHeightKept(m, h) ==
  IF m \in quarantined THEN unlock[m] ELSE Sat64(h + QUARANTINE_LOCK_BLOCKS)
CollateralReplaced(m, collateral) == collateral

UnlockHeight(m, h) == Sat64(h + QUARANTINE_LOCK_BLOCKS)

Collateral(m, collateral) ==
  IF m \in quarantined THEN Sat128(locked[m] + collateral) ELSE collateral

ExecuteQuarantine(m, h, collateral) ==
  /\ posted[m] + collateral <= MaxLocked
  /\ height' = h
  /\ quarantined' = quarantined \cup {m}
  /\ unlock' = [unlock EXCEPT ![m] = UnlockHeight(m, h)]
  /\ locked' = [locked EXCEPT ![m] = Collateral(m, collateral)]
  /\ offence' = [offence EXCEPT ![m] = h]
  /\ posted' = [posted EXCEPT ![m] = @ + collateral]
  /\ UNCHANGED returned

\* process_unlock, where it succeeds (can_unlock).
ProcessUnlock(m, h) ==
  /\ m \in quarantined
  /\ h >= unlock[m]
  /\ height' = h
  /\ quarantined' = quarantined \ {m}
  /\ unlock' = [unlock EXCEPT ![m] = 0]
  /\ locked' = [locked EXCEPT ![m] = 0]
  /\ returned' = [returned EXCEPT ![m] = @ + locked[m]]
  /\ UNCHANGED <<offence, posted>>

QuarantineNext ==
  \E m \in Members, h \in Heights :
    \/ \E collateral \in Collaterals : ExecuteQuarantine(m, h, collateral)
    \/ ProcessUnlock(m, h)

QuarantineSpec == QuarantineInit /\ [][QuarantineNext]_qVars

----------------------------------------------------------------------------

\* Heights are u64 words, collateral is a number.
QuarantineTypeOK ==
  /\ quarantined \subseteq Members
  /\ unlock \in [Members -> 0..MAX_U64]
  /\ locked \in [Members -> 0..MAX_U128]
  /\ height \in 0..MAX_U64
  /\ offence \in [Members -> 0..MAX_U64]
  /\ posted \in [Members -> Nat]
  /\ returned \in [Members -> Nat]

\* Whatever a member offends, is released and offends again, what was taken
\* from it is what is locked or has been given back: "the collateral amounts
\* are combined" (quarantine.rs:84) and none is paid out twice.
CollateralConserved == \A m \in Members : posted[m] = locked[m] + returned[m]

\* A member that leaves quarantine has been there for the whole term since
\* its last offence, not its first: a second offence starts the term anew
\* ("the quarantine is extended from the current height", quarantine.rs:83).
\* Only at the end of the range of heights is the term shorter.
HeldFullTerm ==
  [][\A m \in quarantined \ quarantined' :
       height' >= Sat64(offence[m] + QUARANTINE_LOCK_BLOCKS)]_qVars
=============================================================================
