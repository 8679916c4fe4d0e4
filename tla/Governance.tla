----------------------------- MODULE Governance -----------------------------
(***************************************************************************)
(* The governance engine of crates/zentra-runtime/src/governance.rs: the   *)
(* parameters of the network, and the proposals that change them.          *)
(*                                                                         *)
(* A parameter set is a member of Params; validate divides them into       *)
(* ValidParams and the rest.  The interface gives every call its height,   *)
(* and process_proposals "at each block": a block is processed as soon as  *)
(* the chain has grown, by any number of heights, and the other calls come *)
(* between two blocks.  A proposal is appended when it gets its id, and    *)
(* what is kept keeps its place: the order of pending_proposals is that of *)
(* the ids, and the vector is a set here.                                  *)
(***************************************************************************)
EXTENDS Words, Sequences

CONSTANTS
  Params,         \* parameter sets
  ValidParams,    \* those that validate accepts
  DefaultParams,  \* GovernanceParams::default
  VOTING_WINDOW,  \* DEFAULT_VOTING_WINDOW_BLOCKS
  Powers,         \* voting powers
  LastHeight,     \* bound on the height
  MaxProposals,   \* bound on the proposals made
  MaxWeight       \* bound on the votes cast on one of them, each way

ASSUME GovernanceAssumption ==
  /\ ValidParams \subseteq Params
  /\ DefaultParams \in ValidParams
  /\ VOTING_WINDOW \in Nat \ {0}
  /\ Powers \subseteq 0..MAX_U64
  /\ LastHeight \in Nat /\ MaxProposals \in Nat /\ MaxWeight \in Nat

VARIABLES
  chainHeight,  \* height of the last block processed
  current,      \* current_params
  pending,      \* pending_proposals
  nextId,       \* next_proposal_id
  applied,      \* applied_history: <<id, height>>
  weight,       \* history: the exact votes for and against each proposal
  closed        \* history: the proposals evaluated, as they were then

govVars == <<chainHeight, current, pending, nextId, applied, weight, closed>>

GovernanceInit ==
  /\ chainHeight = 0
  /\ current = DefaultParams
  /\ pending = {}
  /\ nextId = 1
  /\ applied = <<>>
  /\ weight = [id \in 1..MaxProposals |-> [for |-> 0, against |-> 0]]
  /\ closed = {}

----------------------------------------------------------------------------

\* propose, where validate accepts.
Propose(params) ==
  /\ nextId <= MaxProposals
  /\ params \in ValidParams
  /\ pending' = pending \cup
       {[id |-> nextId, params |-> params, for |-> 0, against |-> 0,
         made |-> chainHeight, expires |-> chainHeight + VOTING_WINDOW]}
  /\ nextId' = nextId + 1
  /\ UNCHANGED <<chainHeight, current, applied, weight, closed>>

\* A faulty variant: a sum that wraps.
Wrapped(votes, power) == (votes + power) % (MAX_U64 + 1)

Tally(votes, power) == Sat64(votes + power)

Side(approve) == IF approve THEN "for" ELSE "against"

\* The proposal with a vote.
Voted(p, approve, power) ==
  IF approve THEN [p EXCEPT !.for = Tally(@, power)]
             ELSE [p EXCEPT !.against = Tally(@, power)]

\* vote, where there is such a proposal and the power is not zero.  Nothing
\* compares the height: what is pending may be voted on.
Vote(p, approve, power) ==
  /\ power > 0
  /\ weight[p.id][Side(approve)] + power <= MaxWeight
  /\ pending' = (pending \ {p}) \cup {Voted(p, approve, power)}
  /\ weight' = [weight EXCEPT ![p.id][Side(approve)] = @ + power]
  /\ UNCHANGED <<chainHeight, current, nextId, applied, closed>>

IsApproved(p) == p.for > p.against /\ p.for > 0

IsExpired(p, h) == h >= p.expires

Expired(h) == {p \in pending : IsExpired(p, h)}

\* A faulty variant: the last approved proposal wins.
LastApproved(h) ==
  LET due == {p \in Expired(h) : IsApproved(p)}
  IN  {p \in due : \A q \in due : q.id <= p.id}

\* The proposal of this round that takes effect, if there is one.
FirstApproved(h) ==
  LET due == {p \in Expired(h) : IsApproved(p)}
  IN  {p \in due : \A q \in due : p.id <= q.id}

\* process_proposals.
ProcessProposals(h) ==
  /\ pending' = pending \ Expired(h)
  /\ closed' = closed \cup Expired(h)
  /\ \/ /\ FirstApproved(h) = {}
        /\ UNCHANGED <<current, applied>>
     \/ \E p \in FirstApproved(h) :
          /\ current' = p.params
          /\ applied' = Append(applied, <<p.id, h>>)
  /\ chainHeight' = h
  /\ UNCHANGED <<nextId, weight>>

GovernanceNext ==
  \/ \E params \in Params : Propose(params)
  \/ \E p \in pending, approve \in BOOLEAN, power \in Powers : Vote(p, approve, power)
  \/ \E h \in chainHeight..LastHeight : ProcessProposals(h)

GovernanceSpec == GovernanceInit /\ [][GovernanceNext]_govVars

----------------------------------------------------------------------------

Proposals ==
  [id : Nat, params : ValidParams, for : 0..MAX_U64, against : 0..MAX_U64,
   made : Nat, expires : Nat]

\* Only parameters that validate accepts are ever pending or in force.
GovernanceTypeOK ==
  /\ chainHeight \in Nat /\ nextId \in Nat
  /\ current \in ValidParams
  /\ pending \subseteq Proposals /\ closed \subseteq Proposals
  /\ applied \in Seq(Nat \X Nat)
  /\ weight \in [1..MaxProposals -> [for : Nat, against : Nat]]

\* "Only the first approved proposal in a batch takes effect to avoid
\* conflicting parameter changes" (governance.rs:246): proposals take effect
\* in the order they were made, at most one at a height, each at a height its
\* window had closed by, however late or how often a block is processed; and
\* an approved proposal that does not has given way to an earlier one that
\* took effect when its own window had closed.
AppliedInOrder ==
  /\ \A i \in DOMAIN applied :
       /\ \E p \in closed : p.id = applied[i][1] /\ applied[i][2] >= p.made + VOTING_WINDOW
       /\ i > 1 => /\ applied[i - 1][1] < applied[i][1]
                   /\ applied[i - 1][2] < applied[i][2]
  /\ \A p \in closed : IsApproved(p) =>
       \E i \in DOMAIN applied : applied[i][1] <= p.id /\ applied[i][2] >= p.expires

\* The tallies stop at the largest word, and a proposal that took effect had
\* more votes for it than against it when they are counted exactly: the limit
\* may defeat a proposal and never carries one.
ApprovalIsMajority ==
  \A i \in DOMAIN applied :
    weight[applied[i][1]].for > weight[applied[i][1]].against
=============================================================================
