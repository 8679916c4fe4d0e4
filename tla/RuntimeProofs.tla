--------------------------- MODULE RuntimeProofs ----------------------------
(***************************************************************************)
(* Theorems about governance, the execution of contracts, their state root *)
(* and the Merkle trees: for every voting window, word width, gas price    *)
(* and gas limit, any number of threads, any finite set of keys, lists of  *)
(* any length and behaviours of any length.                                *)
(***************************************************************************)
EXTENDS Governance, Contracts, StateMap, FoldProofs, TLAPS

----------------------------------------------------------------------------
(* Governance                                                              *)

\* What a pending proposal says: its window is open, its tallies are the exact
\* votes up to the largest word.
PendingInv ==
  \A p \in pending :
    /\ p.id \in 1..MaxProposals /\ p.id < nextId
    /\ p.made <= chainHeight /\ p.expires = p.made + VOTING_WINDOW
    /\ chainHeight < p.expires
    /\ p.for = Sat64(weight[p.id].for)
    /\ p.against = Sat64(weight[p.id].against)

\* Ids are given once, in the order of the windows.
OrderInv ==
  \A p, q \in pending :
    /\ p.id = q.id => p = q
    /\ p.id < q.id => p.made <= q.made

FreshInv ==
  \A id \in 1..MaxProposals :
    id >= nextId => weight[id].for = 0 /\ weight[id].against = 0

\* What has been applied is behind everything that is pending.
AppliedInv ==
  \A i \in DOMAIN applied :
    /\ applied[i][1] \in 1..MaxProposals /\ applied[i][1] < nextId
    /\ applied[i][2] <= chainHeight
    /\ \A p \in pending : applied[i][1] < p.id

\* The inductive invariant of the governance engine.
GovernanceIInv ==
  /\ GovernanceTypeOK /\ nextId > 0
  /\ PendingInv /\ OrderInv /\ FreshInv /\ AppliedInv
  /\ AppliedInOrder /\ ApprovalIsMajority

\* A set of proposals that is not empty has one with the least id.
LEMMA LeastProposal ==
  ASSUME NEW T, T # {}, \A p \in T : p.id \in Nat
  PROVE  \E p \in T : \A q \in T : p.id <= q.id
<1> DEFINE Ids == {p.id : p \in T}
<1>1. Ids \subseteq Nat /\ Ids # {}
  OBVIOUS
<1>2. \E m \in Ids : \A n \in Ids : m <= n
  <2> HIDE DEF Ids
  <2> QED
    BY <1>1, LeastNat
<1> QED
  BY <1>2

\* The start.
LEMMA GovernanceInitial ==
  GovernanceInit => GovernanceIInv
<1>1. SUFFICES ASSUME GovernanceInit PROVE GovernanceIInv
  OBVIOUS
<1> USE GovernanceAssumption, WordsAssumption DEF GovernanceInit
<1>2. GovernanceTypeOK /\ nextId > 0
  BY <1>1 DEF GovernanceTypeOK, Proposals
<1>3. PendingInv /\ OrderInv /\ FreshInv /\ AppliedInv
  BY <1>1 DEF PendingInv, OrderInv, FreshInv, AppliedInv
<1>4. AppliedInOrder /\ ApprovalIsMajority
  BY <1>1 DEF AppliedInOrder, ApprovalIsMajority
<1> QED
  BY <1>2, <1>3, <1>4 DEF GovernanceIInv

\* A new proposal has the largest id and the latest window.
LEMMA ProposeKeeps ==
  ASSUME GovernanceIInv, NEW params \in Params, Propose(params)
  PROVE  GovernanceIInv'
<1> USE GovernanceAssumption, WordsAssumption
<1> DEFINE new == [id |-> nextId, params |-> params, for |-> 0, against |-> 0,
                   made |-> chainHeight, expires |-> chainHeight + VOTING_WINDOW]
<1>1. /\ pending' = pending \cup {new} /\ nextId' = nextId + 1
      /\ nextId \in 1..MaxProposals /\ params \in ValidParams
      /\ chainHeight \in Nat /\ nextId \in Nat /\ nextId > 0
      /\ UNCHANGED <<chainHeight, current, applied, weight, closed>>
  BY DEF Propose, GovernanceIInv, GovernanceTypeOK
<1>2. new \in Proposals
  BY <1>1 DEF Proposals
<1>3. GovernanceTypeOK' /\ nextId' > 0
  <2> HIDE DEF new
  <2> QED
    BY <1>1, <1>2 DEF GovernanceIInv, GovernanceTypeOK
<1>4. weight[nextId].for = 0 /\ weight[nextId].against = 0
  BY <1>1 DEF GovernanceIInv, FreshInv
<1>5. PendingInv'
  <2>1. ASSUME NEW p \in pending
        PROVE  p.id < nextId + 1 /\ p.id \in Int
    BY <1>1 DEF GovernanceIInv, PendingInv
  <2> QED
    BY <1>1, <1>4, <2>1 DEF GovernanceIInv, PendingInv, Sat64, Least
<1>6. OrderInv'
  BY <1>1 DEF GovernanceIInv, PendingInv, OrderInv
<1>7. FreshInv'
  BY <1>1 DEF GovernanceIInv, FreshInv
<1>8. AppliedInv'
  BY <1>1 DEF GovernanceIInv, AppliedInv
<1>9. AppliedInOrder' /\ ApprovalIsMajority'
  BY <1>1 DEF GovernanceIInv, AppliedInOrder, ApprovalIsMajority, IsApproved
<1> QED
  BY <1>3, <1>5, <1>6, <1>7, <1>8, <1>9 DEF GovernanceIInv

\* What a vote leaves alone in a proposal, and the tally it makes.
LEMMA VotedFacts ==
  ASSUME NEW p \in Proposals, NEW approve \in BOOLEAN, NEW power \in 0..MAX_U64
  PROVE  LET v == Voted(p, approve, power) IN
         /\ v \in Proposals
         /\ v.id = p.id /\ v.made = p.made /\ v.expires = p.expires
         /\ v.for = IF approve THEN Sat64(p.for + power) ELSE p.for
         /\ v.against = IF approve THEN p.against ELSE Sat64(p.against + power)
<1> USE WordsAssumption
<1>1. CASE approve
  BY <1>1 DEF Voted, Tally, Sat64, Least, Proposals
<1>2. CASE ~ approve
  BY <1>2 DEF Voted, Tally, Sat64, Least, Proposals
<1> QED
  BY <1>1, <1>2

\* Saturating at every vote is saturating at the end.
LEMMA SaturateOnce ==
  ASSUME NEW votes \in Nat, NEW power \in Nat
  PROVE  Sat64(Sat64(votes) + power) = Sat64(votes + power)
BY WordsAssumption DEF Sat64, Least

\* A vote changes the tallies of one proposal, which has not been applied.
LEMMA VoteKeeps ==
  ASSUME GovernanceIInv, NEW p \in pending, NEW approve \in BOOLEAN, NEW power \in Powers,
         Vote(p, approve, power)
  PROVE  GovernanceIInv'
<1> USE GovernanceAssumption, WordsAssumption
<1> DEFINE v == Voted(p, approve, power)
           W == weight[p.id]
<1>1. /\ pending' = (pending \ {p}) \cup {v}
      /\ weight' = [weight EXCEPT ![p.id][Side(approve)] = @ + power]
      /\ UNCHANGED <<chainHeight, current, nextId, applied, closed>>
      /\ chainHeight \in Nat /\ nextId \in Nat /\ power \in 0..MAX_U64
      /\ p \in Proposals /\ weight \in [1..MaxProposals -> [for : Nat, against : Nat]]
      /\ p.id \in 1..MaxProposals /\ p.id < nextId
  BY DEF Vote, GovernanceIInv, GovernanceTypeOK, PendingInv
<1>2. /\ v \in Proposals /\ v.id = p.id /\ v.made = p.made /\ v.expires = p.expires
      /\ v.for = IF approve THEN Sat64(p.for + power) ELSE p.for
      /\ v.against = IF approve THEN p.against ELSE Sat64(p.against + power)
  BY <1>1, VotedFacts
<1> HIDE DEF v
<1>3. /\ weight' \in [1..MaxProposals -> [for : Nat, against : Nat]]
      /\ weight'[p.id].for = IF approve THEN W.for + power ELSE W.for
      /\ weight'[p.id].against = IF approve THEN W.against ELSE W.against + power
      /\ \A id \in 1..MaxProposals : id # p.id => weight'[id] = weight[id]
  <2> DEFINE V == [W EXCEPT ![Side(approve)] = @ + power]
  <2>1. W \in [for : Nat, against : Nat] /\ power \in Nat
    BY <1>1
  <2>4. weight' = [weight EXCEPT ![p.id] = V]
    BY <1>1
  <2> HIDE DEF W
  <2>2. CASE approve
    <3>1. V = [W EXCEPT !.for = @ + power]
      BY <2>2 DEF Side
    <3> HIDE DEF V
    <3>2. V \in [for : Nat, against : Nat] /\ V.for = W.for + power /\ V.against = W.against
      BY <2>1, <3>1
    <3> QED
      BY <1>1, <2>2, <2>4, <3>2
  <2>3. CASE ~ approve
    <3>1. V = [W EXCEPT !.against = @ + power]
      BY <2>3 DEF Side
    <3> HIDE DEF V
    <3>2. V \in [for : Nat, against : Nat] /\ V.for = W.for /\ V.against = W.against + power
      BY <2>1, <3>1
    <3> QED
      BY <1>1, <2>3, <2>4, <3>2
  <2> QED
    BY <2>2, <2>3
<1>4. GovernanceTypeOK' /\ nextId' > 0
  BY <1>1, <1>2, <1>3 DEF GovernanceIInv, GovernanceTypeOK
<1>5. v.for = Sat64(weight'[p.id].for) /\ v.against = Sat64(weight'[p.id].against)
  <2>1. /\ p.for = Sat64(W.for) /\ p.against = Sat64(W.against)
        /\ W.for \in Nat /\ W.against \in Nat /\ power \in Nat
    BY <1>1 DEF GovernanceIInv, PendingInv
  <2>2. /\ Sat64(p.for + power) = Sat64(W.for + power)
        /\ Sat64(p.against + power) = Sat64(W.against + power)
    BY <2>1, SaturateOnce
  <2>3. CASE approve
    BY <2>1, <2>2, <2>3, <1>2, <1>3
  <2>4. CASE ~ approve
    BY <2>1, <2>2, <2>4, <1>2, <1>3
  <2> QED
    BY <2>3, <2>4
<1>6. \A q \in pending : q # p => q.id # p.id
  BY DEF GovernanceIInv, OrderInv
<1>7. PendingInv'
  <2>1. SUFFICES ASSUME NEW q \in pending'
                 PROVE  /\ q.id \in 1..MaxProposals /\ q.id < nextId
                        /\ q.made <= chainHeight /\ q.expires = q.made + VOTING_WINDOW
                        /\ chainHeight < q.expires
                        /\ q.for = Sat64(weight'[q.id].for)
                        /\ q.against = Sat64(weight'[q.id].against)
    BY <1>1 DEF PendingInv
  <2>2. CASE q = v
    BY <2>2, <1>1, <1>2, <1>5 DEF GovernanceIInv, PendingInv
  <2>3. CASE q \in pending /\ q # p
    BY <2>3, <1>3, <1>6 DEF GovernanceIInv, PendingInv
  <2> QED
    BY <1>1, <2>2, <2>3
<1>8. OrderInv'
  BY <1>1, <1>2, <1>6 DEF GovernanceIInv, OrderInv
<1>9. FreshInv'
  BY <1>1, <1>3 DEF GovernanceIInv, FreshInv
<1>10. AppliedInv'
  BY <1>1, <1>2 DEF GovernanceIInv, AppliedInv
<1>11. AppliedInOrder'
  BY <1>1 DEF GovernanceIInv, AppliedInOrder, IsApproved
<1>12. ApprovalIsMajority'
  <2>1. \A i \in DOMAIN applied : applied[i][1] \in 1..MaxProposals /\ applied[i][1] < p.id
    BY DEF GovernanceIInv, AppliedInv
  <2>2. \A i \in DOMAIN applied : weight'[applied[i][1]] = weight[applied[i][1]]
    BY <1>1, <1>3, <2>1
  <2> QED
    BY <1>1, <2>2 DEF GovernanceIInv, ApprovalIsMajority
<1> QED
  BY <1>4, <1>7, <1>8, <1>9, <1>10, <1>11, <1>12 DEF GovernanceIInv

\* A block closes a prefix of the pending proposals, in the order of their
\* ids; the first approved one among them takes effect.
LEMMA ProcessKeeps ==
  ASSUME GovernanceIInv, NEW h \in chainHeight..LastHeight, ProcessProposals(h)
  PROVE  GovernanceIInv'
<1> USE GovernanceAssumption, WordsAssumption
<1> DEFINE E == Expired(h)
           F == FirstApproved(h)
<1>1. /\ pending' = pending \ E /\ closed' = closed \cup E /\ chainHeight' = h
      /\ UNCHANGED <<nextId, weight>>
      /\ \/ F = {} /\ UNCHANGED <<current, applied>>
         \/ \E p \in F : current' = p.params /\ applied' = Append(applied, <<p.id, h>>)
  BY DEF ProcessProposals
<1>2. /\ chainHeight \in Nat /\ h \in Nat /\ chainHeight <= h /\ nextId \in Nat /\ nextId > 0
      /\ pending \subseteq Proposals /\ closed \subseteq Proposals
      /\ applied \in Seq(Nat \X Nat)
      /\ weight \in [1..MaxProposals -> [for : Nat, against : Nat]]
  BY DEF GovernanceIInv, GovernanceTypeOK
<1>3. /\ E \subseteq pending
      /\ \A p \in E : h >= p.expires
      /\ \A p \in pending \ E : h < p.expires
      /\ \A p \in pending : p.id \in Nat /\ p.made \in Nat /\ p.expires \in Nat
      /\ \A p \in pending : p.params \in ValidParams
  BY <1>2 DEF Expired, IsExpired, Proposals
<1>4. /\ F \subseteq E
      /\ \A p \in F : IsApproved(p)
      /\ \A p \in F, q \in E : IsApproved(q) => p.id <= q.id
  BY DEF FirstApproved
<1>5. \A q \in E : IsApproved(q) => F # {}
  <2>1. SUFFICES ASSUME NEW q \in E, IsApproved(q) PROVE F # {}
    OBVIOUS
  <2> DEFINE due == {p \in E : IsApproved(p)}
  <2>2. due # {} /\ \A p \in due : p.id \in Nat
    BY <2>1, <1>3
  <2>3. \E p \in due : \A r \in due : p.id <= r.id
    <3> HIDE DEF due
    <3> QED
      BY <2>2, LeastProposal
  <2> QED
    BY <2>3 DEF FirstApproved
<1> HIDE DEF E, F
<1>6. \A p \in pending : p.expires = p.made + VOTING_WINDOW /\ chainHeight < p.expires
  BY DEF GovernanceIInv, PendingInv
<1>7. \A p \in E, q \in pending \ E : p.id < q.id
  <2>1. SUFFICES ASSUME NEW p \in E, NEW q \in pending \ E PROVE p.id < q.id
    OBVIOUS
  <2>2. p.made < q.made
    <3>1. p \in pending /\ p.made \in Nat /\ q.made \in Nat /\ p.expires <= h /\ h < q.expires
      BY <1>3
    <3>2. p.expires = p.made + VOTING_WINDOW /\ q.expires = q.made + VOTING_WINDOW
      BY <1>6, <3>1
    <3> QED
      BY <1>2, <3>1, <3>2
  <2>3. ~ (q.id < p.id) /\ p.id # q.id
    BY <1>2, <1>3, <2>2 DEF GovernanceIInv, OrderInv
  <2> QED
    BY <1>3, <2>3
<1>8. PendingInv'
  <2>1. ASSUME NEW p \in pending \ E
        PROVE  /\ p.id \in 1..MaxProposals /\ p.id < nextId
               /\ p.made <= h /\ p.expires = p.made + VOTING_WINDOW
               /\ h < p.expires
               /\ p.for = Sat64(weight[p.id].for)
               /\ p.against = Sat64(weight[p.id].against)
    <3>1. /\ p.id \in 1..MaxProposals /\ p.id < nextId
          /\ p.made <= chainHeight /\ p.expires = p.made + VOTING_WINDOW
          /\ p.for = Sat64(weight[p.id].for)
          /\ p.against = Sat64(weight[p.id].against)
      BY <2>1 DEF GovernanceIInv, PendingInv
    <3>2. p.made \in Nat /\ h < p.expires
      BY <1>3, <2>1
    <3>3. p.made <= h
      BY <1>2, <3>1, <3>2
    <3> QED
      BY <3>1, <3>2, <3>3
  <2> QED
    BY <1>1, <2>1 DEF PendingInv
<1>9. OrderInv' /\ FreshInv' /\ nextId' > 0
  BY <1>1, <1>2 DEF GovernanceIInv, OrderInv, FreshInv
<1>10. CASE F = {} /\ UNCHANGED <<current, applied>>
  <2>1. GovernanceTypeOK'
    BY <1>1, <1>2, <1>3, <1>10 DEF GovernanceIInv, GovernanceTypeOK
  <2>2. AppliedInv'
    <3>1. ASSUME NEW i \in DOMAIN applied
          PROVE  /\ applied[i][1] \in 1..MaxProposals /\ applied[i][1] < nextId
                 /\ applied[i][2] <= h
                 /\ \A p \in pending \ E : applied[i][1] < p.id
      <4>1. /\ applied[i][1] \in 1..MaxProposals /\ applied[i][1] < nextId
            /\ applied[i][2] <= chainHeight
            /\ \A p \in pending : applied[i][1] < p.id
        BY <3>1 DEF GovernanceIInv, AppliedInv
      <4>2. applied[i] \in Nat \X Nat
        BY <1>2, <3>1
      <4>3. applied[i][2] <= h
        BY <1>2, <4>1, <4>2
      <4> QED
        BY <4>1, <4>3
    <3> QED
      BY <1>1, <1>10, <3>1 DEF AppliedInv
  <2>3. AppliedInOrder'
    BY <1>1, <1>5, <1>10 DEF GovernanceIInv, AppliedInOrder, IsApproved
  <2>4. ApprovalIsMajority'
    BY <1>1, <1>10 DEF GovernanceIInv, ApprovalIsMajority
  <2> QED
    BY <1>8, <1>9, <2>1, <2>2, <2>3, <2>4 DEF GovernanceIInv
<1>11. ASSUME NEW p \in F, current' = p.params, applied' = Append(applied, <<p.id, h>>)
       PROVE  GovernanceIInv'
  <2> DEFINE n == Len(applied)
  <2>1. /\ n \in Nat /\ DOMAIN applied = 1..n /\ DOMAIN applied' = 1..(n + 1)
        /\ \A i \in 1..n : applied'[i] = applied[i]
        /\ applied'[n + 1] = <<p.id, h>>
        /\ applied' \in Seq(Nat \X Nat)
    BY <1>2, <1>3, <1>4, <1>11
  <2> HIDE DEF n
  <2>1a. n \in Nat
    BY <2>1
  <2>2. p \in E /\ p \in pending /\ p.params \in ValidParams
    BY <1>3, <1>4
  <2>3. GovernanceTypeOK'
    BY <1>1, <1>2, <1>3, <1>11, <2>1, <2>2 DEF GovernanceIInv, GovernanceTypeOK
  <2>4. /\ p.id \in 1..MaxProposals /\ p.id < nextId /\ chainHeight < h
        /\ p.for = Sat64(weight[p.id].for) /\ p.against = Sat64(weight[p.id].against)
        /\ h >= p.made + VOTING_WINDOW
    <3>1. h >= p.expires /\ p.made \in Nat /\ p.expires = p.made + VOTING_WINDOW
          /\ chainHeight < p.expires
      BY <1>3, <1>6, <2>2
    <3> QED
      BY <1>2, <2>2, <3>1 DEF GovernanceIInv, PendingInv
  <2>5. \A i \in 1..n : /\ applied[i][1] \in 1..MaxProposals /\ applied[i][1] < nextId
                        /\ applied[i][1] < p.id
                        /\ applied[i][2] <= chainHeight /\ applied[i][2] \in Nat
                        /\ \A q \in pending : applied[i][1] < q.id
    <3>1. \A i \in 1..n : applied[i] \in Nat \X Nat
      BY <1>2, <2>1
    <3> QED
      BY <2>1, <2>2, <3>1 DEF GovernanceIInv, AppliedInv
  <2>6. AppliedInv'
    <3>1. ASSUME NEW i \in 1..(n + 1)
          PROVE  /\ applied'[i][1] \in 1..MaxProposals /\ applied'[i][1] < nextId
                 /\ applied'[i][2] <= h
                 /\ \A q \in pending \ E : applied'[i][1] < q.id
      <4>1. CASE i = n + 1
        BY <4>1, <1>2, <1>7, <2>1, <2>2, <2>4
      <4>2. CASE i \in 1..n
        <5>1. applied'[i] = applied[i] /\ applied[i][2] <= chainHeight /\ applied[i][2] \in Nat
          BY <4>2, <2>1, <2>5
        <5>2. applied[i][2] <= h
          BY <5>1, <1>2
        <5> QED
          BY <4>2, <5>1, <5>2, <2>5
      <4> QED
        BY <2>1a, <4>1, <4>2
    <3> QED
      BY <1>1, <2>1, <3>1 DEF AppliedInv
  <2>7. ASSUME NEW i \in 1..(n + 1)
        PROVE  /\ \E q \in closed' : q.id = applied'[i][1]
                                     /\ applied'[i][2] >= q.made + VOTING_WINDOW
               /\ i > 1 => /\ applied'[i - 1][1] < applied'[i][1]
                           /\ applied'[i - 1][2] < applied'[i][2]
    <3>1. CASE i = n + 1
      <4>1. p \in closed' /\ p.id = applied'[i][1] /\ applied'[i][2] >= p.made + VOTING_WINDOW
        BY <3>1, <1>1, <2>1, <2>2, <2>4
      <4>2. ASSUME i > 1
            PROVE  applied'[i - 1][1] < applied'[i][1] /\ applied'[i - 1][2] < applied'[i][2]
        <5>1. i - 1 \in 1..n /\ i - 1 = n
          BY <3>1, <4>2, <2>1a
        <5>2. applied'[i - 1] = applied[n] /\ applied'[i] = <<p.id, h>>
          BY <5>1, <3>1, <2>1
        <5>3. applied[n][1] < p.id /\ applied[n][2] <= chainHeight /\ applied[n][2] \in Nat
          BY <5>1, <2>5
        <5>4. chainHeight < h /\ chainHeight \in Nat /\ h \in Nat
          BY <1>2, <2>4
        <5> QED
          BY <5>2, <5>3, <5>4
      <4> QED
        BY <4>1, <4>2
    <3>2. CASE i \in 1..n
      <4>1. /\ \E q \in closed : q.id = applied[i][1]
                                 /\ applied[i][2] >= q.made + VOTING_WINDOW
            /\ i > 1 => /\ applied[i - 1][1] < applied[i][1]
                        /\ applied[i - 1][2] < applied[i][2]
        BY <3>2, <2>1 DEF GovernanceIInv, AppliedInOrder
      <4>2. i > 1 => i - 1 \in 1..n
        BY <3>2, <2>1a
      <4>3. applied'[i] = applied[i] /\ (i > 1 => applied'[i - 1] = applied[i - 1])
        BY <3>2, <4>2, <2>1
      <4>4. closed \subseteq closed'
        BY <1>1
      <4> QED
        BY <4>1, <4>3, <4>4
    <3> QED
      BY <2>1a, <3>1, <3>2
  <2>8. ASSUME NEW q \in closed', IsApproved(q)
        PROVE  \E i \in 1..(n + 1) : applied'[i][1] <= q.id /\ applied'[i][2] >= q.expires
    <3>1. CASE q \in E
      <4>1. n + 1 \in 1..(n + 1) /\ applied'[n + 1][1] = p.id /\ applied'[n + 1][2] = h
        BY <2>1
      <4>2. p.id <= q.id /\ h >= q.expires
        BY <3>1, <2>8, <1>3, <1>4
      <4> QED
        BY <4>1, <4>2
    <3>2. CASE q \in closed
      <4>1. PICK i \in 1..n : applied[i][1] <= q.id /\ applied[i][2] >= q.expires
        BY <3>2, <2>1, <2>8 DEF GovernanceIInv, AppliedInOrder
      <4>2. i \in 1..(n + 1) /\ applied'[i] = applied[i]
        BY <2>1, <2>1a
      <4> QED
        BY <4>1, <4>2
    <3> QED
      BY <1>1, <3>1, <3>2
  <2>9. AppliedInOrder'
    BY <2>1, <2>7, <2>8 DEF AppliedInOrder, IsApproved
  <2>10. weight[p.id].for > weight[p.id].against
    <3>1. p.for > p.against
      BY <1>4 DEF IsApproved
    <3>2. weight[p.id].for \in Nat /\ weight[p.id].against \in Nat
      BY <1>2, <2>4
    <3> QED
      BY <3>1, <3>2, <2>4 DEF Sat64, Least
  <2>11. ApprovalIsMajority'
    <3>1. ASSUME NEW i \in 1..(n + 1)
          PROVE  weight[applied'[i][1]].for > weight[applied'[i][1]].against
      <4>1. CASE i = n + 1
        BY <4>1, <2>1, <2>10
      <4>2. CASE i \in 1..n
        BY <4>2, <2>1 DEF GovernanceIInv, ApprovalIsMajority
      <4> QED
        BY <2>1a, <4>1, <4>2
    <3> QED
      BY <1>1, <2>1, <3>1 DEF ApprovalIsMajority
  <2> QED
    BY <1>8, <1>9, <2>3, <2>6, <2>9, <2>11 DEF GovernanceIInv
<1> QED
  BY <1>1, <1>10, <1>11

\* The invariant is inductive.
LEMMA GovernanceInductive ==
  GovernanceIInv /\ [GovernanceNext]_govVars => GovernanceIInv'
<1>1. SUFFICES ASSUME GovernanceIInv, [GovernanceNext]_govVars PROVE GovernanceIInv'
  OBVIOUS
<1>2. CASE UNCHANGED govVars
  BY <1>1, <1>2 DEF govVars, GovernanceIInv, GovernanceTypeOK, PendingInv, OrderInv, FreshInv,
                    AppliedInv, AppliedInOrder, ApprovalIsMajority, IsApproved
<1>3. ASSUME NEW params \in Params, Propose(params) PROVE GovernanceIInv'
  BY <1>1, <1>3, ProposeKeeps
<1>4. ASSUME NEW p \in pending, NEW approve \in BOOLEAN, NEW power \in Powers,
             Vote(p, approve, power)
      PROVE  GovernanceIInv'
  BY <1>1, <1>4, VoteKeeps
<1>5. ASSUME NEW h \in chainHeight..LastHeight, ProcessProposals(h) PROVE GovernanceIInv'
  BY <1>1, <1>5, ProcessKeeps
<1> QED
  BY <1>1, <1>2, <1>3, <1>4, <1>5 DEF GovernanceNext

\* The governance engine keeps its invariant.
THEOREM GovernanceInvariant ==
  GovernanceSpec => []GovernanceIInv
<1> QED
  BY GovernanceInitial, GovernanceInductive, PTL DEF GovernanceSpec

\* propose, vote and process_proposals keep the types: only parameters that
\* validate accepts are pending or in force.
THEOREM GovernanceTypeCorrect ==
  GovernanceSpec => []GovernanceTypeOK
<1>1. GovernanceIInv => GovernanceTypeOK
  BY DEF GovernanceIInv
<1> QED
  BY <1>1, GovernanceInvariant, PTL

\* process_proposals, at whatever heights it is called: proposals take effect
\* in the order they were made, one at a height, after their window, and an
\* approved one only gives way to an earlier one.
THEOREM ProposalsApplyInOrder ==
  GovernanceSpec => []AppliedInOrder
<1>1. GovernanceIInv => AppliedInOrder
  BY DEF GovernanceIInv
<1> QED
  BY <1>1, GovernanceInvariant, PTL

\* The saturating tallies of vote never carry a proposal that exact ones would
\* not.
THEOREM MajorityCarries ==
  GovernanceSpec => []ApprovalIsMajority
<1>1. GovernanceIInv => ApprovalIsMajority
  BY DEF GovernanceIInv
<1> QED
  BY <1>1, GovernanceInvariant, PTL

----------------------------------------------------------------------------
(* Contracts                                                               *)

Balances == [Accounts -> Int]

Executions ==
  [at : {"idle", "guest"}, limit : 0..MAX_U64, fuel : Nat, used : Nat, logged : Nat,
   balances : Balances, reads : Nat, writes : Nat]

Reports == [limit : Nat, gas : Nat, reads : Nat, writes : Nat]

\* Neither counter passes the limit, and the meter has been charged for every
\* access that the host let through.
Metered(e) ==
  /\ e.fuel <= e.limit /\ e.used <= e.limit
  /\ e.used >= e.reads * GAS_PER_STORAGE_READ + e.writes * GAS_PER_STORAGE_WRITE

\* The inductive invariant of the engine.
ContractsIInv ==
  /\ registry \subseteq ValidCodes
  /\ exec \in [Runners -> Executions] /\ report \in [Runners -> Reports]
  /\ \A t \in Runners : Metered(exec[t])
  /\ GasPaysForState

\* One more access costs one more charge.
LEMMA OneMore ==
  ASSUME NEW n \in Nat, NEW price \in Nat
  PROVE  (n + 1) * price = n * price + price /\ n * price \in Nat /\ 0 * price = 0
OBVIOUS

\* An execution that has not begun.
LEMMA NoCallFacts ==
  /\ NoCall \in Executions /\ Metered(NoCall)
  /\ NoReport \in Reports /\ NoReport.gas = 0 /\ NoReport.limit = 0
  /\ NoReport.reads = 0 /\ NoReport.writes = 0
BY ContractsAssumption, WordsAssumption, OneMore
   DEF NoCall, NoReport, Balances, Executions, Reports, Metered

\* The start.
LEMMA ContractsInitial ==
  ContractsInit => ContractsIInv
<1>1. SUFFICES ASSUME ContractsInit PROVE ContractsIInv
  OBVIOUS
<1>2. exec \in [Runners -> Executions] /\ report \in [Runners -> Reports] /\ registry = {}
  BY <1>1, NoCallFacts DEF ContractsInit
<1>3. \A t \in Runners : Metered(exec[t])
  BY <1>1, NoCallFacts DEF ContractsInit
<1>4. GasPaysForState
  BY <1>1, NoCallFacts, ContractsAssumption, OneMore DEF ContractsInit, GasPaysForState
<1> QED
  BY <1>2, <1>3, <1>4 DEF ContractsIInv

\* A step of the guest after which the host has kept its books: the fuel
\* burnt changes nothing about the meter.
LEMMA GuestKeeps ==
  ASSUME ContractsIInv, NEW t \in Runners, NEW burn \in Burns, NEW e \in Executions,
         Metered(e), e.fuel = exec[t].fuel, Guest(t, burn, e)
  PROVE  ContractsIInv'
<1> DEFINE f == [e EXCEPT !.fuel = @ - burn]
<1>1. exec' = [exec EXCEPT ![t] = f] /\ UNCHANGED <<registry, report>> /\ burn <= e.fuel
  BY DEF Guest
<1>2. burn \in Nat /\ e.fuel \in Nat
  BY ContractsAssumption DEF Executions
<1>3. f \in Executions
  BY <1>1, <1>2 DEF Executions
<1>4. Metered(f)
  <2>1. /\ f.fuel = e.fuel - burn /\ f.limit = e.limit /\ f.used = e.used
        /\ f.reads = e.reads /\ f.writes = e.writes /\ e.limit \in Nat
    BY WordsAssumption DEF Executions
  <2> QED
    BY <1>2, <2>1 DEF Metered
<1> HIDE DEF f
<1>5. exec' \in [Runners -> Executions] /\ \A u \in Runners : Metered(exec'[u])
  BY <1>1, <1>3, <1>4 DEF ContractsIInv
<1> QED
  BY <1>1, <1>5 DEF ContractsIInv, GasPaysForState, Metered

\* A charge that succeeds keeps the meter within the limit.
LEMMA ConsumedFacts ==
  ASSUME NEW e \in Executions, NEW amount \in Nat, Metered(e), Affords(e, amount)
  PROVE  /\ Consumed(e, amount) \in Executions
         /\ Consumed(e, amount) = [e EXCEPT !.used = @ + amount]
         /\ e.used + amount <= e.limit
BY DEF Consumed, Affords, Executions

\* A transfer leaves balances.
LEMMA MovedType ==
  ASSUME NEW balances \in Balances, NEW amount \in Int,
         NEW from \in Accounts \cup {NoAddress}, NEW to \in Accounts \cup {NoAddress}
  PROVE  Moved(balances, from, to, amount) \in Balances
BY DEF Moved, Balances

\* host_log: the charge, made or not, pays for no access.
LEMMA HostLogKeeps ==
  ASSUME ContractsIInv, NEW t \in Runners, NEW burn \in Burns, NEW len \in LogLengths,
         HostLog(t, burn, len)
  PROVE  ContractsIInv'
<1> DEFINE a == len * GAS_PER_LOG_BYTE
           c == Consumed(exec[t], a)
           e == [c EXCEPT !.logged = @ + len]
<1>1. exec[t] \in Executions /\ Metered(exec[t]) /\ len \in Nat /\ a \in Nat
  BY ContractsAssumption DEF ContractsIInv
<1>2. c \in Executions /\ Metered(c) /\ c.fuel = exec[t].fuel
  <2> HIDE DEF a
  <2>1. CASE Affords(exec[t], a)
    <3>1. /\ c \in Executions /\ c = [exec[t] EXCEPT !.used = @ + a]
          /\ exec[t].used + a <= exec[t].limit
      BY <1>1, <2>1, ConsumedFacts
    <3> HIDE DEF c
    <3>2. /\ c.used = exec[t].used + a /\ c.limit = exec[t].limit /\ c.fuel = exec[t].fuel
          /\ c.reads = exec[t].reads /\ c.writes = exec[t].writes
          /\ exec[t].used \in Nat /\ exec[t].reads \in Nat /\ exec[t].writes \in Nat
      BY <1>1, <3>1 DEF Executions
    <3>3. /\ exec[t].reads * GAS_PER_STORAGE_READ \in Nat
          /\ exec[t].writes * GAS_PER_STORAGE_WRITE \in Nat
      BY <3>2, ContractsAssumption, OneMore
    <3> QED
      BY <1>1, <3>1, <3>2, <3>3 DEF Metered
  <2>2. CASE ~ Affords(exec[t], a)
    BY <1>1, <2>2 DEF Consumed
  <2> QED
    BY <2>1, <2>2
<1>3. HostLog(t, burn, len) => Guest(t, burn, e)
  BY DEF HostLog
<1> HIDE DEF c
<1>4. e \in Executions /\ Metered(e) /\ e.fuel = exec[t].fuel
  BY <1>1, <1>2 DEF Executions, Metered
<1> HIDE DEF e
<1> QED
  BY <1>3, <1>4, GuestKeeps

\* host_get_balance: an access that succeeds has been paid.
LEMMA HostGetBalanceKeeps ==
  ASSUME ContractsIInv, NEW t \in Runners, NEW burn \in Burns, HostGetBalance(t, burn)
  PROVE  ContractsIInv'
<1> DEFINE x == exec[t]
           c == Consumed(x, GAS_PER_STORAGE_READ)
           e == [c EXCEPT !.reads = @ + 1]
<1>1. x \in Executions /\ Metered(x) /\ GAS_PER_STORAGE_READ \in Nat
  BY ContractsAssumption DEF ContractsIInv
<1>2. CASE Affords(x, GAS_PER_STORAGE_READ)
  <2>1. Guest(t, burn, e)
    BY <1>2 DEF HostGetBalance
  <2>2. /\ c \in Executions /\ c = [x EXCEPT !.used = @ + GAS_PER_STORAGE_READ]
        /\ x.used + GAS_PER_STORAGE_READ <= x.limit
    BY <1>1, <1>2, ConsumedFacts
  <2> HIDE DEF c, x
  <2>3. /\ e \in Executions /\ e.fuel = x.fuel /\ e.limit = x.limit
        /\ e.used = x.used + GAS_PER_STORAGE_READ /\ e.reads = x.reads + 1
        /\ e.writes = x.writes
        /\ x.used \in Nat /\ x.reads \in Nat /\ x.writes \in Nat
    <3>1. /\ c.fuel = x.fuel /\ c.limit = x.limit /\ c.used = x.used + GAS_PER_STORAGE_READ
          /\ c.reads = x.reads /\ c.writes = x.writes
          /\ x.used \in Nat /\ x.reads \in Nat /\ x.writes \in Nat
      BY <1>1, <2>2 DEF Executions
    <3>2. /\ e.fuel = c.fuel /\ e.limit = c.limit /\ e.used = c.used
          /\ e.reads = c.reads + 1 /\ e.writes = c.writes
      BY <2>2 DEF Executions
    <3>3. c \in Executions
      BY <2>2
    <3>4. e \in Executions
      BY <3>3 DEF Executions
    <3> HIDE DEF e
    <3> QED
      BY <3>1, <3>2, <3>4
  <2> HIDE DEF e
  <2>4. /\ (x.reads + 1) * GAS_PER_STORAGE_READ
             = x.reads * GAS_PER_STORAGE_READ + GAS_PER_STORAGE_READ
        /\ x.reads * GAS_PER_STORAGE_READ \in Nat
        /\ x.writes * GAS_PER_STORAGE_WRITE \in Nat
    BY <2>3, ContractsAssumption, OneMore
  <2>5. Metered(e)
    BY <1>1, <2>2, <2>3, <2>4 DEF Metered
  <2> QED
    BY <2>1, <2>3, <2>5, GuestKeeps DEF x
<1>3. CASE ~ Affords(x, GAS_PER_STORAGE_READ)
  BY <1>1, <1>3, GuestKeeps DEF HostGetBalance
<1> QED
  BY <1>2, <1>3

\* host_transfer: the same, for a write.
LEMMA HostTransferKeeps ==
  ASSUME ContractsIInv, NEW t \in Runners, NEW burn \in Burns,
         NEW from \in Accounts \cup {NoAddress}, NEW to \in Accounts \cup {NoAddress},
         NEW amount \in Transfers64, HostTransfer(t, burn, from, to, amount)
  PROVE  ContractsIInv'
<1> DEFINE x == exec[t]
           c == Consumed(x, GAS_PER_STORAGE_WRITE)
           m == Moved(c.balances, from, to, amount)
           e == [c EXCEPT !.writes = @ + 1, !.balances = m]
<1>1. x \in Executions /\ Metered(x) /\ GAS_PER_STORAGE_WRITE \in Nat /\ amount \in Int
  BY ContractsAssumption DEF ContractsIInv
<1>2. CASE Affords(x, GAS_PER_STORAGE_WRITE)
  <2>1. Guest(t, burn, e)
    BY <1>2 DEF HostTransfer
  <2>2. /\ c \in Executions /\ c = [x EXCEPT !.used = @ + GAS_PER_STORAGE_WRITE]
        /\ x.used + GAS_PER_STORAGE_WRITE <= x.limit
    BY <1>1, <1>2, ConsumedFacts
  <2> HIDE DEF c, x
  <2>3. m \in Balances
    <3>1. c.balances \in Balances
      BY <2>2 DEF Executions
    <3> QED
      BY <1>1, <3>1, MovedType
  <2> HIDE DEF m
  <2>4. /\ e \in Executions /\ e.fuel = x.fuel /\ e.limit = x.limit
        /\ e.used = x.used + GAS_PER_STORAGE_WRITE /\ e.writes = x.writes + 1
        /\ e.reads = x.reads
        /\ x.used \in Nat /\ x.reads \in Nat /\ x.writes \in Nat
    <3>1. /\ c.fuel = x.fuel /\ c.limit = x.limit /\ c.used = x.used + GAS_PER_STORAGE_WRITE
          /\ c.reads = x.reads /\ c.writes = x.writes
          /\ x.used \in Nat /\ x.reads \in Nat /\ x.writes \in Nat
      BY <1>1, <2>2 DEF Executions
    <3>2. /\ e.fuel = c.fuel /\ e.limit = c.limit /\ e.used = c.used
          /\ e.reads = c.reads /\ e.writes = c.writes + 1
      BY <2>2 DEF Executions
    <3>3. c \in Executions
      BY <2>2
    <3>4. e \in Executions
      <4> DEFINE g == [c EXCEPT !.writes = @ + 1]
      <4>1. g \in Executions
        BY <3>3 DEF Executions
      <4>2. e = [g EXCEPT !.balances = m]
        OBVIOUS
      <4> HIDE DEF g, e
      <4> QED
        BY <4>1, <4>2, <2>3 DEF Executions
    <3> HIDE DEF e
    <3> QED
      BY <3>1, <3>2, <3>4
  <2> HIDE DEF e
  <2>5. /\ (x.writes + 1) * GAS_PER_STORAGE_WRITE
             = x.writes * GAS_PER_STORAGE_WRITE + GAS_PER_STORAGE_WRITE
        /\ x.reads * GAS_PER_STORAGE_READ \in Nat
        /\ x.writes * GAS_PER_STORAGE_WRITE \in Nat
    BY <2>4, ContractsAssumption, OneMore
  <2>6. Metered(e)
    BY <1>1, <2>2, <2>4, <2>5 DEF Metered
  <2> QED
    BY <2>1, <2>4, <2>6, GuestKeeps DEF x
<1>3. CASE ~ Affords(x, GAS_PER_STORAGE_WRITE)
  BY <1>1, <1>3, GuestKeeps DEF HostTransfer
<1> QED
  BY <1>2, <1>3

\* The result: the larger of two counters, each within the limit, the meter
\* among them.
LEMMA ReturnKeeps ==
  ASSUME ContractsIInv, NEW t \in Runners, Return(t)
  PROVE  ContractsIInv'
<1> DEFINE x == exec[t]
           r == [limit |-> x.limit, gas |-> GasUsed(x), reads |-> x.reads, writes |-> x.writes]
<1>1. /\ report' = [report EXCEPT ![t] = r] /\ exec' = [exec EXCEPT ![t] = NoCall]
      /\ UNCHANGED registry /\ x \in Executions /\ Metered(x)
      /\ exec \in [Runners -> Executions] /\ report \in [Runners -> Reports]
  BY DEF Return, ContractsIInv
<1> HIDE DEF x
<1>2. /\ x.limit \in Nat /\ x.fuel \in Nat /\ x.used \in Nat
      /\ x.reads \in Nat /\ x.writes \in Nat /\ x.fuel <= x.limit /\ x.used <= x.limit
      /\ x.used >= x.reads * GAS_PER_STORAGE_READ + x.writes * GAS_PER_STORAGE_WRITE
  BY <1>1, WordsAssumption DEF Executions, Metered
<1>3. GasUsed(x) \in Nat /\ GasUsed(x) <= x.limit /\ GasUsed(x) >= x.used
  BY <1>2 DEF GasUsed
<1>4. /\ r \in Reports /\ r.gas <= r.limit
      /\ r.gas >= r.reads * GAS_PER_STORAGE_READ + r.writes * GAS_PER_STORAGE_WRITE
  <2>1. /\ x.reads * GAS_PER_STORAGE_READ \in Nat
        /\ x.writes * GAS_PER_STORAGE_WRITE \in Nat
    BY <1>2, ContractsAssumption, OneMore
  <2> QED
    BY <1>2, <1>3, <2>1 DEF Reports
<1> HIDE DEF r
<1>5. report' \in [Runners -> Reports] /\ GasPaysForState'
  BY <1>1, <1>4 DEF ContractsIInv, GasPaysForState
<1>6. exec' \in [Runners -> Executions] /\ \A u \in Runners : Metered(exec'[u])
  BY <1>1, NoCallFacts DEF ContractsIInv
<1> QED
  BY <1>1, <1>5, <1>6 DEF ContractsIInv, Metered

\* A trap leaves the caller without a result.
LEMMA TrapKeeps ==
  ASSUME ContractsIInv, NEW t \in Runners, Trap(t)
  PROVE  ContractsIInv'
<1>1. exec' \in [Runners -> Executions] /\ \A u \in Runners : Metered(exec'[u])
  BY NoCallFacts DEF Trap, ContractsIInv
<1> QED
  BY <1>1 DEF Trap, ContractsIInv, GasPaysForState, Metered

\* execute_contract gives fuel and meter the same limit.
LEMMA ExecuteKeeps ==
  ASSUME ContractsIInv, NEW t \in Runners, NEW code \in Codes, NEW function \in Functions,
         NEW limit \in GasLimits, ExecuteContract(t, code, function, limit)
  PROVE  ContractsIInv'
<1> DEFINE e == [NoCall EXCEPT !.at = "guest", !.limit = limit, !.fuel = limit]
<1>1. /\ exec' = [exec EXCEPT ![t] = e] /\ report' = [report EXCEPT ![t] = NoReport]
      /\ UNCHANGED registry
  BY DEF ExecuteContract
<1>2. limit \in 0..MAX_U64 /\ limit \in Nat
  BY ContractsAssumption, WordsAssumption
<1>3. e \in Executions
  BY <1>2, NoCallFacts DEF Executions
<1>4. Metered(e)
  BY <1>2, NoCallFacts, ContractsAssumption, OneMore DEF NoCall, Metered
<1> HIDE DEF e
<1>5. exec' \in [Runners -> Executions] /\ \A u \in Runners : Metered(exec'[u])
  BY <1>1, <1>3, <1>4 DEF ContractsIInv
<1>6. report' \in [Runners -> Reports] /\ GasPaysForState'
  BY <1>1, NoCallFacts, ContractsAssumption, OneMore DEF ContractsIInv, GasPaysForState
<1> QED
  BY <1>1, <1>5, <1>6 DEF ContractsIInv, Metered

\* The invariant is inductive.
LEMMA ContractsInductive ==
  ContractsIInv /\ [ContractsNext]_contractVars => ContractsIInv'
<1>1. SUFFICES ASSUME ContractsIInv, [ContractsNext]_contractVars PROVE ContractsIInv'
  OBVIOUS
<1>2. CASE UNCHANGED contractVars
  BY <1>1, <1>2 DEF contractVars, ContractsIInv, GasPaysForState, Metered
<1>3. ASSUME NEW code \in Codes, DeployContract(code) PROVE ContractsIInv'
  BY <1>1, <1>3 DEF DeployContract, ContractsIInv, GasPaysForState, Metered
<1>4. ASSUME NEW t \in Runners, NEW code \in Codes, NEW function \in Functions,
             NEW limit \in GasLimits, ExecuteContract(t, code, function, limit)
      PROVE  ContractsIInv'
  BY <1>1, <1>4, ExecuteKeeps
<1>5. ASSUME NEW t \in Runners, GuestStep(t) PROVE ContractsIInv'
  <2>1. PICK burn \in Burns :
          \/ Instruction(t, burn)
          \/ \E len \in LogLengths : HostLog(t, burn, len)
          \/ HostGetBalance(t, burn)
          \/ \E from, to \in Accounts \cup {NoAddress}, amount \in Transfers64 :
               HostTransfer(t, burn, from, to, amount)
    BY <1>5 DEF GuestStep
  <2>2. CASE Instruction(t, burn)
    <3>1. exec[t] \in Executions /\ Metered(exec[t])
      BY <1>1 DEF ContractsIInv
    <3> QED
      BY <1>1, <2>2, <3>1, GuestKeeps DEF Instruction
  <2> QED
    BY <1>1, <2>1, <2>2, HostLogKeeps, HostGetBalanceKeeps, HostTransferKeeps
<1>6. ASSUME NEW t \in Runners, Return(t) \/ Trap(t) PROVE ContractsIInv'
  BY <1>1, <1>6, ReturnKeeps, TrapKeeps
<1> QED
  BY <1>1, <1>2, <1>3, <1>4, <1>5, <1>6 DEF ContractsNext

\* The engine keeps its invariant.
THEOREM ContractsInvariant ==
  ContractsSpec => []ContractsIInv
<1> QED
  BY ContractsInitial, ContractsInductive, PTL DEF ContractsSpec

\* Fuel and meter of every execution stay in their range; only code that wasmi
\* compiles is registered.
THEOREM ContractsTypeCorrect ==
  ContractsSpec => []ContractsTypeOK
<1>1. ContractsIInv => ContractsTypeOK
  BY WordsAssumption DEF ContractsIInv, ContractsTypeOK, Executions, Metered
<1> QED
  BY <1>1, ContractsInvariant, PTL

\* The gas that execute_contract reports is within the limit and pays for
\* every access to state that the host let through.
THEOREM GasIsPaid ==
  ContractsSpec => []GasPaysForState
<1>1. ContractsIInv => GasPaysForState
  BY DEF ContractsIInv
<1> QED
  BY <1>1, ContractsInvariant, PTL

----------------------------------------------------------------------------
(* Lists and Merkle trees                                                  *)

\* A sequence, whatever its elements are.
IsList(s) == \E S : s \in Seq(S)

\* A function on the first n positions is one.
LEMMA ListFacts ==
  ASSUME NEW n \in Nat, NEW f, f = [i \in 1..n |-> f[i]]
  PROVE  IsList(f) /\ Len(f) = n /\ DOMAIN f = 1..n
<1> DEFINE S == {f[i] : i \in 1..n}
<1>1. \A i \in 1..n : f[i] \in S
  OBVIOUS
<1> HIDE DEF S
<1>2. f \in [1..n -> S]
  BY <1>1
<1>3. f \in Seq(S) /\ Len(f) = n /\ DOMAIN f = 1..n
  BY <1>2
<1> QED
  BY <1>3 DEF IsList

\* What is known of a list.
LEMMA ListDomain ==
  ASSUME NEW s, IsList(s)
  PROVE  Len(s) \in Nat /\ DOMAIN s = 1..Len(s) /\ s = [i \in 1..Len(s) |-> s[i]]
<1>1. PICK S : s \in Seq(S)
  BY DEF IsList
<1> QED
  BY <1>1

\* A list and one element more.
LEMMA ListAppend ==
  ASSUME NEW s, IsList(s), NEW x
  PROVE  /\ IsList(Append(s, x)) /\ Len(Append(s, x)) = Len(s) + 1
         /\ Append(s, x)[Len(s) + 1] = x
         /\ \A i \in 1..Len(s) : Append(s, x)[i] = s[i]
<1>1. PICK S : s \in Seq(S)
  BY DEF IsList
<1> DEFINE U == S \cup {x}
<1>2. s \in Seq(U) /\ x \in U
  <2>1. s \in [1..Len(s) -> S] /\ Len(s) \in Nat
    BY <1>1
  <2>2. s \in [1..Len(s) -> U]
    BY <2>1
  <2> QED
    BY <2>1, <2>2
<1> HIDE DEF U
<1>3. /\ Append(s, x) \in Seq(U) /\ Len(Append(s, x)) = Len(s) + 1
      /\ Append(s, x)[Len(s) + 1] = x
      /\ \A i \in 1..Len(s) : Append(s, x)[i] = s[i]
  BY <1>2
<1> QED
  BY <1>3 DEF IsList

\* The pairs of a level, and the last hash with itself.
LEMMA PairUpFacts ==
  ASSUME NEW l, IsList(l), Len(l) >= 1
  PROVE  /\ IsList(PairUp(l)) /\ Len(PairUp(l)) = (Len(l) + 1) \div 2
         /\ Len(PairUp(l)) \in Nat /\ Len(PairUp(l)) >= 1
         /\ Len(l) > 1 => Len(PairUp(l)) < Len(l)
         /\ \A i \in 1..Len(PairUp(l)) :
              /\ 2 * i - 1 \in 1..Len(l)
              /\ PairUp(l)[i]
                   = Combine(l[2 * i - 1], IF 2 * i <= Len(l) THEN l[2 * i] ELSE l[2 * i - 1])
<1> DEFINE m == (Len(l) + 1) \div 2
<1>1. Len(l) \in Nat
  BY ListDomain
<1>2. m \in Nat /\ m >= 1 /\ 2 * m <= Len(l) + 1 /\ Len(l) <= 2 * m
  BY <1>1
<1>3. Len(l) > 1 => m < Len(l)
  BY <1>1, <1>2
<1>4. PairUp(l) = [i \in 1..m |-> Combine(l[2 * i - 1],
                     IF 2 * i <= Len(l) THEN l[2 * i] ELSE l[2 * i - 1])]
  BY DEF PairUp
<1>5. PairUp(l) = [i \in 1..m |-> PairUp(l)[i]]
  BY <1>4
<1> HIDE DEF m
<1>6. IsList(PairUp(l)) /\ Len(PairUp(l)) = m
  BY <1>2, <1>5, ListFacts
<1>7. \A i \in 1..m : 2 * i - 1 \in 1..Len(l)
  BY <1>1, <1>2
<1> QED
  BY <1>2, <1>3, <1>4, <1>6, <1>7 DEF m

\* The padded level.
LEMMA PaddedFacts ==
  ASSUME NEW l, IsList(l), Len(l) >= 1
  PROVE  /\ Len(Padded(l)) \div 2 = (Len(l) + 1) \div 2
         /\ \A i \in 1..Len(l) : Padded(l)[i] = l[i]
         /\ Len(l) % 2 # 0 => Padded(l)[Len(l) + 1] = l[Len(l)]
<1>1. Len(l) \in Nat
  BY ListDomain
<1>2. CASE Len(l) % 2 # 0
  BY <1>1, <1>2, ListAppend DEF Padded
<1>3. CASE Len(l) % 2 = 0
  BY <1>1, <1>3 DEF Padded
<1> QED
  BY <1>2, <1>3

\* The two loops compute the same level.
LEMMA SameLevel ==
  ASSUME NEW l, IsList(l), Len(l) >= 1
  PROVE  NextLevel(l) = PairUp(l)
<1> DEFINE m == (Len(l) + 1) \div 2
<1>1. Len(l) \in Nat
  BY ListDomain
<1>2. ASSUME NEW i \in 1..m
      PROVE  /\ Padded(l)[2 * i - 1] = l[2 * i - 1]
             /\ Padded(l)[2 * i] = IF 2 * i <= Len(l) THEN l[2 * i] ELSE l[2 * i - 1]
  <2>1. i \in Nat /\ 2 * i - 1 \in 1..Len(l) /\ 2 * i \in Nat
    BY <1>1
  <2>2. CASE 2 * i <= Len(l)
    <3>1. 2 * i \in 1..Len(l)
      BY <1>1, <2>1, <2>2
    <3> QED
      BY <2>1, <2>2, <3>1, PaddedFacts
  <2>3. CASE ~ (2 * i <= Len(l))
    <3>1. 2 * i = Len(l) + 1 /\ Len(l) % 2 # 0 /\ 2 * i - 1 = Len(l)
      BY <1>1, <2>1, <2>3
    <3>2. Padded(l)[Len(l) + 1] = l[Len(l)] /\ Padded(l)[2 * i - 1] = l[2 * i - 1]
      BY <2>1, <3>1, PaddedFacts
    <3> QED
      BY <2>3, <3>1, <3>2, Zenon
  <2> QED
    BY <2>2, <2>3
<1>3. NextLevel(l) = [i \in 1..m |-> Combine(Padded(l)[2 * i - 1], Padded(l)[2 * i])]
  BY PaddedFacts DEF NextLevel
<1>4. PairUp(l) = [i \in 1..m |-> Combine(l[2 * i - 1],
                     IF 2 * i <= Len(l) THEN l[2 * i] ELSE l[2 * i - 1])]
  BY DEF PairUp
<1> HIDE DEF m
<1> QED
  BY <1>2, <1>3, <1>4, Zenon

----------------------------------------------------------------------------
(* The levels                                                              *)

\* The first k levels of compute_merkle_root.
LevelTable(h, k, f) == f = [n \in 0..k |-> IF n = 0 THEN h ELSE Climb(f[n - 1])]

\* The first k levels of build_merkle_tree.
PairTable(h, k, f) == f = [n \in 0..k |-> IF n = 0 THEN h ELSE PairRound(f[n - 1])]

LEMMA LevelsExist ==
  ASSUME NEW h
  PROVE  \A k \in Nat : \E f : LevelTable(h, k, f)
<1> DEFINE T == {k \in Nat : \E f : LevelTable(h, k, f)}
<1>1. 0 \in T
  <2>1. LevelTable(h, 0, [n \in 0..0 |-> h])
    BY DEF LevelTable
  <2> QED
    BY <2>1
<1>2. ASSUME NEW k \in Nat, k \in T PROVE k + 1 \in T
  <2>1. PICK f : LevelTable(h, k, f)
    BY <1>2
  <2> DEFINE g == [n \in 0..(k + 1) |-> IF n = k + 1 THEN Climb(f[k]) ELSE f[n]]
  <2>2. \A n \in 0..k : f[n] = IF n = 0 THEN h ELSE Climb(f[n - 1])
    BY <2>1 DEF LevelTable
  <2>3. ASSUME NEW n \in 0..(k + 1) PROVE g[n] = IF n = 0 THEN h ELSE Climb(g[n - 1])
    <3>1. CASE n = 0
      BY <2>2, <3>1
    <3>2. CASE n # 0 /\ n # k + 1
      <4>1. n \in 0..k /\ n - 1 \in 0..k /\ n - 1 # k + 1 /\ n - 1 \in 0..(k + 1)
        BY <3>2
      <4>2. g[n] = f[n] /\ g[n - 1] = f[n - 1]
        BY <3>2, <4>1
      <4> QED
        BY <2>2, <3>2, <4>1, <4>2, Zenon
    <3>3. CASE n = k + 1
      <4>1. n - 1 = k /\ k \in 0..(k + 1) /\ k # k + 1 /\ n # 0
        BY <3>3
      <4>2. g[k] = f[k] /\ g[n] = Climb(f[k])
        BY <3>3, <4>1
      <4> QED
        BY <4>1, <4>2, Zenon
    <3> QED
      BY <3>1, <3>2, <3>3
  <2>4. g = [n \in 0..(k + 1) |-> g[n]]
    OBVIOUS
  <2> HIDE DEF g
  <2>5. g = [n \in 0..(k + 1) |-> IF n = 0 THEN h ELSE Climb(g[n - 1])]
    BY <2>3, <2>4, Zenon
  <2> QED
    BY <2>5 DEF LevelTable
<1> HIDE DEF T
<1>3. Nat \subseteq T
  BY <1>1, <1>2, SetInduction
<1> QED
  BY <1>3 DEF T

LEMMA PairsExist ==
  ASSUME NEW h
  PROVE  \A k \in Nat : \E f : PairTable(h, k, f)
<1> DEFINE T == {k \in Nat : \E f : PairTable(h, k, f)}
<1>1. 0 \in T
  <2>1. PairTable(h, 0, [n \in 0..0 |-> h])
    BY DEF PairTable
  <2> QED
    BY <2>1
<1>2. ASSUME NEW k \in Nat, k \in T PROVE k + 1 \in T
  <2>1. PICK f : PairTable(h, k, f)
    BY <1>2
  <2> DEFINE g == [n \in 0..(k + 1) |-> IF n = k + 1 THEN PairRound(f[k]) ELSE f[n]]
  <2>2. \A n \in 0..k : f[n] = IF n = 0 THEN h ELSE PairRound(f[n - 1])
    BY <2>1 DEF PairTable
  <2>3. ASSUME NEW n \in 0..(k + 1) PROVE g[n] = IF n = 0 THEN h ELSE PairRound(g[n - 1])
    <3>1. CASE n = 0
      BY <2>2, <3>1
    <3>2. CASE n # 0 /\ n # k + 1
      <4>1. n \in 0..k /\ n - 1 \in 0..k /\ n - 1 # k + 1 /\ n - 1 \in 0..(k + 1)
        BY <3>2
      <4>2. g[n] = f[n] /\ g[n - 1] = f[n - 1]
        BY <3>2, <4>1
      <4> QED
        BY <2>2, <3>2, <4>1, <4>2, Zenon
    <3>3. CASE n = k + 1
      <4>1. n - 1 = k /\ k \in 0..(k + 1) /\ k # k + 1 /\ n # 0
        BY <3>3
      <4>2. g[k] = f[k] /\ g[n] = PairRound(f[k])
        BY <3>3, <4>1
      <4> QED
        BY <4>1, <4>2, Zenon
    <3> QED
      BY <3>1, <3>2, <3>3
  <2>4. g = [n \in 0..(k + 1) |-> g[n]]
    OBVIOUS
  <2> HIDE DEF g
  <2>5. g = [n \in 0..(k + 1) |-> IF n = 0 THEN h ELSE PairRound(g[n - 1])]
    BY <2>3, <2>4, Zenon
  <2> QED
    BY <2>5 DEF PairTable
<1> HIDE DEF T
<1>3. Nat \subseteq T
  BY <1>1, <1>2, SetInduction
<1> QED
  BY <1>3 DEF T

\* The levels of a list: lists, each shorter than the one before it down to
\* the root, the same in both loops.
LEMMA LevelFacts ==
  ASSUME NEW h, IsList(h), Len(h) >= 1
  PROVE  \A n \in 0..Len(h) :
           /\ IsList(Levels(h)[n]) /\ Len(Levels(h)[n]) >= 1
           /\ Len(Levels(h)[n]) = 1 \/ Len(Levels(h)[n]) <= Len(h) - n
           /\ PairAll(h)[n] = Levels(h)[n]
           /\ n > 0 => Levels(h)[n] = Climb(Levels(h)[n - 1])
           /\ n = 0 => Levels(h)[n] = h
<1> DEFINE N == Len(h)
           f == Levels(h)
           g == PairAll(h)
           Good(n) == /\ IsList(f[n]) /\ Len(f[n]) >= 1
                      /\ Len(f[n]) = 1 \/ Len(f[n]) <= N - n
                      /\ g[n] = f[n]
           T == {n \in Nat : n <= N => Good(n)}
<1>1. N \in Nat
  BY ListDomain
<1>2. LevelTable(h, N, f)
  <2>1. f = CHOOSE x : LevelTable(h, N, x)
    BY DEF Levels, LevelTable
  <2>2. \E x : LevelTable(h, N, x)
    BY <1>1, LevelsExist
  <2> QED
    BY <2>1, <2>2, Zenon
<1>3. PairTable(h, N, g)
  <2>1. g = CHOOSE x : PairTable(h, N, x)
    BY DEF PairAll, PairTable
  <2>2. \E x : PairTable(h, N, x)
    BY <1>1, PairsExist
  <2> QED
    BY <2>1, <2>2, Zenon
<1> HIDE DEF f, g
<1>4. /\ f[0] = h /\ g[0] = h
      /\ \A n \in 0..N : n # 0 => f[n] = Climb(f[n - 1]) /\ g[n] = PairRound(g[n - 1])
  <2>1. 0 \in 0..N
    BY <1>1
  <2> HIDE DEF N
  <2> QED
    BY <1>2, <1>3, <2>1 DEF LevelTable, PairTable
<1>5. 0 \in T
  BY <1>1, <1>4
<1>6. ASSUME NEW n \in Nat, n \in T PROVE n + 1 \in T
  <2>1. SUFFICES ASSUME n + 1 <= N PROVE Good(n + 1)
    OBVIOUS
  <2>2. n + 1 \in 0..N /\ n + 1 # 0 /\ (n + 1) - 1 = n /\ n <= N
    BY <1>1, <2>1
  <2>3. Good(n) /\ f[n + 1] = Climb(f[n]) /\ g[n + 1] = PairRound(f[n])
    BY <1>4, <1>6, <2>2
  <2>4. PICK l : l = f[n]
    OBVIOUS
  <2>5. IsList(l) /\ Len(l) >= 1 /\ (Len(l) = 1 \/ Len(l) <= N - n) /\ Len(l) \in Nat
    BY <2>3, <2>4, ListDomain
  <2>6. CASE Len(l) = 1
    BY <2>3, <2>4, <2>5, <2>6 DEF Climb, PairRound
  <2>7. CASE Len(l) # 1
    <3>1. ~ (Len(l) <= 1) /\ Len(l) > 1
      <4>1. PICK k \in Nat : k = Len(l) /\ k >= 1
        BY <2>5
      <4>2. k > 1
        BY <2>7, <4>1
      <4> QED
        BY <4>1, <4>2
    <3>2. f[n + 1] = PairUp(l) /\ g[n + 1] = PairUp(l)
      BY <2>3, <2>4, <2>5, <2>7, <3>1, SameLevel DEF Climb, PairRound
    <3>3. IsList(PairUp(l)) /\ Len(PairUp(l)) \in Nat /\ Len(PairUp(l)) >= 1
          /\ Len(PairUp(l)) < Len(l)
      BY <2>5, <3>1, PairUpFacts
    <3>4. Len(PairUp(l)) <= N - (n + 1)
      BY <1>1, <2>5, <2>7, <3>3
    <3> QED
      BY <3>2, <3>3, <3>4
  <2> QED
    BY <2>6, <2>7
<1> HIDE DEF T
<1>7. Nat \subseteq T
  BY <1>5, <1>6, SetInduction
<1>8. \A n \in 0..N : Good(n)
  BY <1>1, <1>7 DEF T
<1> QED
  BY <1>1, <1>4, <1>8 DEF f, g

\* compute_merkle_root and build_merkle_tree agree on every list.
THEOREM TreesAgree ==
  ASSUME NEW h, IsList(h)
  PROVE  MerkleRoot(h) = BuildTree(h)
<1>1. CASE h = <<>>
  BY <1>1 DEF MerkleRoot, BuildTree
<1>2. CASE h # <<>>
  <2>1. Len(h) \in Nat /\ Len(h) >= 1
    <3>1. PICK S : h \in Seq(S)
      BY DEF IsList
    <3> QED
      BY <1>2, <3>1
  <2>2. Len(h) \in 0..Len(h)
    BY <2>1
  <2>3. PairAll(h)[Len(h)] = Levels(h)[Len(h)]
    BY <2>1, <2>2, LevelFacts
  <2> QED
    BY <1>2, <2>3, Zenon DEF MerkleRoot, BuildTree
<1> QED
  BY <1>1, <1>2

----------------------------------------------------------------------------
(* Proofs of inclusion                                                     *)

\* The first k hashes of verify_merkle_proof.
JoinTable(x, p, k, f) == f = [n \in 0..k |-> IF n = 0 THEN x ELSE Join(f[n - 1], p[n])]

LEMMA JoinsExist ==
  ASSUME NEW x, NEW p
  PROVE  \A k \in Nat : \E f : JoinTable(x, p, k, f)
<1> DEFINE T == {k \in Nat : \E f : JoinTable(x, p, k, f)}
<1>1. 0 \in T
  <2>1. JoinTable(x, p, 0, [n \in 0..0 |-> x])
    BY DEF JoinTable
  <2> QED
    BY <2>1
<1>2. ASSUME NEW k \in Nat, k \in T PROVE k + 1 \in T
  <2>1. PICK f : JoinTable(x, p, k, f)
    BY <1>2
  <2> DEFINE g == [n \in 0..(k + 1) |-> IF n = k + 1 THEN Join(f[k], p[k + 1]) ELSE f[n]]
  <2>2. \A n \in 0..k : f[n] = IF n = 0 THEN x ELSE Join(f[n - 1], p[n])
    BY <2>1 DEF JoinTable
  <2>3. ASSUME NEW n \in 0..(k + 1) PROVE g[n] = IF n = 0 THEN x ELSE Join(g[n - 1], p[n])
    <3>1. CASE n = 0
      BY <2>2, <3>1
    <3>2. CASE n # 0 /\ n # k + 1
      <4>1. n \in 0..k /\ n - 1 \in 0..k /\ n - 1 # k + 1 /\ n - 1 \in 0..(k + 1)
        BY <3>2
      <4>2. g[n] = f[n] /\ g[n - 1] = f[n - 1]
        BY <3>2, <4>1
      <4> QED
        BY <2>2, <3>2, <4>1, <4>2, Zenon
    <3>3. CASE n = k + 1
      <4>1. n - 1 = k /\ k \in 0..(k + 1) /\ k # k + 1 /\ n # 0
        BY <3>3
      <4>2. g[k] = f[k] /\ g[n] = Join(f[k], p[k + 1])
        BY <3>3, <4>1
      <4> QED
        BY <3>3, <4>1, <4>2, Zenon
    <3> QED
      BY <3>1, <3>2, <3>3
  <2>4. g = [n \in 0..(k + 1) |-> g[n]]
    OBVIOUS
  <2> HIDE DEF g
  <2>5. g = [n \in 0..(k + 1) |-> IF n = 0 THEN x ELSE Join(g[n - 1], p[n])]
    BY <2>3, <2>4, Zenon
  <2> QED
    BY <2>5 DEF JoinTable
<1> HIDE DEF T
<1>3. Nat \subseteq T
  BY <1>1, <1>2, SetInduction
<1> QED
  BY <1>3 DEF T

\* The loop over a list, as a table.
LEMMA ProofRootFacts ==
  ASSUME NEW x, NEW p, IsList(p)
  PROVE  \E f : /\ f[0] = x /\ ProofRoot(x, p) = f[Len(p)]
                /\ \A n \in 1..Len(p) : f[n] = Join(f[n - 1], p[n])
<1>1. Len(p) \in Nat
  BY ListDomain
<1>2. PICK f : f = CHOOSE g : JoinTable(x, p, Len(p), g)
  OBVIOUS
<1>3. JoinTable(x, p, Len(p), f)
  <2>1. \E g : JoinTable(x, p, Len(p), g)
    BY <1>1, JoinsExist
  <2> QED
    BY <1>2, <2>1, Zenon
<1>4. ProofRoot(x, p) = f[Len(p)]
  BY <1>2, Zenon DEF ProofRoot, JoinTable
<1>5. 0 \in 0..Len(p) /\ \A n \in 1..Len(p) : n \in 0..Len(p) /\ n # 0
  BY <1>1
<1>6. f[0] = x /\ \A n \in 1..Len(p) : f[n] = Join(f[n - 1], p[n])
  BY <1>3, <1>5 DEF JoinTable
<1> QED
  BY <1>4, <1>6

\* Nothing to join.
LEMMA ProofRootEmpty ==
  ASSUME NEW x
  PROVE  ProofRoot(x, <<>>) = x
<1>1. IsList(<<>>) /\ Len(<<>>) = 0
  <2>1. <<>> \in Seq({})
    OBVIOUS
  <2> QED
    BY <2>1 DEF IsList
<1>2. PICK f : f[0] = x /\ ProofRoot(x, <<>>) = f[Len(<<>>)]
  BY <1>1, ProofRootFacts
<1> QED
  BY <1>1, <1>2

\* One step more.
LEMMA ProofRootAppend ==
  ASSUME NEW x, NEW p, IsList(p), NEW s
  PROVE  ProofRoot(x, Append(p, s)) = Join(ProofRoot(x, p), s)
<1> DEFINE q == Append(p, s)
           N == Len(p)
<1>1. N \in Nat
  BY ListDomain
<1>2. IsList(q) /\ Len(q) = N + 1 /\ q[N + 1] = s /\ \A i \in 1..N : q[i] = p[i]
  BY ListAppend
<1> HIDE DEF q
<1>3. PICK f : /\ f[0] = x /\ ProofRoot(x, p) = f[N]
               /\ \A n \in 1..N : f[n] = Join(f[n - 1], p[n])
  BY ProofRootFacts
<1>4. PICK g : /\ g[0] = x /\ ProofRoot(x, q) = g[Len(q)]
               /\ \A n \in 1..Len(q) : g[n] = Join(g[n - 1], q[n])
  <2>1. IsList(q)
    BY <1>2
  <2> QED
    BY <2>1, ProofRootFacts
<1> DEFINE T == {n \in Nat : n <= N => g[n] = f[n]}
<1> HIDE DEF N
<1>5. 0 \in T
  BY <1>3, <1>4
<1>6. ASSUME NEW n \in Nat, n \in T PROVE n + 1 \in T
  <2>1. SUFFICES ASSUME n + 1 <= N PROVE g[n + 1] = f[n + 1]
    OBVIOUS
  <2>2. n + 1 \in 1..N /\ n + 1 \in 1..Len(q) /\ (n + 1) - 1 = n /\ n <= N
    BY <1>1, <1>2, <2>1
  <2>3. g[n] = f[n]
    BY <1>6, <2>2
  <2>4. f[n + 1] = Join(f[n], p[n + 1]) /\ g[n + 1] = Join(g[n], q[n + 1])
    BY <1>3, <1>4, <2>2
  <2>5. q[n + 1] = p[n + 1]
    BY <1>2, <2>2
  <2> QED
    BY <2>3, <2>4, <2>5, Zenon
<1> HIDE DEF T
<1>7. Nat \subseteq T
  BY <1>5, <1>6, SetInduction
<1>8. g[N] = f[N]
  BY <1>1, <1>7 DEF T
<1>9. N + 1 \in 1..Len(q) /\ (N + 1) - 1 = N
  BY <1>1, <1>2
<1>10. g[N + 1] = Join(g[N], q[N + 1])
  BY <1>4, <1>9
<1> QED
  BY <1>2, <1>3, <1>4, <1>8, <1>10, Zenon DEF q

\* Two different pairs have different parents.
LEMMA CombineBinds ==
  ASSUME NEW a, NEW b, NEW c, NEW d
  PROVE  Combine(a, b) = Combine(c, d) <=> a = c /\ b = d
BY DEF Combine

\* What compute_merkle_proof has when it comes to a level: the position of the
\* leaf's ancestor there, and steps that lead to it from the leaf y and from no
\* other hash.
Leads(p, x, y) ==
  /\ IsList(p.level) /\ Len(p.level) >= 1 /\ IsList(p.proof)
  /\ p.idx \in Nat /\ p.idx < Len(p.level)
  /\ ProofRoot(x, p.proof) = p.level[p.idx + 1] <=> x = y

\* The next level.
LEMMA RoundLeads ==
  ASSUME NEW p, NEW x, NEW y, Leads(p, x, y), Len(p.level) # 1
  PROVE  LET q == ProofRound(p)
         IN  q.level = NextLevel(p.level) /\ Leads(q, x, y)
<1> DEFINE l == p.level
           i == p.idx
           j == p.idx \div 2
           s == [hash |-> Padded(l)[Sibling(i) + 1], right |-> i % 2 = 0]
           q == ProofRound(p)
           c == ProofRoot(x, p.proof)
           m == PairUp(l)
<1>1. /\ IsList(l) /\ Len(l) >= 1 /\ Len(l) \in Nat /\ IsList(p.proof) /\ i \in Nat /\ i < Len(l)
      /\ c = l[i + 1] <=> x = y
  BY ListDomain DEF Leads
<1>2. q.level = NextLevel(l) /\ q.idx = j /\ q.proof = Append(p.proof, s)
  BY DEF ProofRound
<1>3. NextLevel(l) = m
  BY <1>1, SameLevel
<1>4. /\ IsList(m) /\ Len(m) = (Len(l) + 1) \div 2 /\ Len(m) >= 1 /\ Len(m) \in Nat
      /\ \A k \in 1..Len(m) :
           m[k] = Combine(l[2 * k - 1], IF 2 * k <= Len(l) THEN l[2 * k] ELSE l[2 * k - 1])
  BY <1>1, PairUpFacts
<1>5. /\ Len(l) % 2 # 0 => Padded(l)[Len(l) + 1] = l[Len(l)]
      /\ \A k \in 1..Len(l) : Padded(l)[k] = l[k]
  BY <1>1, PaddedFacts
<1>6. IsList(Append(p.proof, s)) /\ ProofRoot(x, Append(p.proof, s)) = Join(c, s)
  BY <1>1, ListAppend, ProofRootAppend
<1>7. j = i \div 2
  OBVIOUS
<1>8. s.hash = Padded(l)[Sibling(i) + 1] /\ s.right = (i % 2 = 0)
  OBVIOUS
<1> HIDE DEF l, i, j, s, q, c, m
<1>10. j \in Nat /\ j < Len(m) /\ j + 1 \in 1..Len(m) /\ (i = 2 * j \/ i = 2 * j + 1)
  BY <1>1, <1>4, <1>7
<1>9. Join(c, s) = m[j + 1] <=> c = l[i + 1]
  <2>1. CASE i = 2 * j
    <3>1. i % 2 = 0 /\ Sibling(i) + 1 = i + 2 /\ 2 * (j + 1) = i + 2 /\ 2 * (j + 1) - 1 = i + 1
      BY <1>1, <1>10, <2>1 DEF Sibling
    <3>2. m[j + 1] = Combine(l[i + 1], IF i + 2 <= Len(l) THEN l[i + 2] ELSE l[i + 1])
      BY <1>4, <1>10, <3>1
    <3>3. s.hash = IF i + 2 <= Len(l) THEN l[i + 2] ELSE l[i + 1]
      <4>1. s.hash = Padded(l)[i + 2]
        BY <1>8, <3>1, Zenon
      <4>2. CASE i + 2 <= Len(l)
        <5>1. i + 2 \in 1..Len(l)
          BY <1>1, <4>2
        <5> QED
          BY <1>5, <4>1, <4>2, <5>1
      <4>3. CASE ~ (i + 2 <= Len(l))
        <5>1. i + 1 = Len(l) /\ i + 2 = Len(l) + 1 /\ Len(l) % 2 # 0
          BY <1>1, <1>10, <2>1, <4>3
        <5>2. Padded(l)[Len(l) + 1] = l[Len(l)]
          BY <1>5, <5>1
        <5> QED
          BY <4>1, <4>3, <5>1, <5>2, Zenon
      <4> QED
        BY <4>2, <4>3
    <3>4. Join(c, s) = Combine(c, s.hash)
      BY <1>8, <3>1 DEF Join
    <3>5. m[j + 1] = Combine(l[i + 1], s.hash)
      BY <3>2, <3>3, Zenon
    <3> QED
      BY <3>4, <3>5, CombineBinds
  <2>2. CASE i = 2 * j + 1
    <3>1. i % 2 # 0 /\ Sibling(i) + 1 = i /\ 2 * (j + 1) = i + 1 /\ 2 * (j + 1) - 1 = i
          /\ i + 1 <= Len(l) /\ i \in 1..Len(l)
      BY <1>1, <1>10, <2>2 DEF Sibling
    <3>2. m[j + 1] = Combine(l[i], l[i + 1])
      BY <1>4, <1>10, <3>1
    <3>3. s.hash = l[i]
      BY <1>5, <1>8, <3>1
    <3>4. Join(c, s) = Combine(s.hash, c)
      BY <1>8, <3>1 DEF Join
    <3>5. m[j + 1] = Combine(s.hash, l[i + 1])
      BY <3>2, <3>3, Zenon
    <3> QED
      BY <3>4, <3>5, CombineBinds
  <2> QED
    BY <1>10, <2>1, <2>2
<1> QED
  BY <1>1, <1>2, <1>3, <1>4, <1>6, <1>10, <1>9, Zenon DEF Leads, l, q

\* The first k rounds of compute_merkle_proof.
ProofTable(h, idx, k, f) ==
  f = [n \in 0..k |-> IF n = 0 THEN [level |-> h, idx |-> idx, proof |-> <<>>]
                      ELSE ProofRound(f[n - 1])]

LEMMA ProofsExist ==
  ASSUME NEW h, NEW idx
  PROVE  \A k \in Nat : \E f : ProofTable(h, idx, k, f)
<1> DEFINE start == [level |-> h, idx |-> idx, proof |-> <<>>]
           T == {k \in Nat : \E f : ProofTable(h, idx, k, f)}
<1>1. 0 \in T
  <2>1. ProofTable(h, idx, 0, [n \in 0..0 |-> start])
    BY DEF ProofTable
  <2> QED
    BY <2>1
<1>2. ASSUME NEW k \in Nat, k \in T PROVE k + 1 \in T
  <2>1. PICK f : ProofTable(h, idx, k, f)
    BY <1>2
  <2> DEFINE g == [n \in 0..(k + 1) |-> IF n = k + 1 THEN ProofRound(f[k]) ELSE f[n]]
  <2>2. \A n \in 0..k : f[n] = IF n = 0 THEN start ELSE ProofRound(f[n - 1])
    BY <2>1 DEF ProofTable
  <2>3. ASSUME NEW n \in 0..(k + 1) PROVE g[n] = IF n = 0 THEN start ELSE ProofRound(g[n - 1])
    <3>1. CASE n = 0
      BY <2>2, <3>1
    <3>2. CASE n # 0 /\ n # k + 1
      <4>1. n \in 0..k /\ n - 1 \in 0..k /\ n - 1 # k + 1 /\ n - 1 \in 0..(k + 1)
        BY <3>2
      <4>2. g[n] = f[n] /\ g[n - 1] = f[n - 1]
        BY <3>2, <4>1
      <4> QED
        BY <2>2, <3>2, <4>1, <4>2, Zenon
    <3>3. CASE n = k + 1
      <4>1. n - 1 = k /\ k \in 0..(k + 1) /\ k # k + 1 /\ n # 0
        BY <3>3
      <4>2. g[k] = f[k] /\ g[n] = ProofRound(f[k])
        BY <3>3, <4>1
      <4> QED
        BY <4>1, <4>2, Zenon
    <3> QED
      BY <3>1, <3>2, <3>3
  <2>4. g = [n \in 0..(k + 1) |-> g[n]]
    OBVIOUS
  <2> HIDE DEF g
  <2>5. g = [n \in 0..(k + 1) |-> IF n = 0 THEN start ELSE ProofRound(g[n - 1])]
    BY <2>3, <2>4, Zenon
  <2> QED
    BY <2>5 DEF ProofTable
<1> HIDE DEF T
<1>3. Nat \subseteq T
  BY <1>1, <1>2, SetInduction
<1> QED
  BY <1>3 DEF T

\* A proof of inclusion is verified for its own hash and for no other, whatever
\* the number of hashes: verify_merkle_proof accepts what compute_merkle_proof
\* returns for the hash at that index, and refuses it for every other one.
THEOREM ProofsBind ==
  ASSUME NEW h, IsList(h), NEW idx \in Nat, idx < Len(h), NEW x
  PROVE  VerifyProof(MerkleRoot(h), x, MerkleProof(h, idx)) <=> x = h[idx + 1]
<1> DEFINE N == Len(h)
           f == ProofRounds(h, idx)
           lv == Levels(h)
           y == h[idx + 1]
           T == {n \in Nat : n <= N => f[n].level = lv[n] /\ Leads(f[n], x, y)}
<1>1. N \in Nat /\ N >= 1
  <2>1. N \in Nat
    BY ListDomain
  <2> QED
    BY <2>1
<1>2. ProofTable(h, idx, N, f)
  <2>1. f = CHOOSE g : ProofTable(h, idx, N, g)
    BY DEF ProofRounds, ProofTable
  <2>2. \E g : ProofTable(h, idx, N, g)
    BY <1>1, ProofsExist
  <2> QED
    BY <2>1, <2>2, Zenon
<1> DEFINE start == [level |-> h, idx |-> idx, proof |-> <<>>]
<1> HIDE DEF f
<1>3. f[0] = start /\ \A n \in 0..N : n # 0 => f[n] = ProofRound(f[n - 1])
  <2>1. 0 \in 0..N
    BY <1>1
  <2> HIDE DEF N
  <2> QED
    BY <1>2, <2>1 DEF ProofTable
<1>4. \A n \in 0..N : /\ IsList(lv[n]) /\ Len(lv[n]) >= 1
                      /\ Len(lv[n]) = 1 \/ Len(lv[n]) <= N - n
                      /\ n > 0 => lv[n] = Climb(lv[n - 1])
                      /\ n = 0 => lv[n] = h
  BY <1>1, LevelFacts
<1>5. start.level = h /\ start.idx = idx /\ start.proof = <<>>
  OBVIOUS
<1> HIDE DEF start, lv
<1>6. 0 \in T
  <2>1. IsList(<<>>)
    <3>1. <<>> \in Seq({})
      OBVIOUS
    <3> QED
      BY <3>1 DEF IsList
  <2>2. ProofRoot(x, <<>>) = x
    BY ProofRootEmpty
  <2>3. Leads(start, x, y)
    BY <1>1, <1>5, <2>1, <2>2 DEF Leads
  <2>4. 0 \in 0..N /\ lv[0] = h
    BY <1>1, <1>4
  <2> QED
    BY <1>3, <1>5, <2>3, <2>4
<1> HIDE DEF y
<1>7. ASSUME NEW n \in Nat, n \in T PROVE n + 1 \in T
  <2>1. SUFFICES ASSUME n + 1 <= N PROVE f[n + 1].level = lv[n + 1] /\ Leads(f[n + 1], x, y)
    OBVIOUS
  <2>2. n + 1 \in 0..N /\ n + 1 # 0 /\ n + 1 > 0 /\ (n + 1) - 1 = n /\ n <= N
    BY <1>1, <2>1
  <2>3. f[n].level = lv[n] /\ Leads(f[n], x, y)
    BY <1>7, <2>2
  <2>4. f[n + 1] = ProofRound(f[n]) /\ lv[n + 1] = Climb(lv[n])
    BY <1>3, <1>4, <2>2
  <2>5. CASE Len(lv[n]) = 1
    <3>1. f[n + 1] = f[n]
      BY <2>3, <2>4, <2>5 DEF ProofRound
    <3>2. lv[n + 1] = lv[n]
      BY <2>4, <2>5 DEF Climb
    <3> QED
      BY <2>3, <3>1, <3>2
  <2>6. CASE Len(lv[n]) # 1
    <3>1. f[n + 1].level = NextLevel(f[n].level) /\ Leads(f[n + 1], x, y)
      BY <2>3, <2>4, <2>6, RoundLeads
    <3>2. lv[n + 1] = NextLevel(lv[n])
      BY <2>4, <2>6 DEF Climb
    <3> QED
      BY <2>3, <3>1, <3>2
  <2> QED
    BY <2>5, <2>6
<1> HIDE DEF T
<1>8. Nat \subseteq T
  BY <1>6, <1>7, SetInduction
<1>9. f[N].level = lv[N] /\ Leads(f[N], x, y)
  BY <1>1, <1>8 DEF T
<1>10. Len(lv[N]) = 1
  <2>1. N \in 0..N
    BY <1>1
  <2>2. Len(lv[N]) >= 1 /\ (Len(lv[N]) = 1 \/ Len(lv[N]) <= N - N) /\ IsList(lv[N])
    BY <1>4, <2>1
  <2>3. Len(lv[N]) \in Nat
    BY <2>2, ListDomain
  <2> QED
    BY <1>1, <2>2, <2>3
<1>11. f[N].idx = 0
  <2>1. f[N].idx \in Nat /\ f[N].idx < Len(f[N].level)
    BY <1>9 DEF Leads
  <2> QED
    BY <1>9, <1>10, <2>1
<1>12. ProofRoot(x, f[N].proof) = lv[N][1] <=> x = y
  BY <1>9, <1>11 DEF Leads
<1>13. h # <<>>
  BY <1>1
<1>14. MerkleRoot(h) = lv[N][1]
  BY <1>13 DEF MerkleRoot, lv
<1>15. MerkleProof(h, idx) = f[N].proof
  <2>1. CASE N <= 1
    <3>1. N = 1 /\ 1 \in 0..N /\ 1 # 0 /\ 0 \in 0..N /\ 1 - 1 = 0
      BY <1>1, <2>1
    <3>2. f[1] = ProofRound(f[0]) /\ f[0] = start
      BY <1>3, <3>1
    <3>3. f[1] = start
      BY <1>5, <3>1, <3>2 DEF ProofRound
    <3>4. MerkleProof(h, idx) = <<>>
      BY <2>1 DEF MerkleProof
    <3> QED
      BY <1>5, <3>1, <3>3, <3>4
  <2>2. CASE ~ (N <= 1)
    <3>1. ~ (idx >= N)
      BY <1>1
    <3> QED
      BY <2>2, <3>1, Zenon DEF MerkleProof, f
  <2> QED
    BY <2>1, <2>2
<1> QED
  BY <1>12, <1>14, <1>15, Zenon DEF VerifyProof, y

----------------------------------------------------------------------------
(* What a root is made of                                                  *)

\* A set of hashes with what their nodes were combined from.
Closed(S) == \A a, b : Combine(a, b) \in S => a \in S /\ b \in S

\* A hash that went into a root.
Part(x, r) == \A S : r \in S /\ Closed(S) => x \in S

IsNode(x) == \E a, b : x = Combine(a, b)

\* A hash that is no node has no other part.
LEMMA PartOfLeaf ==
  ASSUME NEW x, NEW r, ~ IsNode(r)
  PROVE  Part(x, r) <=> x = r
<1>1. ASSUME Part(x, r) PROVE x = r
  <2>1. Closed({r})
    BY Zenon DEF Closed, IsNode
  <2>2. r \in {r}
    OBVIOUS
  <2>3. x \in {r}
    BY <1>1, <2>1, <2>2, Zenon DEF Part
  <2> QED
    BY <2>3
<1>2. ASSUME x = r PROVE Part(x, r)
  BY <1>2, Zenon DEF Part
<1> QED
  BY <1>1, <1>2

\* The parts of a node, itself left out, are those of its two children.
LEMMA PartOfNode ==
  ASSUME NEW x, ~ IsNode(x), NEW a, NEW b
  PROVE  Part(x, Combine(a, b)) <=> Part(x, a) \/ Part(x, b)
<1>1. ASSUME Part(x, a) \/ Part(x, b) PROVE Part(x, Combine(a, b))
  <2>1. SUFFICES ASSUME NEW S, Combine(a, b) \in S, Closed(S) PROVE x \in S
    BY Zenon DEF Part
  <2>2. a \in S /\ b \in S
    BY <2>1, Zenon DEF Closed
  <2> QED
    BY <1>1, <2>1, <2>2, Zenon DEF Part
<1>2. ASSUME Part(x, Combine(a, b)), ~ Part(x, a), ~ Part(x, b) PROVE FALSE
  <2>1. PICK A : a \in A /\ Closed(A) /\ x \notin A
    BY <1>2, Zenon DEF Part
  <2>2. PICK B : b \in B /\ Closed(B) /\ x \notin B
    BY <1>2, Zenon DEF Part
  <2> DEFINE S == A \cup B \cup {Combine(a, b)}
  <2>3. ASSUME NEW c, NEW d, Combine(c, d) \in S PROVE c \in S /\ d \in S
    <3>1. CASE Combine(c, d) \in A
      BY <2>1, <3>1, Zenon DEF Closed
    <3>2. CASE Combine(c, d) \in B
      BY <2>2, <3>2, Zenon DEF Closed
    <3>3. CASE Combine(c, d) = Combine(a, b)
      <4>1. c = a /\ d = b
        BY <3>3, CombineBinds
      <4> QED
        BY <2>1, <2>2, <4>1
    <3> QED
      BY <2>3, <3>1, <3>2, <3>3
  <2>4. Closed(S)
    BY <2>3, Zenon DEF Closed
  <2>5. Combine(a, b) \in S
    OBVIOUS
  <2>6. x \in S
    BY <1>2, <2>4, <2>5, Zenon DEF Part
  <2>7. x # Combine(a, b)
    BY Zenon DEF IsNode
  <2> QED
    BY <2>1, <2>2, <2>6, <2>7
<1> QED
  BY <1>1, <1>2

\* A part of one of the hashes of a level.
Under(x, l) == \E i \in 1..Len(l) : Part(x, l[i])

\* A round keeps the parts.
LEMMA PairsKeepParts ==
  ASSUME NEW l, IsList(l), Len(l) >= 1, NEW x, ~ IsNode(x)
  PROVE  Under(x, PairUp(l)) <=> Under(x, l)
<1> DEFINE m == PairUp(l)
<1>1. /\ Len(l) \in Nat /\ Len(m) \in Nat /\ Len(m) = (Len(l) + 1) \div 2
      /\ \A i \in 1..Len(m) :
           /\ 2 * i - 1 \in 1..Len(l)
           /\ m[i] = Combine(l[2 * i - 1], IF 2 * i <= Len(l) THEN l[2 * i] ELSE l[2 * i - 1])
  BY ListDomain, PairUpFacts
<1> HIDE DEF m
<1>2. ASSUME NEW i \in 1..Len(m)
      PROVE  Part(x, m[i]) <=> \/ Part(x, l[2 * i - 1])
                               \/ 2 * i <= Len(l) /\ Part(x, l[2 * i])
  <2>1. CASE 2 * i <= Len(l)
    <3>1. m[i] = Combine(l[2 * i - 1], l[2 * i])
      BY <1>1, <2>1
    <3> QED
      BY <2>1, <3>1, PartOfNode, Zenon
  <2>2. CASE ~ (2 * i <= Len(l))
    <3>1. m[i] = Combine(l[2 * i - 1], l[2 * i - 1])
      BY <1>1, <2>2
    <3> QED
      BY <2>2, <3>1, PartOfNode, Zenon
  <2> QED
    BY <2>1, <2>2
<1>3. ASSUME Under(x, m) PROVE Under(x, l)
  <2>1. PICK i \in 1..Len(m) : Part(x, m[i])
    BY <1>3 DEF Under
  <2>2. CASE Part(x, l[2 * i - 1])
    <3>1. 2 * i - 1 \in 1..Len(l)
      BY <1>1
    <3> QED
      BY <2>2, <3>1, Zenon DEF Under
  <2>3. CASE 2 * i <= Len(l) /\ Part(x, l[2 * i])
    <3>1. 2 * i \in 1..Len(l)
      BY <1>1, <2>3
    <3> QED
      BY <2>3, <3>1, Zenon DEF Under
  <2> QED
    BY <1>2, <2>1, <2>2, <2>3
<1>4. ASSUME Under(x, l) PROVE Under(x, m)
  <2>1. PICK i \in 1..Len(l) : Part(x, l[i])
    BY <1>4 DEF Under
  <2>2. PICK n : n = (i + 1) \div 2
    OBVIOUS
  <2>3. n \in 1..Len(m) /\ (i = 2 * n - 1 \/ (i = 2 * n /\ 2 * n <= Len(l)))
    BY <1>1, <2>2
  <2>4. Part(x, m[n])
    <3>1. CASE i = 2 * n - 1
      BY <1>2, <2>1, <2>3, <3>1, Zenon
    <3>2. CASE i = 2 * n /\ 2 * n <= Len(l)
      BY <1>2, <2>1, <2>3, <3>2, Zenon
    <3> QED
      BY <2>3, <3>1, <3>2
  <2> QED
    BY <2>3, <2>4, Zenon DEF Under
<1> QED
  BY <1>3, <1>4 DEF m

\* The parts of a root that are no nodes are those of the leaves.
LEMMA TreeParts ==
  ASSUME NEW h, IsList(h), h # <<>>, NEW x, ~ IsNode(x)
  PROVE  Part(x, BuildTree(h)) <=> Under(x, h)
<1> DEFINE N == Len(h)
           lv == Levels(h)
           T == {n \in Nat : n <= N => (Under(x, lv[n]) <=> Under(x, h))}
<1>1. N \in Nat /\ N >= 1
  <2>1. PICK S : h \in Seq(S)
    BY DEF IsList
  <2> QED
    BY <2>1
<1>2. \A n \in 0..N : /\ IsList(lv[n]) /\ Len(lv[n]) >= 1
                      /\ Len(lv[n]) = 1 \/ Len(lv[n]) <= N - n
                      /\ n > 0 => lv[n] = Climb(lv[n - 1])
                      /\ n = 0 => lv[n] = h
  BY <1>1, LevelFacts
<1> HIDE DEF lv
<1>3. 0 \in T
  <2>1. 0 \in 0..N
    BY <1>1
  <2> QED
    BY <1>2, <2>1
<1>4. ASSUME NEW n \in Nat, n \in T PROVE n + 1 \in T
  <2>1. SUFFICES ASSUME n + 1 <= N PROVE Under(x, lv[n + 1]) <=> Under(x, h)
    OBVIOUS
  <2>2. n + 1 \in 0..N /\ n \in 0..N /\ n + 1 > 0 /\ (n + 1) - 1 = n /\ n <= N
    BY <1>1, <2>1
  <2>3. Under(x, lv[n]) <=> Under(x, h)
    BY <1>4, <2>2
  <2>4. lv[n + 1] = Climb(lv[n]) /\ IsList(lv[n]) /\ Len(lv[n]) >= 1
    BY <1>2, <2>2
  <2>5. CASE Len(lv[n]) = 1
    BY <2>3, <2>4, <2>5, Zenon DEF Climb
  <2>6. CASE Len(lv[n]) # 1
    <3>1. lv[n + 1] = PairUp(lv[n])
      BY <2>4, <2>6, SameLevel DEF Climb
    <3>2. Under(x, PairUp(lv[n])) <=> Under(x, lv[n])
      BY <2>4, PairsKeepParts
    <3> QED
      BY <2>3, <3>1, <3>2
  <2> QED
    BY <2>5, <2>6
<1> HIDE DEF T
<1>5. Nat \subseteq T
  BY <1>3, <1>4, SetInduction
<1>6. Under(x, lv[N]) <=> Under(x, h)
  BY <1>1, <1>5 DEF T
<1>7. Len(lv[N]) = 1
  <2>1. N \in 0..N
    BY <1>1
  <2>2. Len(lv[N]) >= 1 /\ (Len(lv[N]) = 1 \/ Len(lv[N]) <= N - N) /\ IsList(lv[N])
    BY <1>2, <2>1
  <2>3. Len(lv[N]) \in Nat
    BY <2>2, ListDomain
  <2> QED
    BY <1>1, <2>2, <2>3
<1>8. Under(x, lv[N]) <=> Part(x, lv[N][1])
  <2>1. 1..Len(lv[N]) = {1}
    BY <1>7
  <2> QED
    BY <2>1, Zenon DEF Under
<1>9. BuildTree(h) = lv[N][1]
  <2>1. MerkleRoot(h) = lv[N][1]
    BY Zenon DEF MerkleRoot, lv
  <2> QED
    BY <2>1, TreesAgree
<1> QED
  BY <1>6, <1>8, <1>9

----------------------------------------------------------------------------
(* The order of the keys                                                   *)

\* A list of the members of a set, in order.
Sorted(q, R, U) ==
  /\ q \in [1..Cardinality(U) -> U] /\ Range(q) = U
  /\ \A i, j \in DOMAIN q : i < j => <<q[i], q[j]>> \in R

\* A finite set can be put in order.
LEMMA SortedExists ==
  ASSUME NEW S, IsFiniteSet(S), NEW R, Orders(R, S)
  PROVE  \E q : Sorted(q, R, S)
<1> DEFINE T == {n \in Nat : \A U \in SUBSET S : Cardinality(U) = n => \E q : Sorted(q, R, U)}
<1>1. \A U \in SUBSET S : IsFiniteSet(U) /\ Cardinality(U) \in Nat
  BY FS_Subset, FS_CardinalityType
<1>2. 0 \in T
  <2>1. SUFFICES ASSUME NEW U \in SUBSET S, Cardinality(U) = 0 PROVE \E q : Sorted(q, R, U)
    OBVIOUS
  <2>2. U = {}
    BY <1>1, <2>1, FS_EmptySet
  <2> DEFINE q == [i \in 1..0 |-> i]
  <2>3. q \in [1..0 -> {}] /\ Range(q) = {} /\ DOMAIN q = {}
    BY DEF Range
  <2>4. Sorted(q, R, U)
    BY <2>1, <2>2, <2>3 DEF Sorted
  <2> QED
    BY <2>4
<1>3. ASSUME NEW n \in Nat, n \in T PROVE n + 1 \in T
  <2>1. SUFFICES ASSUME NEW U \in SUBSET S, Cardinality(U) = n + 1
                 PROVE  \E q : Sorted(q, R, U)
    OBVIOUS
  <2>2. U # {}
    BY <2>1, FS_EmptySet
  <2>3. PICK m \in U : Tops(m, R, U)
    BY <2>2, TopExists
  <2> DEFINE V == U \ {m}
  <2>4. Cardinality(V) = n /\ V \in SUBSET S
    <3>1. IsFiniteSet(U) /\ m \in U
      BY <1>1, <2>3
    <3>2. Cardinality(U \ {m}) = Cardinality(U) - 1
      BY <3>1, FS_RemoveElement, Zenon
    <3> QED
      BY <2>1, <3>2
  <2>5. U = V \cup {m}
    OBVIOUS
  <2>6. \A x \in V : <<x, m>> \in R
    BY <2>3 DEF Tops
  <2> HIDE DEF V
  <2>7. PICK p : Sorted(p, R, V)
    BY <1>3, <2>4
  <2>8. p \in [1..n -> V] /\ Range(p) = V /\ \A i, j \in 1..n : i < j => <<p[i], p[j]>> \in R
    <3>1. p \in [1..n -> V] /\ Range(p) = V
      BY <2>4, <2>7 DEF Sorted
    <3>2. DOMAIN p = 1..n
      BY <3>1
    <3> QED
      BY <2>7, <3>1, <3>2 DEF Sorted
  <2> DEFINE q == [i \in 1..(n + 1) |-> IF i = n + 1 THEN m ELSE p[i]]
  <2>9. \A i \in 1..n : i \in 1..(n + 1) /\ i # n + 1
    OBVIOUS
  <2>10. DOMAIN q = 1..(n + 1) /\ q[n + 1] = m /\ \A i \in 1..n : q[i] = p[i]
    BY <2>9
  <2>11. q \in [1..(n + 1) -> U]
    <3>1. \A i \in 1..(n + 1) : i # n + 1 => i \in 1..n
      OBVIOUS
    <3> QED
      BY <2>5, <2>8, <3>1
  <2> HIDE DEF q
  <2>12. Range(q) = U
    <3>1. ASSUME NEW u \in U PROVE \E i \in DOMAIN q : q[i] = u
      <4>1. CASE u = m
        <5>1. n + 1 \in DOMAIN q
          BY <2>10
        <5> QED
          BY <2>10, <4>1, <5>1
      <4>2. CASE u # m
        <5>1. u \in Range(p)
          BY <2>5, <2>8, <4>2
        <5>2. PICK i \in 1..n : p[i] = u
          BY <2>8, <5>1 DEF Range
        <5>3. i \in DOMAIN q /\ q[i] = u
          BY <2>9, <2>10, <5>2
        <5> QED
          BY <5>3
      <4> QED
        BY <4>1, <4>2
    <3> QED
      BY <2>11, <3>1 DEF Range
  <2>13. ASSUME NEW i \in DOMAIN q, NEW j \in DOMAIN q, i < j PROVE <<q[i], q[j]>> \in R
    <3>1. i \in 1..n /\ j \in 1..(n + 1)
      BY <2>10, <2>13
    <3>2. CASE j = n + 1
      <4>1. q[i] = p[i] /\ q[j] = m /\ p[i] \in V
        BY <2>8, <2>10, <3>1, <3>2
      <4> QED
        BY <2>6, <4>1
    <3>3. CASE j # n + 1
      <4>1. j \in 1..n
        BY <3>1, <3>3
      <4>2. q[i] = p[i] /\ q[j] = p[j] /\ <<p[i], p[j]>> \in R
        BY <2>8, <2>10, <2>13, <3>1, <4>1
      <4> QED
        BY <4>2
    <3> QED
      BY <3>2, <3>3
  <2>14. Sorted(q, R, U)
    BY <2>1, <2>11, <2>12, <2>13 DEF Sorted
  <2> QED
    BY <2>14
<1> HIDE DEF T
<1>4. Nat \subseteq T
  BY <1>2, <1>3, SetInduction
<1> QED
  BY <1>1, <1>4 DEF T

\* Where two strings part: after d bytes that are the same.
Parts(j, k, d) ==
  /\ d <= Len(j) /\ d < Len(k) /\ \A i \in 1..d : j[i] = k[i]
  /\ d = Len(j) \/ (d < Len(j) /\ j[d + 1] < k[d + 1])

\* The lexicographic order by the first byte that differs.
LEMMA BeforeParts ==
  ASSUME NEW j \in Seq(Nat), NEW k \in Seq(Nat)
  PROVE  Before(j, k) <=> \E d \in Nat : Parts(j, k, d)
<1>1. Len(j) \in Nat /\ Len(k) \in Nat
  OBVIOUS
<1>2. ASSUME NEW d \in Nat, d <= Len(j), d <= Len(k)
      PROVE  SubSeq(j, 1, d) = SubSeq(k, 1, d) <=> \A i \in 1..d : j[i] = k[i]
  <2>1. /\ SubSeq(j, 1, d) \in Seq(Nat) /\ Len(SubSeq(j, 1, d)) = d
        /\ \A i \in 1..d : SubSeq(j, 1, d)[i] = j[i]
    BY <1>1, <1>2
  <2>2. /\ SubSeq(k, 1, d) \in Seq(Nat) /\ Len(SubSeq(k, 1, d)) = d
        /\ \A i \in 1..d : SubSeq(k, 1, d)[i] = k[i]
    BY <1>1, <1>2
  <2>3. PICK a : a = SubSeq(j, 1, d)
    OBVIOUS
  <2>4. PICK b : b = SubSeq(k, 1, d)
    OBVIOUS
  <2>5. /\ a \in Seq(Nat) /\ Len(a) = d /\ \A i \in 1..d : a[i] = j[i]
        /\ b \in Seq(Nat) /\ Len(b) = d /\ \A i \in 1..d : b[i] = k[i]
    BY <2>1, <2>2, <2>3, <2>4
  <2>6. a = b <=> \A i \in 1..d : a[i] = b[i]
    <3>1. a = [i \in 1..d |-> a[i]] /\ b = [i \in 1..d |-> b[i]]
      BY <2>5
    <3> QED
      BY <3>1, Zenon
  <2> QED
    BY <2>3, <2>4, <2>5, <2>6, Zenon
<1>3. ASSUME NEW d \in Nat, Parts(j, k, d) PROVE Before(j, k)
  <2>1. CASE d = Len(j)
    <3>1. SubSeq(k, 1, Len(j)) = SubSeq(j, 1, Len(j)) /\ Len(j) < Len(k)
      BY <1>1, <1>2, <1>3, <2>1 DEF Parts
    <3>2. SubSeq(j, 1, Len(j)) = j
      OBVIOUS
    <3> QED
      BY <3>1, <3>2 DEF Before
  <2>2. CASE d # Len(j)
    <3>1. d < Len(j) /\ d < Len(k) /\ j[d + 1] < k[d + 1] /\ \A i \in 1..d : j[i] = k[i]
      BY <1>3, <2>2 DEF Parts
    <3>2. SubSeq(j, 1, d) = SubSeq(k, 1, d)
      BY <1>1, <1>2, <3>1
    <3>3. d + 1 \in 1..Len(k) /\ (d + 1) - 1 = d /\ Len(j) >= d + 1
      BY <1>1, <3>1
    <3>4. /\ SubSeq(j, 1, (d + 1) - 1) = SubSeq(k, 1, (d + 1) - 1)
          /\ Len(j) >= d + 1 /\ j[d + 1] < k[d + 1]
      BY <3>1, <3>2, <3>3
    <3> QED
      BY <3>3, <3>4, Zenon DEF Before
  <2> QED
    BY <2>1, <2>2
<1>4. ASSUME Before(j, k) PROVE \E d \in Nat : Parts(j, k, d)
  <2>1. CASE \E i \in 1..Len(k) : /\ SubSeq(j, 1, i - 1) = SubSeq(k, 1, i - 1)
                                  /\ Len(j) >= i /\ j[i] < k[i]
    <3>1. PICK i \in 1..Len(k) : /\ SubSeq(j, 1, i - 1) = SubSeq(k, 1, i - 1)
                                 /\ Len(j) >= i /\ j[i] < k[i]
      BY <2>1
    <3>2. PICK d \in Nat : i = d + 1 /\ i - 1 = d /\ d < Len(k) /\ d < Len(j)
                           /\ d <= Len(j) /\ d <= Len(k)
      <4>1. i - 1 \in Nat /\ i = (i - 1) + 1 /\ i - 1 < Len(k) /\ i - 1 < Len(j)
            /\ i - 1 <= Len(j) /\ i - 1 <= Len(k)
        BY <1>1, <3>1
      <4> QED
        BY <4>1
    <3>3. SubSeq(j, 1, d) = SubSeq(k, 1, d)
      BY <3>1, <3>2, Zenon
    <3>4. \A x \in 1..d : j[x] = k[x]
      BY <1>2, <3>2, <3>3
    <3>5. j[d + 1] < k[d + 1]
      BY <3>1, <3>2, Zenon
    <3> QED
      BY <3>2, <3>4, <3>5 DEF Parts
  <2>2. CASE Len(j) < Len(k) /\ SubSeq(k, 1, Len(j)) = j
    <3>1. SubSeq(j, 1, Len(j)) = j
      OBVIOUS
    <3>2. \A i \in 1..Len(j) : j[i] = k[i]
      BY <1>1, <1>2, <2>2, <3>1
    <3>3. Len(j) <= Len(j) /\ Len(j) < Len(k)
      BY <1>1, <2>2
    <3>4. Parts(j, k, Len(j))
      BY <3>2, <3>3, Zenon DEF Parts
    <3> QED
      BY <1>1, <3>4, Zenon
  <2> QED
    BY <1>4, <2>1, <2>2, Zenon DEF Before
<1> QED
  BY <1>3, <1>4

\* It is an order of the strings of bytes.
LEMMA BeforeOrders ==
  ASSUME NEW S, S \subseteq Seq(Nat)
  PROVE  Orders({p \in S \X S : Before(p[1], p[2])}, S)
<1>1. ASSUME NEW x \in S, NEW y \in S, NEW z \in S, Before(x, y), Before(y, z)
      PROVE  Before(x, z)
  <2>1. x \in Seq(Nat) /\ y \in Seq(Nat) /\ z \in Seq(Nat)
    OBVIOUS
  <2>2. PICK a \in Nat : Parts(x, y, a)
    BY <1>1, <2>1, BeforeParts
  <2>3. PICK b \in Nat : Parts(y, z, b)
    BY <1>1, <2>1, BeforeParts
  <2>4. /\ Len(x) \in Nat /\ Len(y) \in Nat /\ Len(z) \in Nat
        /\ \A i \in 1..Len(x) : x[i] \in Nat
        /\ \A i \in 1..Len(y) : y[i] \in Nat
        /\ \A i \in 1..Len(z) : z[i] \in Nat
    BY <2>1
  <2>5. CASE a <= b
    <3>1. a <= Len(x) /\ a < Len(z) /\ a < Len(y)
      BY <2>2, <2>3, <2>4, <2>5 DEF Parts
    <3>2. \A i \in 1..a : x[i] = z[i]
      <4>1. TAKE i \in 1..a
      <4>2. i \in 1..b
        BY <2>5
      <4> QED
        BY <2>2, <2>3, <4>2 DEF Parts
    <3>3. CASE a = Len(x)
      <4>1. Parts(x, z, a)
        BY <3>1, <3>2, <3>3 DEF Parts
      <4> QED
        BY <2>1, <4>1, BeforeParts
    <3>4. CASE a # Len(x)
      <4>1. a < Len(x) /\ x[a + 1] < y[a + 1]
        BY <2>2, <3>4 DEF Parts
      <4>2. a + 1 \in 1..Len(x) /\ a + 1 \in 1..Len(y) /\ a + 1 \in 1..Len(z)
        BY <2>4, <3>1, <4>1
      <4>3. y[a + 1] <= z[a + 1]
        <5>1. CASE a = b
          <6>1. y[a + 1] < z[a + 1]
            BY <2>3, <3>1, <5>1 DEF Parts
          <6> QED
            BY <2>4, <4>2, <6>1
        <5>2. CASE a # b
          <6>1. a + 1 \in 1..b
            BY <2>5, <5>2
          <6>2. y[a + 1] = z[a + 1]
            BY <2>3, <6>1 DEF Parts
          <6> QED
            BY <2>4, <4>2, <6>2
        <5> QED
          BY <5>1, <5>2
      <4>4. x[a + 1] < z[a + 1]
        <5>1. x[a + 1] \in Nat /\ y[a + 1] \in Nat /\ z[a + 1] \in Nat
          BY <2>4, <4>2
        <5> QED
          BY <4>1, <4>3, <5>1
      <4>5. Parts(x, z, a)
        BY <3>1, <3>2, <4>1, <4>4 DEF Parts
      <4> QED
        BY <2>1, <4>5, BeforeParts
    <3> QED
      BY <3>3, <3>4
  <2>6. CASE ~ (a <= b)
    <3>1. b < a /\ b <= Len(x) /\ b < Len(z) /\ b < Len(y) /\ b < Len(x)
      <4>1. a <= Len(x) /\ a < Len(y) /\ b < Len(z)
        BY <2>2, <2>3, Zenon DEF Parts
      <4> QED
        BY <2>4, <2>6, <4>1
    <3>2. \A i \in 1..b : x[i] = z[i]
      <4>1. TAKE i \in 1..b
      <4>2. i \in 1..a
        BY <3>1
      <4> QED
        BY <2>2, <2>3, <4>2 DEF Parts
    <3>3. b + 1 \in 1..a
      BY <3>1
    <3>4. x[b + 1] = y[b + 1] /\ y[b + 1] < z[b + 1]
      BY <2>2, <2>3, <3>1, <3>3 DEF Parts
    <3>5. Parts(x, z, b)
      BY <3>1, <3>2, <3>4 DEF Parts
    <3> QED
      BY <2>1, <3>5, BeforeParts
  <2> QED
    BY <2>5, <2>6
<1>2. ASSUME NEW x \in S, NEW y \in S, x # y PROVE Before(x, y) \/ Before(y, x)
  <2>1. x \in Seq(Nat) /\ y \in Seq(Nat)
    OBVIOUS
  <2>2. /\ Len(x) \in Nat /\ Len(y) \in Nat
        /\ \A i \in 1..Len(x) : x[i] \in Nat
        /\ \A i \in 1..Len(y) : y[i] \in Nat
        /\ x = [i \in 1..Len(x) |-> x[i]] /\ y = [i \in 1..Len(y) |-> y[i]]
    BY <2>1
  <2> DEFINE D == {d \in Nat : d = Len(x) \/ d = Len(y) \/ x[d + 1] # y[d + 1]}
  <2>3. D # {} /\ D \subseteq Nat
    BY <2>2
  <2>4. PICK d \in D : \A n \in D : d <= n
    <3> HIDE DEF D
    <3> QED
      BY <2>3, LeastNat
  <2>5. d \in Nat /\ d <= Len(x) /\ d <= Len(y)
    BY <2>2, <2>4
  <2>11. (d < Len(x) \/ d = Len(x)) /\ (d < Len(y) \/ d = Len(y))
    <3>1. Len(x) \in Nat /\ Len(y) \in Nat
      BY <2>2
    <3> HIDE DEF D
    <3> QED
      BY <2>5, <3>1
  <2>6. \A i \in 1..d : x[i] = y[i]
    <3>1. TAKE i \in 1..d
    <3>2. PICK n \in Nat : i = n + 1 /\ n < d
      <4>1. i - 1 \in Nat /\ i = (i - 1) + 1 /\ i - 1 < d
        BY <2>5
      <4> QED
        BY <4>1
    <3>3. n \notin D
      <4> HIDE DEF D
      <4> QED
        BY <2>4, <2>5, <3>2
    <3> QED
      BY <3>2, <3>3
  <2>7. CASE d = Len(x) /\ d = Len(y)
    BY <1>2, <2>2, <2>6, <2>7, Zenon
  <2>8. CASE d = Len(x) /\ d # Len(y)
    <3>1. d < Len(y)
      BY <2>8, <2>11
    <3>2. Parts(x, y, d)
      BY <2>5, <2>6, <2>8, <3>1 DEF Parts
    <3> QED
      BY <2>1, <2>5, <3>2, BeforeParts
  <2>9. CASE d # Len(x) /\ d = Len(y)
    <3>1. d < Len(x)
      BY <2>9, <2>11
    <3>2. Parts(y, x, d)
      BY <2>5, <2>6, <2>9, <3>1 DEF Parts
    <3> QED
      BY <2>1, <2>5, <3>2, BeforeParts
  <2>10. CASE d # Len(x) /\ d # Len(y)
    <3>1. d < Len(x) /\ d < Len(y) /\ x[d + 1] # y[d + 1]
          /\ d + 1 \in 1..Len(x) /\ d + 1 \in 1..Len(y)
      BY <2>2, <2>4, <2>5, <2>10
    <3>2. x[d + 1] < y[d + 1] \/ y[d + 1] < x[d + 1]
      BY <2>2, <3>1
    <3>3. Parts(x, y, d) \/ Parts(y, x, d)
      BY <2>5, <2>6, <3>1, <3>2 DEF Parts
    <3> QED
      BY <2>1, <2>5, <3>3, BeforeParts
  <2> QED
    BY <2>7, <2>8, <2>9, <2>10
<1> DEFINE R == {p \in S \X S : Before(p[1], p[2])}
<1>3. \A x, y \in S : <<x, y>> \in R <=> Before(x, y)
  OBVIOUS
<1> HIDE DEF R
<1>4. Orders(R, S)
  BY <1>1, <1>2, <1>3, Zenon DEF Orders
<1> QED
  BY <1>4 DEF R

----------------------------------------------------------------------------
(* The state root                                                          *)

\* An entry is no node and is not the root of nothing, which is no node.
LEMMA LeafFacts ==
  ASSUME NEW c, NEW k, NEW v
  PROVE  /\ ~ IsNode(EntryHash(c, k, v)) /\ ~ IsNode(ZeroHash)
         /\ EntryHash(c, k, v) # ZeroHash
<1>1. ASSUME NEW a, NEW b PROVE EntryHash(c, k, v) # Combine(a, b) /\ ZeroHash # Combine(a, b)
  <2>1. "leaf" # "node" /\ "zero" # "node"
    OBVIOUS
  <2>2. EntryHash(c, k, v)[1] = "leaf" /\ Combine(a, b)[1] = "node" /\ ZeroHash[1] = "zero"
    BY DEF EntryHash, Combine, ZeroHash
  <2> QED
    BY <2>1, <2>2, Zenon
<1>2. EntryHash(c, k, v) # ZeroHash
  <2>1. EntryHash(c, k, v)[1] = "leaf" /\ ZeroHash[1] = "zero" /\ "leaf" # "zero"
    BY DEF EntryHash, ZeroHash
  <2> QED
    BY <2>1, Zenon
<1> QED
  BY <1>1, <1>2, Zenon DEF IsNode

\* The namespace of a contract: never without an entry.
IsMap(m) == DOMAIN m \in SUBSET Keys /\ m \in [DOMAIN m -> Values] /\ DOMAIN m # {}

IsStore(s) ==
  /\ DOMAIN s \in SUBSET ContractIds /\ s = [c \in DOMAIN s |-> s[c]]
  /\ \A c \in DOMAIN s : IsMap(s[c])

\* The contents are the stores without an empty namespace.
LEMMA ContentsAreStores ==
  ASSUME NEW s
  PROVE  s \in Contents <=> IsStore(s)
<1> DEFINE maps == (UNION {[ks -> Values] : ks \in SUBSET Keys}) \ {NoEntries}
<1>1. ASSUME NEW m PROVE m \in maps <=> IsMap(m)
  <2>1. ASSUME m \in maps PROVE IsMap(m)
    <3>1. PICK ks \in SUBSET Keys : m \in [ks -> Values]
      BY <2>1
    <3>2. DOMAIN m = ks /\ m = [k \in ks |-> m[k]]
      BY <3>1
    <3>3. ks # {}
      <4>1. SUFFICES ASSUME ks = {} PROVE FALSE
        OBVIOUS
      <4>2. m = NoEntries
        BY <3>2, <4>1 DEF NoEntries
      <4> QED
        BY <2>1, <4>2
    <3> QED
      BY <3>1, <3>2, <3>3 DEF IsMap
  <2>2. ASSUME IsMap(m) PROVE m \in maps
    <3>1. m \in UNION {[ks -> Values] : ks \in SUBSET Keys}
      BY <2>2 DEF IsMap
    <3>2. m # NoEntries
      <4>1. DOMAIN NoEntries = {}
        BY DEF NoEntries
      <4> QED
        BY <2>2, <4>1, Zenon DEF IsMap
    <3> QED
      BY <3>1, <3>2
  <2> QED
    BY <2>1, <2>2
<1>2. Contents = UNION {[cs -> maps] : cs \in SUBSET ContractIds}
  BY DEF Contents
<1> HIDE DEF maps
<1>3. ASSUME s \in Contents PROVE IsStore(s)
  <2>1. PICK cs \in SUBSET ContractIds : s \in [cs -> maps]
    BY <1>2, <1>3
  <2>2. DOMAIN s = cs /\ s = [c \in cs |-> s[c]] /\ \A c \in cs : s[c] \in maps
    BY <2>1
  <2> QED
    BY <1>1, <2>2 DEF IsStore
<1>4. ASSUME IsStore(s) PROVE s \in Contents
  <2>1. \A c \in DOMAIN s : s[c] \in maps
    BY <1>1, <1>4 DEF IsStore
  <2>2. s \in [DOMAIN s -> maps]
    BY <1>4, <2>1 DEF IsStore
  <2> QED
    BY <1>2, <1>4, <2>2 DEF IsStore
<1> QED
  BY <1>3, <1>4

\* A list that goes through a set.
Lists(q, D) == IsList(q) /\ Len(q) = Cardinality(D) /\ Range(q) = D

LEMMA SortedLists ==
  ASSUME NEW D, IsFiniteSet(D), NEW R, NEW q, Sorted(q, R, D)
  PROVE  Lists(q, D)
<1>1. Cardinality(D) \in Nat
  BY FS_CardinalityType
<1>2. q \in [1..Cardinality(D) -> D] /\ Range(q) = D
  BY Zenon DEF Sorted
<1>3. q = [i \in 1..Cardinality(D) |-> q[i]]
  BY <1>2
<1> QED
  BY <1>1, <1>2, <1>3, ListFacts DEF Lists

\* The keys of a namespace have an order, and so have the contracts.
LEMMA KeysListed ==
  ASSUME NEW m, IsMap(m)
  PROVE  Lists(KeysInOrder(m), DOMAIN m)
<1> DEFINE D == DOMAIN m
           R == {p \in D \X D : Before(p[1], p[2])}
<1>1. IsFiniteSet(D) /\ D \subseteq Seq(Nat)
  <2>1. D \subseteq Keys
    BY DEF IsMap
  <2> QED
    BY <2>1, FS_Subset, StateAssumption
<1>2. \A x, y \in D : <<x, y>> \in R <=> Before(x, y)
  OBVIOUS
<1>3. Orders(R, D)
  BY <1>1, BeforeOrders
<1>4. PICK q : Sorted(q, R, D)
  <2> HIDE DEF R, D
  <2> QED
    BY <1>1, <1>3, SortedExists
<1> HIDE DEF R
<1> DEFINE Good(p) == Range(p) = D /\ \A i, j \in DOMAIN p : i < j => Before(p[i], p[j])
<1>5. \A p \in [1..Cardinality(D) -> D] : Good(p) <=> Sorted(p, R, D)
  <2>1. TAKE p \in [1..Cardinality(D) -> D]
  <2>2. \A i \in DOMAIN p : p[i] \in D
    OBVIOUS
  <2> QED
    BY <1>2, <2>2, Zenon DEF Sorted
<1>6. KeysInOrder(m) = CHOOSE p \in [1..Cardinality(D) -> D] : Good(p)
  BY Zenon DEF KeysInOrder
<1>7. q \in [1..Cardinality(D) -> D]
  BY <1>4, Zenon DEF Sorted
<1> HIDE DEF D, Good
<1>8. KeysInOrder(m) \in [1..Cardinality(D) -> D] /\ Good(KeysInOrder(m))
  BY <1>4, <1>5, <1>6, <1>7, Zenon
<1>9. Sorted(KeysInOrder(m), R, D)
  BY <1>5, <1>8, Zenon
<1> QED
  BY <1>1, <1>9, SortedLists, Zenon DEF D

LEMMA IdsListed ==
  ASSUME NEW s, IsStore(s)
  PROVE  Lists(IdsInOrder(s), DOMAIN s)
<1> DEFINE D == DOMAIN s
           R == {p \in D \X D : p[1] < p[2]}
<1>1. IsFiniteSet(D) /\ D \subseteq Nat
  <2>1. D \subseteq ContractIds
    BY DEF IsStore
  <2> QED
    BY <2>1, FS_Subset, StateAssumption
<1>2. \A x, y \in D : <<x, y>> \in R <=> x < y
  OBVIOUS
<1>3. Orders(R, D)
  <2> HIDE DEF R, D
  <2>1. \A x, y, z \in D : x < y /\ y < z => x < z
    BY <1>1
  <2>2. \A x, y \in D : x # y => x < y \/ y < x
    BY <1>1
  <2> QED
    BY <1>2, <2>1, <2>2, Zenon DEF Orders
<1>4. PICK q : Sorted(q, R, D)
  <2> HIDE DEF R, D
  <2> QED
    BY <1>1, <1>3, SortedExists
<1> HIDE DEF R
<1> DEFINE Good(p) == Range(p) = D /\ \A i, j \in DOMAIN p : i < j => p[i] < p[j]
<1>5. \A p \in [1..Cardinality(D) -> D] : Good(p) <=> Sorted(p, R, D)
  <2>1. TAKE p \in [1..Cardinality(D) -> D]
  <2>2. \A i \in DOMAIN p : p[i] \in D
    OBVIOUS
  <2> QED
    BY <1>2, <2>2, Zenon DEF Sorted
<1>6. IdsInOrder(s) = CHOOSE p \in [1..Cardinality(D) -> D] : Good(p)
  BY Zenon DEF IdsInOrder
<1>7. q \in [1..Cardinality(D) -> D]
  BY <1>4, Zenon DEF Sorted
<1> HIDE DEF D, Good
<1>8. IdsInOrder(s) \in [1..Cardinality(D) -> D] /\ Good(IdsInOrder(s))
  BY <1>4, <1>5, <1>6, <1>7, Zenon
<1>9. Sorted(IdsInOrder(s), R, D)
  BY <1>5, <1>8, Zenon
<1> QED
  BY <1>1, <1>9, SortedLists, Zenon DEF D

\* The root of a contract is made of its entries.
LEMMA ContractParts ==
  ASSUME NEW c, NEW m, IsMap(m), NEW x, ~ IsNode(x)
  PROVE  Part(x, ContractRoot(c, m)) <=> \E k \in DOMAIN m : x = EntryHash(c, k, m[k])
<1> DEFINE q == KeysInOrder(m)
           h == [i \in DOMAIN q |-> EntryHash(c, q[i], m[q[i]])]
<1>1. Lists(q, DOMAIN m)
  BY KeysListed
<1>2. ContractRoot(c, m) = BuildTree(h)
  BY Zenon DEF ContractRoot
<1> HIDE DEF q
<1>3. Len(q) \in Nat /\ DOMAIN q = 1..Len(q) /\ Range(q) = DOMAIN m
  BY <1>1, ListDomain, Zenon DEF Lists
<1>4. h = [i \in 1..Len(q) |-> h[i]] /\ \A i \in 1..Len(q) : h[i] = EntryHash(c, q[i], m[q[i]])
  BY <1>3
<1>5. \A k : k \in DOMAIN m <=> \E i \in 1..Len(q) : q[i] = k
  BY <1>3, Zenon DEF Range
<1> HIDE DEF h
<1>6. IsList(h) /\ Len(h) = Len(q)
  BY <1>3, <1>4, ListFacts
<1>7. h # <<>>
  <2>1. PICK k \in DOMAIN m : TRUE
    BY DEF IsMap
  <2>2. PICK i \in 1..Len(q) : q[i] = k
    BY <1>5, <2>1
  <2>3. Len(h) # 0
    BY <1>3, <1>6, <2>2
  <2>4. Len(<<>>) = 0
    OBVIOUS
  <2> QED
    BY <2>3, <2>4
<1>8. Part(x, BuildTree(h)) <=> Under(x, h)
  BY <1>6, <1>7, TreeParts
<1>9. ASSUME NEW i \in 1..Len(q) PROVE Part(x, h[i]) <=> x = h[i]
  <2>1. ~ IsNode(EntryHash(c, q[i], m[q[i]])) /\ h[i] = EntryHash(c, q[i], m[q[i]])
    BY <1>4, LeafFacts
  <2> QED
    BY <2>1, PartOfLeaf, Zenon
<1>10. Under(x, h) <=> \E i \in 1..Len(q) : x = EntryHash(c, q[i], m[q[i]])
  BY <1>4, <1>6, <1>9, Zenon DEF Under
<1>11. (\E i \in 1..Len(q) : x = EntryHash(c, q[i], m[q[i]]))
         <=> \E k \in DOMAIN m : x = EntryHash(c, k, m[k])
  BY <1>5, Zenon
<1> QED
  BY <1>2, <1>8, <1>10, <1>11, Zenon

\* The root of a store that is not empty is made of the entries of all
\* contracts.
LEMMA RootParts ==
  ASSUME NEW s, IsStore(s), DOMAIN s # {}, NEW x, ~ IsNode(x)
  PROVE  Part(x, StateRoot(s))
           <=> \E c \in DOMAIN s : \E k \in DOMAIN s[c] : x = EntryHash(c, k, s[c][k])
<1> DEFINE q == IdsInOrder(s)
           h == [i \in DOMAIN q |-> ContractRoot(q[i], s[q[i]])]
<1>1. Lists(q, DOMAIN s)
  BY IdsListed
<1>2. StateRoot(s) = BuildTree(h)
  BY Zenon DEF StateRoot
<1> HIDE DEF q
<1>3. Len(q) \in Nat /\ DOMAIN q = 1..Len(q) /\ Range(q) = DOMAIN s
  BY <1>1, ListDomain, Zenon DEF Lists
<1>4. h = [i \in 1..Len(q) |-> h[i]] /\ \A i \in 1..Len(q) : h[i] = ContractRoot(q[i], s[q[i]])
  BY <1>3
<1>5. \A c : c \in DOMAIN s <=> \E i \in 1..Len(q) : q[i] = c
  BY <1>3, Zenon DEF Range
<1> HIDE DEF h
<1>6. IsList(h) /\ Len(h) = Len(q)
  BY <1>3, <1>4, ListFacts
<1>7. h # <<>>
  <2>1. PICK c \in DOMAIN s : TRUE
    OBVIOUS
  <2>2. PICK i \in 1..Len(q) : q[i] = c
    BY <1>5, <2>1
  <2>3. Len(h) # 0
    BY <1>3, <1>6, <2>2
  <2>4. Len(<<>>) = 0
    OBVIOUS
  <2> QED
    BY <2>3, <2>4
<1>8. Part(x, BuildTree(h)) <=> Under(x, h)
  BY <1>6, <1>7, TreeParts
<1> DEFINE Has(c) == \E k \in DOMAIN s[c] : x = EntryHash(c, k, s[c][k])
<1>9. ASSUME NEW i \in 1..Len(q) PROVE Part(x, h[i]) <=> Has(q[i])
  <2>1. IsMap(s[q[i]])
    BY <1>5, Zenon DEF IsStore
  <2>2. Part(x, ContractRoot(q[i], s[q[i]])) <=> Has(q[i])
    BY <2>1, ContractParts
  <2> QED
    BY <1>4, <2>2, Zenon
<1> HIDE DEF Has
<1>10. Under(x, h) <=> \E i \in 1..Len(q) : Has(q[i])
  BY <1>6, <1>9, Zenon DEF Under
<1>11. (\E i \in 1..Len(q) : Has(q[i])) <=> \E c \in DOMAIN s : Has(c)
  BY <1>5, Zenon
<1> QED
  BY <1>2, <1>8, <1>10, <1>11, Zenon DEF Has

\* The root of the empty store.
LEMMA EmptyRoot ==
  ASSUME NEW s, DOMAIN s = {}
  PROVE  StateRoot(s) = ZeroHash
<1> DEFINE q == IdsInOrder(s)
           h == [i \in DOMAIN q |-> ContractRoot(q[i], s[q[i]])]
<1>1. StateRoot(s) = BuildTree(h)
  BY Zenon DEF StateRoot
<1>2. DOMAIN q = {}
  <2> DEFINE Good(p) == Range(p) = DOMAIN s /\ \A i, j \in DOMAIN p : i < j => p[i] < p[j]
             none == [i \in 1..0 |-> i]
  <2>1. q = CHOOSE p \in [1..Cardinality(DOMAIN s) -> DOMAIN s] : Good(p)
    BY Zenon DEF IdsInOrder
  <2>2. Cardinality(DOMAIN s) = 0
    BY FS_EmptySet
  <2>3. none \in [1..0 -> {}] /\ DOMAIN none = {} /\ Range(none) = {}
    BY DEF Range
  <2>4. Good(none)
    BY <2>3
  <2> HIDE DEF q, Good, none
  <2>5. q \in [1..0 -> {}]
    BY <2>1, <2>2, <2>3, <2>4
  <2> QED
    BY <2>5
<1> HIDE DEF q
<1>3. h = <<>>
  BY <1>2
<1> QED
  BY <1>1, <1>3 DEF BuildTree

\* Two strings of bytes, one after the other.
Joined(s, t, u) ==
  /\ u \in Seq(Nat) /\ Len(u) = Len(s) + Len(t)
  /\ \A i \in 1..Len(s) : u[i] = s[i]
  /\ \A i \in 1..Len(t) : u[Len(s) + i] = t[i]

LEMMA JoinedFacts ==
  ASSUME NEW s \in Seq(Nat), NEW t \in Seq(Nat)
  PROVE  Joined(s, t, s \o t)
BY DEF Joined

\* An entry's hash is of one contract, key and value, if the keys have one
\* length.
LEMMA EntryBinds ==
  ASSUME NEW c \in Nat, NEW k \in Seq(Nat), NEW v \in Seq(Nat),
         NEW d \in Nat, NEW j \in Seq(Nat), NEW w \in Seq(Nat),
         Len(k) = Len(j), EntryHash(c, k, v) = EntryHash(d, j, w)
  PROVE  c = d /\ k = j /\ v = w
<1> DEFINE a == <<c>> \o k \o v
           b == <<d>> \o j \o w
<1>1. a = b
  BY DEF EntryHash
<1>2. Len(k) \in Nat /\ Len(v) \in Nat /\ Len(w) \in Nat
  OBVIOUS
<1>3. /\ Len(a) = 1 + Len(k) + Len(v) /\ a[1] = c
      /\ \A i \in 1..Len(k) : a[1 + i] = k[i]
      /\ \A i \in 1..Len(v) : a[1 + Len(k) + i] = v[i]
  <2> DEFINE h == <<c>> \o k
  <2>1. <<c>> \in Seq(Nat) /\ Len(<<c>>) = 1 /\ <<c>>[1] = c /\ 1 \in 1..1
    OBVIOUS
  <2>2. /\ h \in Seq(Nat) /\ Len(h) = 1 + Len(k) /\ h[1] = c
        /\ \A i \in 1..Len(k) : h[1 + i] = k[i]
    <3> DEFINE o == <<c>>
    <3>1. o \in Seq(Nat) /\ Len(o) = 1 /\ o[1] = c /\ 1 \in 1..1
      BY <2>1
    <3>2. h = o \o k
      OBVIOUS
    <3> HIDE DEF o, h
    <3>3. Joined(o, k, h)
      BY <3>1, <3>2, JoinedFacts, Zenon
    <3> QED
      BY <3>1, <3>3 DEF Joined
  <2>3. a = h \o v
    OBVIOUS
  <2> HIDE DEF h, a
  <2>9. Joined(h, v, a)
    BY <2>2, <2>3, JoinedFacts, Zenon
  <2>4. /\ Len(a) = Len(h) + Len(v)
        /\ \A i \in 1..Len(h) : a[i] = h[i]
        /\ \A i \in 1..Len(v) : a[Len(h) + i] = v[i]
    BY <2>9, Zenon DEF Joined
  <2>5. 1 \in 1..Len(h) /\ \A i \in 1..Len(k) : 1 + i \in 1..Len(h)
    BY <1>2, <2>2
  <2>6. \A i \in 1..Len(k) : a[1 + i] = k[i]
    BY <2>2, <2>4, <2>5, Zenon
  <2>7. \A i \in 1..Len(v) : a[1 + Len(k) + i] = v[i]
    BY <2>2, <2>4, Zenon
  <2>8. Len(a) = 1 + Len(k) + Len(v) /\ a[1] = c
    BY <2>2, <2>4, <2>5, Zenon
  <2> QED
    BY <2>6, <2>7, <2>8
<1>4. /\ Len(b) = 1 + Len(j) + Len(w) /\ b[1] = d
      /\ \A i \in 1..Len(j) : b[1 + i] = j[i]
      /\ \A i \in 1..Len(w) : b[1 + Len(j) + i] = w[i]
  <2> DEFINE h == <<d>> \o j
  <2>1. <<d>> \in Seq(Nat) /\ Len(<<d>>) = 1 /\ <<d>>[1] = d /\ 1 \in 1..1
    OBVIOUS
  <2>2. /\ h \in Seq(Nat) /\ Len(h) = 1 + Len(j) /\ h[1] = d
        /\ \A i \in 1..Len(j) : h[1 + i] = j[i]
    <3> DEFINE o == <<d>>
    <3>1. o \in Seq(Nat) /\ Len(o) = 1 /\ o[1] = d /\ 1 \in 1..1
      BY <2>1
    <3>2. h = o \o j
      OBVIOUS
    <3> HIDE DEF o, h
    <3>3. Joined(o, j, h)
      BY <3>1, <3>2, JoinedFacts, Zenon
    <3> QED
      BY <3>1, <3>3 DEF Joined
  <2>3. b = h \o w
    OBVIOUS
  <2> HIDE DEF h, b
  <2>9. Joined(h, w, b)
    BY <2>2, <2>3, JoinedFacts, Zenon
  <2>4. /\ Len(b) = Len(h) + Len(w)
        /\ \A i \in 1..Len(h) : b[i] = h[i]
        /\ \A i \in 1..Len(w) : b[Len(h) + i] = w[i]
    BY <2>9, Zenon DEF Joined
  <2>5. 1 \in 1..Len(h) /\ \A i \in 1..Len(j) : 1 + i \in 1..Len(h)
    BY <1>2, <2>2
  <2>6. \A i \in 1..Len(j) : b[1 + i] = j[i]
    BY <2>2, <2>4, <2>5, Zenon
  <2>7. \A i \in 1..Len(w) : b[1 + Len(j) + i] = w[i]
    BY <2>2, <2>4, Zenon
  <2>8. Len(b) = 1 + Len(j) + Len(w) /\ b[1] = d
    BY <2>2, <2>4, <2>5, Zenon
  <2> QED
    BY <2>6, <2>7, <2>8
<1> HIDE DEF a, b
<1>5. c = d /\ Len(v) = Len(w)
  BY <1>1, <1>2, <1>3, <1>4
<1>6. \A i \in 1..Len(k) : k[i] = j[i]
  BY <1>1, <1>3, <1>4
<1>7. \A i \in 1..Len(v) : v[i] = w[i]
  BY <1>1, <1>3, <1>4, <1>5
<1>8. k = [i \in 1..Len(k) |-> k[i]] /\ j = [i \in 1..Len(k) |-> j[i]]
  OBVIOUS
<1>9. v = [i \in 1..Len(v) |-> v[i]] /\ w = [i \in 1..Len(v) |-> w[i]]
  BY <1>5
<1>10. k = j
  BY <1>6, <1>8, Zenon
<1>11. v = w
  BY <1>7, <1>9, Zenon
<1> QED
  BY <1>5, <1>10, <1>11

\* All keys of a store have the length n.
KeysOfLength(s, n) == \A c \in DOMAIN s : \A k \in DOMAIN s[c] : Len(k) = n

\* Every entry of a store is one of any other store with its root.
LEMMA RootInside ==
  ASSUME NEW s, IsStore(s), NEW t, IsStore(t), NEW n,
         KeysOfLength(s, n), KeysOfLength(t, n), StateRoot(s) = StateRoot(t),
         NEW c \in DOMAIN s, NEW k \in DOMAIN s[c]
  PROVE  c \in DOMAIN t /\ k \in DOMAIN t[c] /\ t[c][k] = s[c][k]
<1> DEFINE x == EntryHash(c, k, s[c][k])
<1>1. ~ IsNode(x) /\ ~ IsNode(ZeroHash) /\ x # ZeroHash
  BY LeafFacts
<1>2. Part(x, StateRoot(s))
  <2>1. DOMAIN s # {}
    OBVIOUS
  <2>2. Part(x, StateRoot(s))
          <=> \E d \in DOMAIN s : \E j \in DOMAIN s[d] : x = EntryHash(d, j, s[d][j])
    BY <1>1, <2>1, RootParts
  <2> QED
    BY <2>2, Zenon
<1>3. DOMAIN t # {}
  <2>1. SUFFICES ASSUME DOMAIN t = {} PROVE FALSE
    OBVIOUS
  <2>2. Part(x, ZeroHash)
    BY <1>2, <2>1, EmptyRoot, Zenon
  <2> QED
    BY <1>1, <2>2, PartOfLeaf, Zenon
<1>4. Part(x, StateRoot(t))
        <=> \E d \in DOMAIN t : \E j \in DOMAIN t[d] : x = EntryHash(d, j, t[d][j])
  BY <1>1, <1>3, RootParts
<1>5. PICK d \in DOMAIN t : \E j \in DOMAIN t[d] : x = EntryHash(d, j, t[d][j])
  BY <1>2, <1>4, Zenon
<1>6. PICK j \in DOMAIN t[d] : x = EntryHash(d, j, t[d][j])
  BY <1>5
<1>7. c \in Nat /\ k \in Seq(Nat) /\ s[c][k] \in Seq(Nat)
  <2>1. IsMap(s[c]) /\ c \in ContractIds
    BY DEF IsStore
  <2>2. k \in Keys /\ s[c][k] \in Values
    BY <2>1 DEF IsMap
  <2> QED
    BY <2>1, <2>2, StateAssumption
<1>8. d \in Nat /\ j \in Seq(Nat) /\ t[d][j] \in Seq(Nat)
  <2>1. IsMap(t[d]) /\ d \in ContractIds
    BY DEF IsStore
  <2>2. j \in Keys /\ t[d][j] \in Values
    BY <2>1 DEF IsMap
  <2> QED
    BY <2>1, <2>2, StateAssumption
<1>9. Len(k) = Len(j)
  BY Zenon DEF KeysOfLength
<1>10. c = d /\ k = j /\ s[c][k] = t[d][j]
  BY <1>6, <1>7, <1>8, <1>9, EntryBinds
<1> QED
  BY <1>10

\* The state root commits to the whole storage: two stores whose keys have one
\* length and that have one root are the same store, the empty one included
\* ("A Merkle state root can be computed over the entire storage for consensus
\* commitment", state.rs:7).
THEOREM RootBinds ==
  ASSUME NEW s \in Contents, NEW t \in Contents, NEW n,
         KeysOfLength(s, n), KeysOfLength(t, n), StateRoot(s) = StateRoot(t)
  PROVE  s = t
<1>1. IsStore(s) /\ IsStore(t)
  BY ContentsAreStores
<1>2. \A c \in DOMAIN s : \A k \in DOMAIN s[c] :
        c \in DOMAIN t /\ k \in DOMAIN t[c] /\ t[c][k] = s[c][k]
  BY <1>1, RootInside
<1>3. \A c \in DOMAIN t : \A k \in DOMAIN t[c] :
        c \in DOMAIN s /\ k \in DOMAIN s[c] /\ s[c][k] = t[c][k]
  BY <1>1, RootInside
<1>4. \A c \in DOMAIN s : DOMAIN s[c] # {}
  BY <1>1, Zenon DEF IsStore, IsMap
<1>5. \A c \in DOMAIN t : DOMAIN t[c] # {}
  BY <1>1, Zenon DEF IsStore, IsMap
<1>6. DOMAIN s = DOMAIN t
  BY <1>2, <1>3, <1>4, <1>5
<1>7. ASSUME NEW c \in DOMAIN s PROVE s[c] = t[c]
  <2>1. IsMap(s[c]) /\ IsMap(t[c])
    BY <1>1, <1>6 DEF IsStore
  <2>2. s[c] = [k \in DOMAIN s[c] |-> s[c][k]] /\ t[c] = [k \in DOMAIN t[c] |-> t[c][k]]
    BY <2>1 DEF IsMap
  <2>3. DOMAIN s[c] = DOMAIN t[c] /\ \A k \in DOMAIN s[c] : s[c][k] = t[c][k]
    BY <1>2, <1>3, <1>6
  <2> QED
    BY <2>2, <2>3, Zenon
<1>8. s = [c \in DOMAIN s |-> s[c]] /\ t = [c \in DOMAIN t |-> t[c]]
  BY <1>1, Zenon DEF IsStore
<1> QED
  BY <1>6, <1>7, <1>8, Zenon

\* What the storage and the list of leaves look like: no namespace is empty,
\* and every transaction is in the list once.
StateMapIInv ==
  /\ IsStore(storage)
  /\ Len(txLeaves) \in Nat
  /\ txLeaves = [i \in 1..Len(txLeaves) |-> <<"tx", i - 1>>]

LEMMA StateMapInitial == StateMapInit => StateMapIInv
<1>1. SUFFICES ASSUME StateMapInit PROVE StateMapIInv
  OBVIOUS
<1>2. DOMAIN NoEntries = {} /\ NoEntries = [c \in DOMAIN NoEntries |-> NoEntries[c]]
  BY DEF NoEntries
<1>3. IsStore(NoEntries)
  BY <1>2 DEF IsStore
<1> QED
  BY <1>1, <1>3 DEF StateMapInit, StateMapIInv

\* A store with a namespace put in, and one with a namespace taken out.
LEMMA StoreWith ==
  ASSUME NEW s, IsStore(s), NEW c \in ContractIds, NEW m, IsMap(m)
  PROVE  IsStore(With(s, c, m))
<1> DEFINE w == With(s, c, m)
<1>1. DOMAIN w = DOMAIN s \cup {c} /\ w = [d \in DOMAIN w |-> w[d]]
  BY DEF With
<1>2. \A d \in DOMAIN w : w[d] = IF d = c THEN m ELSE s[d]
  BY DEF With
<1> HIDE DEF w
<1>3. \A d \in DOMAIN w : IsMap(w[d])
  BY <1>1, <1>2, Zenon DEF IsStore
<1>4. DOMAIN w \in SUBSET ContractIds
  BY <1>1 DEF IsStore
<1>5. IsStore(w)
  BY <1>1, <1>3, <1>4 DEF IsStore
<1> QED
  BY <1>5 DEF w

LEMMA StoreRemoved ==
  ASSUME NEW s, IsStore(s), NEW c
  PROVE  IsStore(Removed(s, c))
<1> DEFINE w == Removed(s, c)
<1>1. DOMAIN w = DOMAIN s \ {c} /\ w = [d \in DOMAIN w |-> w[d]]
  BY DEF Removed
<1>2. \A d \in DOMAIN w : w[d] = s[d]
  BY DEF Removed
<1> HIDE DEF w
<1>3. \A d \in DOMAIN w : IsMap(w[d])
  BY <1>1, <1>2, Zenon DEF IsStore
<1>4. DOMAIN w \in SUBSET ContractIds
  BY <1>1 DEF IsStore
<1>5. IsStore(w)
  BY <1>1, <1>3, <1>4 DEF IsStore
<1> QED
  BY <1>5 DEF w

\* The invariant is inductive: set makes a namespace that has an entry, delete
\* takes the last entry away with its namespace.
LEMMA StateMapInductive ==
  StateMapIInv /\ [StateMapNext]_stateVars => StateMapIInv'
<1>1. SUFFICES ASSUME StateMapIInv, [StateMapNext]_stateVars PROVE StateMapIInv'
  OBVIOUS
<1>2. CASE UNCHANGED stateVars
  BY <1>1, <1>2 DEF stateVars, StateMapIInv, IsStore
<1>3. ASSUME NEW c \in ContractIds, NEW k \in Keys, NEW v \in Values, SetEntry(c, k, v)
      PROVE  StateMapIInv'
  <2> DEFINE o == Namespace(c)
             m == With(o, k, v)
  <2>1. DOMAIN o \in SUBSET Keys /\ \A j \in DOMAIN o : o[j] \in Values
    <3>1. CASE c \in DOMAIN storage
      <4>1. IsMap(storage[c])
        BY <1>1, <3>1, Zenon DEF StateMapIInv, IsStore
      <4> QED
        BY <3>1, <4>1 DEF Namespace, IsMap
    <3>2. CASE c \notin DOMAIN storage
      BY <3>2 DEF Namespace, NoEntries
    <3> QED
      BY <3>1, <3>2
  <2> HIDE DEF o
  <2>2. IsMap(m)
    BY <1>3, <2>1 DEF With, IsMap
  <2>3. storage' = With(storage, c, m) /\ txLeaves' = txLeaves
    BY <1>3 DEF SetEntry, o
  <2> HIDE DEF m
  <2>4. IsStore(storage')
    BY <1>1, <2>2, <2>3, StoreWith DEF StateMapIInv
  <2> QED
    BY <1>1, <2>3, <2>4 DEF StateMapIInv, IsStore
<1>4. ASSUME NEW c \in ContractIds, NEW k \in Keys, DeleteEntry(c, k)
      PROVE  StateMapIInv'
  <2>1. c \in DOMAIN storage /\ storage' = Deleted(c, k) /\ txLeaves' = txLeaves
    BY <1>4 DEF DeleteEntry
  <2>2. IsStore(storage')
    <3>1. CASE DOMAIN storage[c] \subseteq {k}
      BY <1>1, <2>1, <3>1, StoreRemoved DEF StateMapIInv, Deleted
    <3>2. CASE ~ (DOMAIN storage[c] \subseteq {k})
      <4>1. IsMap(storage[c])
        BY <1>1, <2>1, Zenon DEF StateMapIInv, IsStore
      <4>2. IsMap(Removed(storage[c], k))
        BY <3>2, <4>1 DEF Removed, IsMap
      <4>3. storage' = With(storage, c, Removed(storage[c], k))
        BY <2>1, <3>2, Zenon DEF Deleted
      <4> QED
        BY <1>1, <4>2, <4>3, StoreWith DEF StateMapIInv
    <3> QED
      BY <3>1, <3>2
  <2> QED
    BY <1>1, <2>1, <2>2 DEF StateMapIInv, IsStore
<1>5. ASSUME NEW c \in ContractIds, ClearContract(c) PROVE StateMapIInv'
  <2>1. IsStore(storage') /\ txLeaves' = txLeaves
    BY <1>1, <1>5, StoreRemoved DEF StateMapIInv, ClearContract
  <2> QED
    BY <1>1, <2>1 DEF StateMapIInv, IsStore
<1>6. CASE AddLeaf
  <2> DEFINE n == Len(txLeaves)
  <2>1. n \in Nat /\ txLeaves = [i \in 1..n |-> <<"tx", i - 1>>]
    BY <1>1 DEF StateMapIInv
  <2>2. txLeaves' = Append(txLeaves, <<"tx", n>>) /\ storage' = storage
    BY <1>6 DEF AddLeaf
  <2>3. IsList(txLeaves)
    <3> DEFINE f == [i \in 1..n |-> <<"tx", i - 1>>]
    <3>1. f = [i \in 1..n |-> f[i]]
      OBVIOUS
    <3> HIDE DEF f, n
    <3>2. IsList(f)
      BY <2>1, <3>1, ListFacts
    <3> QED
      BY <2>1, <3>2 DEF f
  <2> HIDE DEF n
  <2>4. /\ IsList(txLeaves') /\ Len(txLeaves') = n + 1
        /\ txLeaves'[n + 1] = <<"tx", n>>
        /\ \A i \in 1..n : txLeaves'[i] = txLeaves[i]
    BY <2>2, <2>3, ListAppend DEF n
  <2>5. txLeaves' = [i \in 1..(n + 1) |-> txLeaves'[i]]
    BY <2>4, ListDomain
  <2>6. ASSUME NEW i \in 1..(n + 1) PROVE txLeaves'[i] = <<"tx", i - 1>>
    <3>1. CASE i = n + 1
      <4>1. i - 1 = n
        BY <2>1, <3>1
      <4> QED
        BY <2>4, <3>1, <4>1, Zenon
    <3>2. CASE i # n + 1
      <4>1. i \in 1..n
        BY <2>1, <3>2
      <4> QED
        BY <2>1, <2>4, <4>1
    <3> QED
      BY <3>1, <3>2
  <2>7. txLeaves' = [i \in 1..(n + 1) |-> <<"tx", i - 1>>]
    BY <2>5, <2>6, Zenon
  <2>8. Len(txLeaves') \in Nat
    BY <2>1, <2>4
  <2> QED
    BY <1>1, <2>2, <2>4, <2>7, <2>8 DEF StateMapIInv, IsStore
<1> QED
  BY <1>1, <1>2, <1>3, <1>4, <1>5, <1>6 DEF StateMapNext, StorageNext

\* The storage keeps its invariant, whatever writes, deletions and clearings.
THEOREM StateMapInvariant ==
  StateMapSpec => []StateMapIInv
<1> QED
  BY StateMapInitial, StateMapInductive, PTL DEF StateMapSpec

\* The lengths of the keys of a store are finitely many numbers.
LEMMA KeyLengthsFinite ==
  ASSUME NEW s, IsStore(s)
  PROVE  IsFiniteSet(KeyLengths(s))
<1> DEFINE len == [k \in Keys |-> Len(k)]
           all == {len[k] : k \in Keys}
<1>1. IsFiniteSet(all)
  <2> HIDE DEF len
  <2> QED
    BY StateAssumption, FiniteImage, Zenon
<1>2. KeyLengths(s) \subseteq all
  BY DEF KeyLengths, IsStore, IsMap
<1> QED
  BY <1>1, <1>2, FS_Subset

\* In every reachable state, no other contents have the root of a store that is
\* not empty, if all their keys have one length.
THEOREM StateRootCommits ==
  StateMapSpec => []StateRootBinds
<1>1. StateMapIInv => StateRootBinds
  <2>1. SUFFICES ASSUME StateMapIInv, storage # NoEntries
                 PROVE  /\ storage \in Contents
                        /\ \A other \in SameRoot(storage) :
                             Cardinality(KeyLengths(storage) \cup KeyLengths(other)) > 1
    BY DEF StateRootBinds
  <2>2. storage \in Contents
    BY <2>1, ContentsAreStores DEF StateMapIInv
  <2>3. ASSUME NEW other \in SameRoot(storage)
        PROVE  Cardinality(KeyLengths(storage) \cup KeyLengths(other)) > 1
    <3> DEFINE L == KeyLengths(storage) \cup KeyLengths(other)
    <3>1. other \in Contents /\ other # storage /\ StateRoot(other) = StateRoot(storage)
      BY <2>3 DEF SameRoot, RootOf
    <3>2. IsStore(storage) /\ IsStore(other)
      BY <2>2, <3>1, ContentsAreStores
    <3>3. IsFiniteSet(L)
      BY <3>2, KeyLengthsFinite, FS_Union
    <3>4. Cardinality(L) \in Nat
      BY <3>3, FS_CardinalityType
    <3>5. \A n : L \subseteq {n} => KeysOfLength(storage, n) /\ KeysOfLength(other, n)
      BY DEF KeyLengths, KeysOfLength
    <3> HIDE DEF L
    <3>6. \A n : ~ (L \subseteq {n})
      BY <2>2, <3>1, <3>5, RootBinds
    <3>7. Cardinality(L) # 0
      BY <3>3, <3>6, FS_EmptySet
    <3>8. Cardinality(L) # 1
      BY <3>3, <3>6, FS_Singleton
    <3>9. Cardinality(L) > 1
      BY <3>4, <3>7, <3>8
    <3> QED
      BY <3>9 DEF L
  <2> QED
    BY <2>2, <2>3
<1> QED
  BY <1>1, StateMapInvariant, PTL

\* In every reachable state, a proof of inclusion verifies for its own
\* transaction and for no other of the block, and the two tree loops compute
\* the same root.
THEOREM InclusionProofsSound ==
  StateMapSpec => []MerkleProofsSound
<1>1. StateMapIInv => MerkleProofsSound
  <2>1. SUFFICES ASSUME StateMapIInv PROVE MerkleProofsSound
    OBVIOUS
  <2> DEFINE n == Len(txLeaves)
  <2>2. n \in Nat /\ txLeaves = [i \in 1..n |-> <<"tx", i - 1>>]
    BY <2>1 DEF StateMapIInv
  <2>3. /\ DOMAIN txLeaves = 1..n /\ \A i \in 1..n : txLeaves[i] = <<"tx", i - 1>>
        /\ txLeaves = [i \in 1..n |-> txLeaves[i]]
    BY <2>2
  <2>4. IsList(txLeaves)
    <3> HIDE DEF n
    <3> QED
      BY <2>2, <2>3, ListFacts
  <2> HIDE DEF n
  <2>5. ASSUME NEW i \in 1..n, NEW j \in 1..n
        PROVE  VerifyProof(MerkleRoot(txLeaves), txLeaves[j], MerkleProof(txLeaves, i - 1))
                 <=> i = j
    <3>1. PICK k \in Nat : k = i - 1 /\ k < n /\ i = k + 1
      <4>1. i - 1 \in Nat /\ i - 1 < n /\ i = (i - 1) + 1
        BY <2>2
      <4> QED
        BY <4>1
    <3>2. VerifyProof(MerkleRoot(txLeaves), txLeaves[j], MerkleProof(txLeaves, k))
            <=> txLeaves[j] = txLeaves[k + 1]
      BY <2>4, <3>1, ProofsBind DEF n
    <3>3. txLeaves[j] = txLeaves[i] <=> i = j
      <4>1. txLeaves[j] = <<"tx", j - 1>> /\ txLeaves[i] = <<"tx", i - 1>>
        BY <2>3
      <4>2. <<"tx", j - 1>> = <<"tx", i - 1>> <=> j - 1 = i - 1
        OBVIOUS
      <4>3. j - 1 = i - 1 <=> i = j
        BY <2>2
      <4> QED
        BY <4>1, <4>2, <4>3, Zenon
    <3> QED
      BY <3>1, <3>2, <3>3, Zenon
  <2> QED
    BY <2>3, <2>4, <2>5, TreesAgree, Zenon DEF MerkleProofsSound
<1> QED
  BY <1>1, StateMapInvariant, PTL

=============================================================================
