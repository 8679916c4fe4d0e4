------------------------------- MODULE MCNode -------------------------------
(* Instances of Node and Explorer.                                          *)
EXTENDS Explorer

Out(owner, amount) == [burn |-> FALSE, owner |-> owner, amount |-> amount]
Burnt(amount) == [burn |-> TRUE, owner |-> "nobody", amount |-> amount]
Tx(name, ins, outs) ==
  [id |-> <<"tx", name, 0, 0>>, coinbase |-> FALSE, signed |-> TRUE,
   inputs |-> ins, outputs |-> outs]
In(name, i, key) == [op |-> <<<<"tx", name, 0, 0>>, i>>, key |-> key]

\* The prefix funds alice and bob.
MCGenesisTxs == <<Tx("genesis", <<>>, <<Out("alice", 5), Out("bob", 2)>>)>>

\* pay and rival spend the same output; pay burns a coin; spend uses the
\* output of pay.
Pay == Tx("pay",   <<In("genesis", 1, "alice")>>, <<Out("bob", 3), Burnt(1)>>)
Rival == Tx("rival", <<In("genesis", 1, "alice")>>, <<Out("alice", 4)>>)
Spend == Tx("spend", <<In("pay", 1, "bob"), In("genesis", 2, "bob")>>, <<Out("carol", 4)>>)

\* reap spends the coinbase of the node's own first block.
Reap == Tx("reap",  <<[op |-> <<<<"coinbase", "miner", 1, 4>>, 1>>, key |-> "miner"]>>,
                     <<Out("carol", 3)>>)

PayRivalSpend == <<Pay, Rival, Spend>>
PayRivalReap == <<Pay, Rival, Reap>>
OnlyPay == <<Pay>>
NoTransfers == <<>>

MCSchedule == [initial |-> 4, interval |-> 2, max |-> 100]

SameBits == [h \in Hash \cup {Zero} |-> 0]

\* Every peer its own address.
OwnPayee == [h \in Hash |-> <<"p", "q", "r", "s", "t", "u">>[h]]

Empty == {<<>>}
EmptyOrOne == {<<>>, <<1>>}
EmptyOrReap == {<<>>, <<3>>}
Bodies == {<<>>, <<2>>, <<1, 3>>}

\* Blocks are named in the order they are found.  The order of hashes only
\* decides between tips of equal score, and ancestors have lower scores: for
\* every order of the hashes, finding the blocks by rising score, then by
\* rising hash, decides in the same way.
NamesInOrder ==
  \A h \in DOMAIN blocks' \ DOMAIN blocks : \A g \in Hash \ DOMAIN blocks' : h < g
=============================================================================
