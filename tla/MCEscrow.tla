------------------------------ MODULE MCEscrow ------------------------------
(***************************************************************************)
(* Instances of Escrow for TLC: the accounts, the offers (valid ones, and  *)
(* near misses that create_agreement must refuse) and the transfers that   *)
(* join groups carry.                                                      *)
(***************************************************************************)
EXTENDS Escrow

CONSTANTS op1, p1, p2, p3, ben, ver, h1

MCAccount == {op1, p1, p2, p3, ben, ver}

Quorum(n, price, deadline) ==
  [condition |-> "quorum", share_price |-> price, min_seats |-> n,
   max_seats |-> n, deadline |-> deadline, commit_hash |-> ZeroHash,
   beneficiary |-> ben, verifier |-> ZeroAddress]

OnHash(n, price, deadline) ==
  [Quorum(n, price, deadline) EXCEPT !.condition = "hash",
                                     !.commit_hash = h1, !.verifier = ver]

\* A pool of three on a hash, the delivery escrow's single seat, a quorum, and
\* what must be refused.
OffersOfPool ==
  {OnHash(3, 1, 2), OnHash(1, 1, 1), Quorum(2, 1, 1),
   Quorum(1, 1, 1), OnHash(0, 1, 1), Quorum(4, 1, 1), Quorum(2, 1, 0),
   [Quorum(2, 1, 2) EXCEPT !.max_seats = 3],
   [OnHash(1, 1, 2) EXCEPT !.beneficiary = ZeroAddress]}

\* Two agreements side by side, differently priced.
OffersOfPair == {Quorum(2, 2, 1), OnHash(1, 1, 1)}

Transfer(sender, amount) ==
  [sender |-> sender, receiver |-> App, asset |-> "usdc",
   amount |-> amount, bare |-> TRUE]

\* The transfers join must accept, and one of each kind it must refuse.
EveryPayment ==
  {Transfer(p, n) : p \in Payers, n \in 1..2}
    \cup {[Transfer(p1, 1) EXCEPT !.receiver = ben],
          [Transfer(p1, 1) EXCEPT !.asset = "other"],
          [Transfer(p1, 1) EXCEPT !.bare = FALSE]}

\* TLC evaluates a definition without parameters once, and what replaces a
\* constant at every use.  So the values above have names of their own: each
\* exists once, in the form the workers can share.
PoolOffers == OffersOfPool
PairOffers == OffersOfPair
MCPayments == EveryPayment
=============================================================================
