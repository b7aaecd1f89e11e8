---------------------------- MODULE EscrowPromise ----------------------------
(***************************************************************************)
(* What the escrow promises the people whose money it holds, with nothing  *)
(* of how it keeps the promise: no seat indexes, no cursor, no counters,   *)
(* no batches, only deals and wallets.                                     *)
(*                                                                         *)
(* A deal takes one share from each of `quota` payers.  Either all of it   *)
(* goes to the beneficiary in one step, once the quota is met, or each     *)
(* payer gets their own share back, once, and the beneficiary nothing.     *)
(* A deal is forgotten only when it holds nothing.                         *)
(***************************************************************************)
EXTENDS Integers, FiniteSets

CONSTANTS Person, Purse, MaxDeals

VARIABLES
  offered,  \* deals ever offered
  deals,    \* the deals not forgotten, by number
  wallet    \* what each person and the purse of the escrow hold

vars == <<offered, deals, wallet>>

Deal == [quota: Nat, price: Nat, beneficiary: Person,
         stage: {"gathering", "ready", "delivered", "returning"},
         held: SUBSET Person]

Init ==
  /\ offered = 0
  /\ deals = [d \in {} |-> TRUE]
  /\ wallet \in [Person \cup {Purse} -> Nat]
  /\ wallet[Purse] = 0

\* The deal as it is after a step that keeps it.
Becomes(d, new) == deals' = [deals EXCEPT ![d] = new]

\* A new deal, whatever its terms, holds nothing; the others stand.
Offer ==
  LET new == offered + 1 IN
  /\ offered < MaxDeals
  /\ offered' = new
  /\ DOMAIN deals' = DOMAIN deals \cup {new}
  /\ \A d \in DOMAIN deals : deals'[d] = deals[d]
  /\ deals'[new] \in Deal
  /\ deals'[new].stage = "gathering"
  /\ deals'[new].held = {}
  /\ deals'[new].price > 0
  /\ UNCHANGED wallet

\* A person not yet in pays one share in; the last one needed makes it ready.
Fund(d, person) ==
  LET deal == deals[d]
      in == deal.held \cup {person}
  IN
  /\ deal.stage = "gathering"
  /\ person \notin deal.held
  /\ Becomes(d, [deal EXCEPT !.held = in,
                   !.stage = IF Cardinality(in) = deal.quota THEN "ready"
                             ELSE "gathering"])
  /\ wallet' = [wallet EXCEPT ![person] = @ - deal.price,
                              ![Purse] = @ + deal.price]
  /\ UNCHANGED offered

Deliver(d) ==
  LET deal == deals[d]
      sum == deal.price * Cardinality(deal.held)
  IN
  /\ deal.stage = "ready"
  /\ Becomes(d, [deal EXCEPT !.held = {}, !.stage = "delivered"])
  /\ wallet' = [wallet EXCEPT ![deal.beneficiary] = @ + sum, ![Purse] = @ - sum]
  /\ UNCHANGED offered

CallOff(d) ==
  /\ deals[d].stage \in {"gathering", "ready"}
  /\ Becomes(d, [deals[d] EXCEPT !.stage = "returning"])
  /\ UNCHANGED <<offered, wallet>>

\* Some of those still held for get back one share each.
Return(d, people) ==
  LET deal == deals[d] IN
  /\ deal.stage = "returning"
  /\ people # {}
  /\ Becomes(d, [deal EXCEPT !.held = @ \ people])
  /\ wallet' = [w \in Person \cup {Purse} |->
       IF w = Purse THEN wallet[w] - deal.price * Cardinality(people)
       ELSE IF w \in people THEN wallet[w] + deal.price ELSE wallet[w]]
  /\ UNCHANGED offered

Forget(d) ==
  /\ deals[d].stage \in {"delivered", "returning"}
  /\ deals[d].held = {}
  /\ deals' = [e \in DOMAIN deals \ {d} |-> deals[e]]
  /\ UNCHANGED <<offered, wallet>>

Next ==
  \/ Offer
  \/ \E d \in DOMAIN deals :
       \/ \E person \in Person : Fund(d, person)
       \/ Deliver(d)
       \/ CallOff(d)
       \/ \E people \in SUBSET deals[d].held : Return(d, people)
       \/ Forget(d)

Spec == Init /\ [][Next]_vars
=============================================================================
