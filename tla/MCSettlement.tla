---------------------------- MODULE MCSettlement ----------------------------
(***************************************************************************)
(* Two pools of two seats, one buyer through the server and one beside it. *)
(***************************************************************************)
EXTENDS Settlement

CONSTANTS a, b, f

Offer(p) == QuoteFor([network |-> "test", usdc_asa_id |-> "usdc", app_account |-> App], p, 1)

HonestGroups(who) ==
  {BuildJoinGroup(v, who, Offer(p), p) : v \in DOMAIN RoleOrder, p \in Pool}

Axfer(who, n) == PaymentTo(who, [Offer(1) EXCEPT !.amount = n])

Padded(call) == [call EXCEPT !.args = 4]

\* What a hand may sign that the server must look at: the join before its
\* transfer, somebody else's join, two joins, a call with no pool, and a
\* transfer too many.
HandmadeGroups ==
  {<<JoinCall(a, 1, 2), Axfer(a, 1)>>,
   <<Axfer(a, 1), JoinCall(b, 1, 1)>>,
   <<Axfer(a, 1), JoinCall(a, 1, 1), JoinCall(a, 2, 1)>>,
   <<Axfer(a, 1), [JoinCall(a, 1, 1) EXCEPT !.args = 1]>>,
   <<Axfer(a, 1), Axfer(a, 1), JoinCall(a, 1, 1)>>}

\* Groups without the server: one transfer named by two joins, padded or not
\* and in either place, two transfers and two joins, two accounts with one
\* transfer, and a wrong amount.
MisusedGroups ==
  {<<Axfer(a, 1), JoinCall(a, 1, 1), Padded(JoinCall(a, 2, 1))>>,
   <<Axfer(a, 1), Padded(JoinCall(a, 1, 1)), JoinCall(a, 2, 1)>>,
   <<JoinCall(a, 1, 2), Axfer(a, 1), JoinCall(a, 2, 2)>>,
   <<Axfer(a, 1), Axfer(a, 1), JoinCall(a, 1, 1), JoinCall(a, 2, 2)>>,
   <<Axfer(a, 1), JoinCall(b, 1, 1)>>,
   <<Axfer(a, 2), JoinCall(a, 1, 1)>>}

RivalGroups == {BuildJoinGroup("fee_payer_first", b, Offer(1), 1)}

DirectGroups == MisusedGroups \cup HonestGroups(a)

SignedGroups ==
  DirectGroups \cup HandmadeGroups \cup RivalGroups
    \cup {BuildPlainGroup(a, Offer(1))}

SentInputs ==
  {PlainInput,
   [PlainInput EXCEPT !.path = "/index/"], [PlainInput EXCEPT !.path = "/app/index"],
   [PlainInput EXCEPT !.query = 2],
   [PlainInput EXCEPT !.body = 1, !.query = 2],
   [PlainInput EXCEPT !.read = "unreadable_body"],
   [PlainInput EXCEPT !.read = "body_too_large"]}

Base ==
  [usdc_asa_id |-> "usdc", app_id |-> 1, app_account |-> App, fee_payer |-> "f",
   treasury |-> "t", verifier |-> "v", public_host |-> "https://earnest",
   index_share_price_micro |-> 1, index_seats |-> 2, index_agreement_id |-> 1]

Main == [network |-> "main"] @@ [Base EXCEPT !.usdc_asa_id = "other"]

PinOn == [pin_route_enabled |-> TRUE, price_micro_usdc |-> 1, admin_mnemonic |-> "words"]

\* Every environment but a few is one mistake away from one that serves.
Environments ==
  {Base, [Base EXCEPT !.index_agreement_id = 2], [Base EXCEPT !.index_agreement_id = -1],
   [Base EXCEPT !.index_seats = 3],
   PinOn @@ [web_dist_dir |-> "whole"] @@ Base,
   PinOn @@ Main, Main, [Base EXCEPT !.usdc_asa_id = "other"],
   [admin_mnemonic |-> "words"] @@ Base, [pin_route_enabled |-> Garbage] @@ Base,
   [Base EXCEPT !.app_account = b],
   [Base EXCEPT !.index_seats = Garbage], [Base EXCEPT !.verifier = Garbage],
   [Base EXCEPT !.public_host = "http://earnest"],
   [web_dist_dir |-> "half"] @@ Base,
   [index_description |-> Clauses \ {"join call"}] @@ Base,
   [price_hook_timeout_seconds |-> 120] @@ Base}

\* TLC evaluates a definition without parameters once, and what replaces a
\* constant at every use.  So the values above have names of their own: each
\* exists once, in the form the workers can share.
MCGroups == SignedGroups
MCRivals == RivalGroups
MCDirect == DirectGroups
MCHandmade == HandmadeGroups
MCInputs == SentInputs
MCEnv == Environments

MCPrice == [p \in {1, 2} |-> 1]
MCSeats == [p \in {1, 2} |-> 2]
MCDeadline == [p \in {1, 2} |-> p]
=============================================================================
