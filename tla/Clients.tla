------------------------------ MODULE Clients ------------------------------
(***************************************************************************)
(* What the escrow's clients decide, beside the contract that has the last *)
(* word.  Each client keeps its own copy of the contract's rules: the web  *)
(* page offers buttons (web/src/pool/view.ts), the operator's scripts      *)
(* refuse calls before sending them (agents/pool_ops.py, release_edition), *)
(* and the server sells seats (api/pool.py).  A copy too lax has someone   *)
(* sign for a call the chain refuses; one too strict leaves a buyer with   *)
(* no way to their money.  Here every decision is made on boxes read this  *)
(* instant, and compared with the contract's own actions in every state    *)
(* Escrow reaches.  The clock is the chain's, but for the server's, which  *)
(* is its own, read before it asks for the box.                            *)
(***************************************************************************)
EXTENDS Escrow

CONSTANTS
  SharePrice,   \* INDEX_SHARE_PRICE_MICRO
  Seats,        \* INDEX_SEATS
  Margin,       \* FINAL_MARGIN_SECONDS of release_edition
  Drift         \* bound: how far a moment of the server's is from the chain's

ASSUME EditionAssumption ==
  SharePrice \in Nat /\ Seats \in Nat /\ Margin \in Nat \ {0} /\ Drift \in Nat

-----------------------------------------------------------------------------
(* The web page: the seat a wallet holds, and the buttons it is shown.     *)

SeatsHeld(id, acct) == {s \in Occupied(id) : roster[id][s].payer = acct}

\* findSeat: the first seat of this payer on the roster.
FindSeat(id, acct) == Min(SeatsHeld(id, acct))

IsOwed(id, acct) ==
  /\ SeatsHeld(id, acct) # {}
  /\ roster[id][FindSeat(id, acct)].amount > 0

IsSkipped(id, acct) ==
  /\ IsOwed(id, acct)
  /\ FindSeat(id, acct) < agreements[id].refund_cursor

RefundBatchSize(a) == Max({1, Min({BatchCeiling, a.seats - a.refund_cursor})})

\* refund_next is withheld once the cursor is at the last seat.
AvailableActions_CursorTest(id, acct) ==
  LET a == agreements[id] IN
    {action \in {"expire", "refund_next", "claim_refund", "close"} :
       \/ action = "expire" /\ a.state \in {"OPEN", "FUNDED"} /\ now >= a.deadline
       \/ /\ action = "refund_next"
          /\ a.state \in {"EXPIRED", "REFUNDING"}
          /\ a.refund_cursor < a.seats
       \/ action = "claim_refund" /\ IsSkipped(id, acct)
       \/ action = "close" /\ a.state = "REFUNDED" /\ Closable(a)}

AvailableActions(id, acct) ==
  LET a == agreements[id] IN
    {action \in {"expire", "refund_next", "claim_refund", "close"} :
       \/ action = "expire" /\ a.state \in {"OPEN", "FUNDED"} /\ now >= a.deadline
       \/ action = "refund_next" /\ a.state \in {"EXPIRED", "REFUNDING"}
       \/ /\ action = "claim_refund"
          /\ IsSkipped(id, acct)
          /\ a.state \in {"EXPIRED", "REFUNDING", "REFUNDED"}
       \/ /\ action = "close"
          /\ a.state = "REFUNDED"
          /\ a.unclaimed_seats = 0
          /\ a.total_held = 0}

\* The window is cut from the first seat, whatever the cursor.
NamedPayers_FromFirst(a, seatsOf, count) ==
  {seatsOf[s].payer : s \in {t \in DOMAIN seatsOf : t < count}}

\* The accounts array refund_next is sent with: the roster window it touches.
NamedPayers(a, seatsOf, count) ==
  {seatsOf[s].payer :
     s \in {t \in DOMAIN seatsOf : /\ t >= a.refund_cursor
                                   /\ t < a.refund_cursor + count}}

\* refund_next as a client sends it: a payer whose holding the call looks at,
\* paid or skipped, must be named in it.
SentRefundPasses(id, count, named) ==
  /\ id \in Live
  /\ LET last == WindowEnd(agreements[id], count)
     IN  {roster[id][s].payer : s \in Payable(id, last) \cup Skipped(id, last)} \subseteq named
  /\ RefundNextPasses(id, count)

\* The same, composed from the boxes as they are.
FreshRefundPasses(id, count) ==
  SentRefundPasses(id, count, NamedPayers(agreements[id], roster[id], count))

\* The contract takes the call the page composes for a button.
SentPasses(action, id, acct) ==
  \/ action = "expire" /\ ExpirePasses(acct, id)
  \/ action = "refund_next" /\ FreshRefundPasses(id, RefundBatchSize(agreements[id]))
  \/ action = "claim_refund" /\ ClaimRefundPasses(id, FindSeat(id, acct))
  \/ action = "close" /\ ClosePasses(id)

-----------------------------------------------------------------------------
(* pool_ops: the guard before expire, and the call drain makes next.       *)

\* The stranded beneficiary is not asked about.
GuardExpire_NoRescue(a, sender) ==
  /\ a.state \in {"OPEN", "FUNDED", "FILLED"}
  /\ \/ a.seats = 0 /\ sender = a.creator
     \/ a.deadline - now <= 0

\* _guard_expire: what it asks of the record and the beneficiary's holding,
\* then of the chain's clock.
StateExpires(a) ==
  /\ a.state \in {"OPEN", "FUNDED", "FILLED"}
  /\ ~(a.state = "FILLED" /\ a.beneficiary \in canReceive)

ClockExpires(a, sender) ==
  \/ a.seats = 0 /\ sender = a.creator
  \/ a.deadline - now <= 0

GuardExpire(a, sender) == StateExpires(a) /\ ClockExpires(a, sender)

\* What drain does with a record in this state.
DrainStep(a, sender) ==
  IF a.state \in {"OPEN", "FUNDED", "FILLED"}
    THEN IF GuardExpire(a, sender) THEN "expire" ELSE "refused"
  ELSE IF a.state \in {"EXPIRED", "REFUNDING"} THEN "refund_next"
  ELSE IF a.unclaimed_seats > 0 THEN "unclaimed"
  ELSE "close"

-----------------------------------------------------------------------------
(* release_edition: the checks made right before the release is sent.      *)

CheckReleasable(a, sender, sha256, runway) ==
  /\ a.state = "FUNDED"
  /\ a.verifier = sender
  /\ a.commit_hash = sha256
  /\ a.deadline - now >= runway

-----------------------------------------------------------------------------
(* The server's pinned pool, and the page's check before it signs.         *)

IsOpenPoolShape(a, moment) ==
  /\ a.state = "OPEN"
  /\ a.condition = "hash"
  /\ a.min_seats > 1
  /\ a.deadline > moment

\* What time.time() may have been when the server read it, before it asked for
\* the box: its clock is ahead of the latest block's, or behind it, and the
\* answer takes its time.
Moments == (now - Drift)..(now + Drift)

\* read_pinned_pool answers with this agreement.
MatchesThisEdition(a, moment) ==
  /\ IsOpenPoolShape(a, moment)
  /\ a.min_seats = Seats
  /\ a.share_price = SharePrice

\* quote_for: what the 402 says of the pool.
QuoteFor(id) ==
  LET a == agreements[id] IN
  [agreementId |-> id, amount |-> a.share_price,
   seatsLeft |-> Max({0, a.min_seats - a.seats}), commitSha256 |-> a.commit_hash]

\* Seats, price and commitment are compared, the state is not.
QuoteAgrees_AnyState(q) ==
  /\ q.agreementId \in Live
  /\ LET a == agreements[q.agreementId] IN
       /\ q.amount = a.share_price
       /\ q.seatsLeft = Max({0, a.max_seats - a.seats})
       /\ q.commitSha256 = a.commit_hash

\* quoteDisagreements is empty.
QuoteAgrees(q) ==
  /\ q.agreementId \in Live
  /\ LET a == agreements[q.agreementId] IN
       /\ a.state = "OPEN"
       /\ q.amount = a.share_price
       /\ q.seatsLeft = Max({0, a.max_seats - a.seats})
       /\ q.commitSha256 = a.commit_hash

\* The transfer the page builds from a quote.
Paying(acct, q) ==
  [sender |-> acct, receiver |-> App, asset |-> "usdc",
   amount |-> q.amount, bare |-> TRUE]

-----------------------------------------------------------------------------
(* What must be true.                                                      *)

Pools == {id \in Live : agreements[id].condition = "hash"}

\* A button the page shows is a call the contract takes, for any wallet, so
\* nobody signs for a refusal.  The claim of a wallet that cannot receive is
\* the exception the page explains next to the button.
OfferedIsAccepted ==
  \A id \in Pools, acct \in Account : \A action \in AvailableActions(id, acct) :
    \/ SentPasses(action, id, acct)
    \/ action = "claim_refund" /\ acct \notin canReceive

\* From its deadline on, a pool not released never dead-ends on the page: a
\* button is there for everyone until the cursor finishes, and after it for
\* each payer still owed, or for everyone once the pool can be closed.
NoDeadEnd ==
  \A id \in Pools, acct \in Account :
    LET a == agreements[id] IN
    now >= a.deadline /\ a.state # "RELEASED" =>
      \/ AvailableActions(id, acct) # {}
      \/ a.state = "REFUNDED" /\ ~IsOwed(id, acct) /\ a.unclaimed_seats > 0

\* The page's buttons are right: none is refused, and none that is needed is
\* missing.  The page decides both by rules of its own, from one reading.
ButtonsAreRight == OfferedIsAccepted /\ NoDeadEnd

\* The guard refuses exactly what the contract refuses: it never sends a call
\* that comes back as a program counter, and never withholds the rescue of a
\* filled agreement whose beneficiary is stranded.
ExpireGuardExact ==
  \A id \in Live, sender \in Account :
    GuardExpire(agreements[id], sender) <=> ExpirePasses(sender, id)

\* Whoever could pay for a seat of id at this price and is not on its roster.
Buyers(id, amount) ==
  {acct \in Payers : /\ acct \in canReceive
                     /\ usdc[acct] >= amount
                     /\ ~AlreadyJoined(id, acct)}

\* One of the two clocks has passed the deadline, the other has not.
DeadlineBetween(a, moment) == (moment < a.deadline) # (now < a.deadline)

\* A pool is served exactly when a newcomer's join would be taken, a pause of
\* the contract aside: no 402 sells a seat that cannot be had, and no seat of
\* this edition goes unsold.  And the 402 counts the seats join will give.  The
\* server goes by its own clock and join by the chain's: while the deadline is
\* between the two either may say no alone, and at no other time.
ServedIsJoinable ==
  \A id \in Live, moment \in Moments :
    LET a == agreements[id] q == QuoteFor(id) IN
    ~paused /\ App \in canReceive /\ ~DeadlineBetween(a, moment) =>
      /\ MatchesThisEdition(a, moment) =>
           /\ q.seatsLeft > 0
           /\ \A acct \in Buyers(id, q.amount) : JoinPasses(acct, id, Paying(acct, q))
      /\ (/\ a.condition = "hash" /\ a.min_seats = Seats /\ Seats > 1
          /\ \E acct \in Payers : JoinPasses(acct, id, [Paying(acct, q) EXCEPT !.amount = SharePrice]))
           => MatchesThisEdition(a, moment)

\* A quote of any age that passes the page's check can still be paid: what has
\* moved since is either compared, or refused before anything settles because
\* the deadline has gone by.
VerifiedQuoteIsJoinable ==
  \A id \in Pools, left \in 1..SeatsCeiling :
    LET q == [QuoteFor(id) EXCEPT !.seatsLeft = left] IN
    QuoteAgrees(q) /\ ~paused /\ App \in canReceive /\ now < agreements[id].deadline =>
      \A acct \in Buyers(id, q.amount) : JoinPasses(acct, id, Paying(acct, q))

\* Whether it is the server that checks, at the first request, or the page, just
\* before it signs, what is sold can be had, unless the deadline is passing.
SoldIsJoinable == ServedIsJoinable /\ VerifiedQuoteIsJoinable
=============================================================================
