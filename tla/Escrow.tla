------------------------------- MODULE Escrow -------------------------------
(***************************************************************************)
(* The Earnest escrow application (contracts/smart_contracts/escrow).      *)
(*                                                                         *)
(* One application account holds the USDC and the ALGO of every agreement. *)
(* A method call is one atomic transaction group: it either passes every   *)
(* assertion and every inner transaction, and then its effect is one step  *)
(* here, or it has no effect at all.  Around the contract the ledger moves *)
(* on its own: the clock advances, accounts lose and regain the ability to *)
(* receive USDC (opt-out, or a freeze by the issuer), and the protocol     *)
(* may change its minimum transaction fee.                                 *)
(***************************************************************************)
EXTENDS Integers, FiniteSets, FiniteSetsExt, Functions

CONSTANTS
  Account,       \* every account but the application's own
  App,           \* the application account
  ZeroAddress,   \* the zero address
  ZeroHash,      \* 32 zero bytes
  Hash,          \* the other 32-byte values
  Operators,     \* accounts that can become admin
  Payers,        \* accounts that sign joins
  Fickle,        \* accounts that may lose and regain the ability to receive
  Offers,        \* argument tuples of create_agreement, valid or not
  Payments,      \* first legs of join groups, valid or not
  Funds,         \* USDC each account starts with
  Funding,       \* ALGO the deployer leaves above the base minimum balance
  MinFees,       \* values the protocol's minimum fee takes, first one initial
  InitialFee,
  BoxFlat,       \* MBR of both boxes before the seats
  SeatMbr,       \* MBR of one roster seat
  SeatsCeiling,  \* MAX_SEATS_CEILING
  BatchCeiling,  \* REFUND_BATCH_CEILING
  MaxAgreements, \* bound on agreement_count
  MaxTime        \* bound on the clock

ASSUME AccountAssumption ==
  /\ App \notin Account
  /\ ZeroAddress \notin Account \cup {App}
  /\ ZeroHash \notin Hash
  /\ Operators \subseteq Account /\ Operators # {}
  /\ Payers \subseteq Account
  /\ Fickle \subseteq Account

OfferType ==
  [condition: {"hash", "quorum"}, share_price: Nat, min_seats: Nat,
   max_seats: Nat, deadline: Nat, commit_hash: Hash \cup {ZeroHash},
   beneficiary: Account \cup {ZeroAddress},
   verifier: Account \cup {ZeroAddress}]

PaymentType ==
  [sender: Account, receiver: Account \cup {App}, asset: {"usdc", "other"},
   amount: Nat, bare: BOOLEAN]

ASSUME InputAssumption ==
  /\ Offers \subseteq OfferType
  /\ Payments \subseteq PaymentType

ASSUME NumberAssumption ==
  /\ MinFees \subseteq Nat /\ InitialFee \in MinFees
  /\ Funds \in Nat /\ Funding \in Nat /\ BoxFlat \in Nat /\ SeatMbr \in Nat
  /\ SeatsCeiling \in Nat \ {0}
  /\ BatchCeiling \in Nat \ {0}
  /\ MaxAgreements \in Nat /\ MaxTime \in Nat

VARIABLES
  now,             \* Global.latest_timestamp
  minFee,          \* Global.min_txn_fee
  canReceive,      \* accounts opted in to USDC and not frozen
  usdc,            \* USDC balance of every account, the application's included
  algo,            \* the application's ALGO above its own base minimum balance
  admin,
  paused,
  agreement_count,
  agreements,      \* the agreement boxes that exist, by id
  roster           \* the roster boxes that exist, by id

ledgerVars == <<now, minFee, canReceive>>
adminVars == <<admin, paused>>
boxVars == <<agreement_count, agreements, roster>>
vars == <<now, minFee, canReceive, usdc, algo, admin, paused,
          agreement_count, agreements, roster>>

-----------------------------------------------------------------------------
(* The record and the roster.                                              *)

States == {"OPEN", "FUNDED", "FILLED", "RELEASED",
           "EXPIRED", "REFUNDING", "REFUNDED"}

Agreement ==
  [condition: {"hash", "quorum"}, state: States, deadline: Nat,
   share_price: Nat, min_seats: Nat, max_seats: Nat, seats: Nat,
   refund_cursor: Nat, unclaimed_seats: Nat, total_held: Nat,
   commit_hash: Hash \cup {ZeroHash}, beneficiary: Account,
   verifier: Account \cup {ZeroAddress}, creator: Account]

Seat == [payer: Account \cup {ZeroAddress}, amount: Nat]

Ids == 1..MaxAgreements

Live == DOMAIN agreements

\* A box map is a function whose domain is the boxes that exist.
WithBox(boxes, id, contents) ==
  [i \in DOMAIN boxes \cup {id} |-> IF i = id THEN contents ELSE boxes[i]]

WithoutBox(boxes, id) == [i \in DOMAIN boxes \ {id} |-> boxes[i]]

TypeOK ==
  /\ now \in Nat
  /\ minFee \in MinFees
  /\ canReceive \subseteq Account \cup {App}
  /\ usdc \in [Account \cup {App} -> Nat]
  /\ algo \in Int
  /\ admin \in Account
  /\ paused \in BOOLEAN
  /\ agreement_count \in 0..MaxAgreements
  /\ Live \subseteq 1..agreement_count
  /\ agreements \in [Live -> Agreement]
  /\ DOMAIN roster = Live
  /\ \A id \in Live :
       roster[id] \in [0..(agreements[id].max_seats - 1) -> Seat]

\* Occupied seats, and those among them whose amount is not yet zeroed.
Occupied(id) == 0..(agreements[id].seats - 1)

Unpaid(id) == {seat \in Occupied(id) : roster[id][seat].amount > 0}

AlreadyJoined(id, acct) ==
  \E seat \in Occupied(id) : roster[id][seat].payer = acct

-----------------------------------------------------------------------------
(* Storage and fee arithmetic.                                             *)

BoxMbr(max_seats) == BoxFlat + SeatMbr * max_seats

FeeReserve(max_seats) == (max_seats + 1) * minFee

RequiredDeposit(max_seats) == BoxMbr(max_seats) + FeeReserve(max_seats)

\* The minimum balance the ledger holds the application to, for these boxes.
MinBalance(boxes) ==
  SumFunction([id \in DOMAIN boxes |-> BoxMbr(boxes[id].max_seats)])

\* The inner payments of one call: `count` of them, `total` USDC together.
\* The ledger rejects a transfer from or to a holding that is absent or
\* frozen, one the sender cannot cover, and a fee that would leave the
\* application account under its minimum balance.
CanPay(receivers, total, count) ==
  /\ receivers \subseteq canReceive
  /\ App \in canReceive
  /\ total <= usdc[App]
  /\ algo >= MinBalance(agreements) + count * minFee

\* USDC balances once the application has paid amountOf[a] to each account a.
PaidOut(amountOf, total) ==
  [a \in Account \cup {App} |-> IF a = App THEN usdc[App] - total
                                ELSE usdc[a] + amountOf[a]]

-----------------------------------------------------------------------------
(* bootstrap, opt_in_asset: the application as deploy_config leaves it.    *)

Init ==
  /\ now = 0
  /\ minFee = InitialFee
  /\ canReceive = Account
  /\ usdc = [a \in Account \cup {App} |-> IF a = App THEN 0 ELSE Funds]
  /\ algo = Funding
  /\ admin \in Operators
  /\ paused = FALSE
  /\ agreement_count = 0
  /\ agreements = [id \in {} |-> TRUE]
  /\ roster = [id \in {} |-> TRUE]

\* The application's own opt-in; its fee is paid by the caller.
OptInAsset(caller) ==
  /\ caller = admin
  /\ canReceive' = canReceive \cup {App}
  /\ UNCHANGED <<now, minFee, usdc, algo, adminVars, boxVars>>

SetAdmin(caller, new_admin) ==
  /\ caller = admin
  /\ new_admin # ZeroAddress
  /\ admin' = new_admin
  /\ UNCHANGED <<ledgerVars, usdc, algo, paused, boxVars>>

SetPaused(caller, value) ==
  /\ caller = admin
  /\ paused' = value
  /\ UNCHANGED <<ledgerVars, usdc, algo, admin, boxVars>>

-----------------------------------------------------------------------------
(* create_agreement.                                                       *)

\* The validity table: what both conditions ask, then what each one asks.
ValidOffer(o) ==
  /\ o.deadline > now
  /\ o.share_price > 0
  /\ o.beneficiary # ZeroAddress
  /\ o.beneficiary \in canReceive
  /\ o.max_seats = o.min_seats
  /\ o.max_seats <= SeatsCeiling
  /\ \/ /\ o.condition = "hash"
        /\ o.min_seats >= 1
        /\ o.commit_hash # ZeroHash
        /\ o.verifier # ZeroAddress
     \/ /\ o.condition = "quorum"
        /\ o.min_seats > 1
        /\ o.commit_hash = ZeroHash
        /\ o.verifier = ZeroAddress

NewAgreement(o, creator) ==
  [condition |-> o.condition, state |-> "OPEN", deadline |-> o.deadline,
   share_price |-> o.share_price, min_seats |-> o.min_seats,
   max_seats |-> o.max_seats, seats |-> 0, refund_cursor |-> 0,
   unclaimed_seats |-> 0, total_held |-> 0, commit_hash |-> o.commit_hash,
   beneficiary |-> o.beneficiary, verifier |-> o.verifier,
   creator |-> creator]

\* Seats numbered from one.
EmptyRoster_FromOne(max_seats) ==
  [seat \in 1..max_seats |-> [payer |-> ZeroAddress, amount |-> 0]]

EmptyRoster(max_seats) ==
  [seat \in 0..(max_seats - 1) |-> [payer |-> ZeroAddress, amount |-> 0]]

\* `deposit` is the amount of mbr_payment, which the caller sends to the app.
CreatePasses(caller, o, deposit) ==
  /\ caller = admin
  /\ ~paused
  /\ ValidOffer(o)
  /\ deposit = RequiredDeposit(o.max_seats)
  /\ agreement_count < MaxAgreements
  /\ agreement_count + 1 \notin DOMAIN roster

CreateAgreement(caller, o, deposit) ==
  LET id == agreement_count + 1 IN
  /\ CreatePasses(caller, o, deposit)
  /\ agreement_count' = id
  /\ agreements' = WithBox(agreements, id, NewAgreement(o, caller))
  /\ roster' = WithBox(roster, id, EmptyRoster(o.max_seats))
  /\ algo' = algo + deposit
  /\ UNCHANGED <<ledgerVars, usdc, adminVars>>

-----------------------------------------------------------------------------
(* join, in a group of one transfer and the call that references it.       *)
(* JoinGroups models groups of several transfers and several joins.        *)

\* The ledger accepts the transfer, and what it then does to USDC balances.
Transferable(p) ==
  p.asset = "usdc" => /\ {p.sender, p.receiver} \subseteq canReceive
                      /\ p.amount <= usdc[p.sender]

Transferred(p) ==
  IF p.asset = "usdc"
    THEN [usdc EXCEPT ![p.sender] = @ - p.amount, ![p.receiver] = @ + p.amount]
    ELSE usdc

\* The transfer's receiver is not looked at.
Settles_AnyReceiver(p, caller, a) ==
  /\ p.asset = "usdc"
  /\ p.sender = caller
  /\ p.amount = a.share_price
  /\ p.bare

\* What join asserts of the transfer it references; `bare` says that its
\* asset_close_to and rekey_to are both unset.
Settles(p, caller, a) ==
  /\ p.asset = "usdc"
  /\ p.receiver = App
  /\ p.sender = caller
  /\ p.amount = a.share_price
  /\ p.bare

\* The record after a seat is taken for `amount`.
Seated(a, amount) ==
  LET seats == a.seats + 1
      full == IF a.condition = "quorum" THEN "FILLED" ELSE "FUNDED"
  IN  [a EXCEPT !.seats = seats,
                !.total_held = a.total_held + amount,
                !.state = IF seats >= a.min_seats THEN full ELSE a.state]

JoinPasses(caller, id, p) ==
  LET a == agreements[id] IN
  /\ ~paused
  /\ id \in Live
  /\ a.state = "OPEN"
  /\ now < a.deadline
  /\ a.seats < a.max_seats
  /\ Transferable(p)
  /\ Settles(p, caller, a)
  /\ ~AlreadyJoined(id, caller)

Join(caller, id, p) ==
  LET a == agreements[id] IN
  /\ JoinPasses(caller, id, p)
  /\ agreements' = [agreements EXCEPT ![id] = Seated(a, p.amount)]
  /\ roster' = [roster EXCEPT ![id][a.seats] =
                  [payer |-> caller, amount |-> p.amount]]
  /\ usdc' = Transferred(p)
  /\ UNCHANGED <<ledgerVars, algo, adminVars, agreement_count>>

-----------------------------------------------------------------------------
(* release_hash and release_quorum.                                        *)

\* Both releases pay all that is held to the beneficiary.
CanDeliver(id) ==
  CanPay({agreements[id].beneficiary}, agreements[id].total_held, 1)

\* What both releases do once everything has passed.
Release(id) ==
  LET a == agreements[id] IN
  /\ usdc' = PaidOut([acct \in Account |->
                IF acct = a.beneficiary THEN a.total_held ELSE 0], a.total_held)
  /\ algo' = algo - minFee
  /\ agreements' = [agreements EXCEPT ![id] =
                      [a EXCEPT !.total_held = 0, !.state = "RELEASED"]]
  /\ UNCHANGED <<ledgerVars, adminVars, agreement_count, roster>>

ReleaseHashPasses(caller, id, delivered_bytes_hash) ==
  /\ id \in Live
  /\ agreements[id].state = "FUNDED"
  /\ caller = agreements[id].verifier
  /\ now < agreements[id].deadline
  /\ delivered_bytes_hash = agreements[id].commit_hash
  /\ CanDeliver(id)

ReleaseHash(caller, id, delivered_bytes_hash) ==
  /\ ReleaseHashPasses(caller, id, delivered_bytes_hash)
  /\ Release(id)

ReleaseQuorumPasses(id) ==
  /\ id \in Live
  /\ agreements[id].state = "FILLED"
  /\ CanDeliver(id)

ReleaseQuorum(id) == ReleaseQuorumPasses(id) /\ Release(id)

-----------------------------------------------------------------------------
(* expire.                                                                 *)

\* A filled agreement expires on the clock alone.
Expirable_ClockAlone(a) == a.state \in {"OPEN", "FUNDED", "FILLED"}

Expirable(a) ==
  \/ a.state = "FILLED" /\ a.beneficiary \notin canReceive
  \/ a.state \in {"OPEN", "FUNDED"}

ExpirePasses(caller, id) ==
  LET a == agreements[id] IN
  /\ id \in Live
  /\ \/ a.seats = 0 /\ caller = a.creator
     \/ now >= a.deadline
  /\ Expirable(a)

Expire(caller, id) ==
  /\ ExpirePasses(caller, id)
  /\ agreements' = [agreements EXCEPT ![id].state = "EXPIRED"]
  /\ UNCHANGED <<ledgerVars, usdc, algo, adminVars, agreement_count, roster>>

-----------------------------------------------------------------------------
(* refund_next and claim_refund.                                           *)

\* A clamp one seat short.
WindowEnd_Short(a, count) ==
  IF a.refund_cursor + count >= a.seats THEN a.seats - 1
                                        ELSE a.refund_cursor + count

\* The end of the window a call of `count` covers.
WindowEnd(a, count) ==
  IF a.refund_cursor + count > a.seats THEN a.seats ELSE a.refund_cursor + count

\* The window is paid without asking whether the payer can receive.
Payable_Blindly(id, last) ==
  {seat \in agreements[id].refund_cursor..(last - 1) :
     roster[id][seat].amount > 0}

\* The seats in the window still owed, split by whether the payer can receive.
Payable(id, last) ==
  {seat \in agreements[id].refund_cursor..(last - 1) :
     /\ roster[id][seat].amount > 0
     /\ roster[id][seat].payer \in canReceive}

Skipped(id, last) ==
  {seat \in agreements[id].refund_cursor..(last - 1) :
     /\ roster[id][seat].amount > 0
     /\ roster[id][seat].payer \notin canReceive}

\* The amount of `seats` seats of the roster: join writes share_price in each
\* and the only other write zeroes it, so the loop's running subtraction is a
\* product.
Worth(id, seats) == agreements[id].share_price * Cardinality(seats)

ZeroAmounts(id, seats) ==
  [seat \in DOMAIN roster[id] |->
     IF seat \in seats THEN [roster[id][seat] EXCEPT !.amount = 0]
                       ELSE roster[id][seat]]

\* What settling `seats` pays each account.
Shares(id, seats) ==
  [acct \in Account |->
     Worth(id, {seat \in seats : roster[id][seat].payer = acct})]

RefundNextPasses(id, count) ==
  LET a == agreements[id]
      paid == Payable(id, WindowEnd(a, count))
  IN
  /\ count > 0
  /\ count <= BatchCeiling
  /\ id \in Live
  /\ a.state \in {"EXPIRED", "REFUNDING"}
  /\ paid # {} => CanPay({roster[id][seat].payer : seat \in paid},
                         Worth(id, paid), Cardinality(paid))
  /\ a.total_held >= Worth(id, paid)

RefundNext(id, count) ==
  LET a == agreements[id]
      last == WindowEnd(a, count)
      paid == Payable(id, last)
      skipped == Skipped(id, last)
  IN
  /\ RefundNextPasses(id, count)
  /\ usdc' = PaidOut(Shares(id, paid), Worth(id, paid))
  /\ algo' = algo - Cardinality(paid) * minFee
  /\ agreements' = [agreements EXCEPT ![id] =
       [a EXCEPT !.refund_cursor = last,
                 !.total_held = a.total_held - Worth(id, paid),
                 !.unclaimed_seats = a.unclaimed_seats + Cardinality(skipped),
                 !.state = IF last >= a.seats THEN "REFUNDED" ELSE "REFUNDING"]]
  /\ roster' = [roster EXCEPT ![id] = ZeroAmounts(id, paid)]
  /\ UNCHANGED <<ledgerVars, adminVars, agreement_count>>

\* Seats ahead of the cursor are claimable too.
Claimable_Early(a, seat) ==
  /\ a.state \in {"EXPIRED", "REFUNDING", "REFUNDED"}
  /\ seat < a.seats

\* Nothing is claimable once the cursor has finished its pass.
Claimable_NotAfterPass(a, seat) ==
  /\ a.state \in {"EXPIRED", "REFUNDING"}
  /\ seat < a.seats
  /\ seat < a.refund_cursor

Claimable(a, seat) ==
  /\ a.state \in {"EXPIRED", "REFUNDING", "REFUNDED"}
  /\ seat < a.seats
  /\ seat < a.refund_cursor

\* A read past the roster box aborts the call, and so does an unsigned
\* subtraction that would go below zero.
ClaimRefundPasses(id, seat) ==
  LET a == agreements[id]
      amount == roster[id][seat].amount
  IN
  /\ id \in Live
  /\ Claimable(a, seat)
  /\ seat \in DOMAIN roster[id]
  /\ amount > 0
  /\ CanPay({roster[id][seat].payer}, amount, 1)
  /\ a.total_held >= amount
  /\ a.unclaimed_seats >= 1

ClaimRefund(id, seat) ==
  LET a == agreements[id]
      amount == roster[id][seat].amount
      payer == roster[id][seat].payer
  IN
  /\ ClaimRefundPasses(id, seat)
  /\ usdc' = PaidOut([acct \in Account |->
                        IF acct = payer THEN amount ELSE 0], amount)
  /\ algo' = algo - minFee
  /\ agreements' = [agreements EXCEPT ![id] =
       [a EXCEPT !.total_held = a.total_held - amount,
                 !.unclaimed_seats = a.unclaimed_seats - 1]]
  /\ roster' = [roster EXCEPT ![id] = ZeroAmounts(id, {seat})]
  /\ UNCHANGED <<ledgerVars, adminVars, agreement_count>>

-----------------------------------------------------------------------------
(* close.                                                                  *)

\* Refunds are counted as one payment, as a release is.
InnerUsed_One(a) == 1

\* Inner payments the agreement has made, read off its record.
InnerUsed(a) == IF a.state = "RELEASED" THEN 1 ELSE a.seats

\* What close returns: the box MBR and the reserve less what was spent, this
\* payment's own fee included, never below zero.
CloseReturn(a) ==
  LET spent == (InnerUsed(a) + 1) * minFee
      reserve == FeeReserve(a.max_seats)
  IN  BoxMbr(a.max_seats) + (IF reserve > spent THEN reserve - spent ELSE 0)

\* A terminal state is enough.
Closable_Terminal(a) == a.state \in {"RELEASED", "REFUNDED"}

Closable(a) ==
  /\ a.state \in {"RELEASED", "REFUNDED"}
  /\ a.unclaimed_seats = 0
  /\ a.total_held = 0

\* The deposit goes back only after both boxes are deleted.
ClosePasses(id) ==
  LET a == agreements[id] IN
  /\ id \in Live
  /\ Closable(a)
  /\ id \in DOMAIN roster
  /\ algo >= CloseReturn(a) + minFee + MinBalance(WithoutBox(agreements, id))

Close(id) ==
  /\ ClosePasses(id)
  /\ agreements' = WithoutBox(agreements, id)
  /\ roster' = WithoutBox(roster, id)
  /\ algo' = algo - CloseReturn(agreements[id]) - minFee
  /\ UNCHANGED <<ledgerVars, usdc, adminVars, agreement_count>>

-----------------------------------------------------------------------------
(* The ledger around the application.                                      *)

Tick ==
  /\ now < MaxTime
  /\ now' = now + 1
  /\ UNCHANGED <<minFee, canReceive, usdc, algo, adminVars, boxVars>>

\* An account opts out or is frozen, or opts back in or is unfrozen.
LoseHolding(acct) ==
  /\ acct \in canReceive
  /\ canReceive' = canReceive \ {acct}
  /\ UNCHANGED <<now, minFee, usdc, algo, adminVars, boxVars>>

RegainHolding(acct) ==
  /\ acct \notin canReceive
  /\ canReceive' = canReceive \cup {acct}
  /\ UNCHANGED <<now, minFee, usdc, algo, adminVars, boxVars>>

\* A protocol upgrade raises the minimum fee.
RaiseMinFee ==
  /\ \E fee \in MinFees : fee > minFee /\ minFee' = fee
  /\ UNCHANGED <<now, canReceive, usdc, algo, adminVars, boxVars>>

-----------------------------------------------------------------------------
(* The specification.                                                      *)

\* Deposits a caller tries: the required one, and one unit either side.
Deposits(o) == (RequiredDeposit(o.max_seats) - 1)..(RequiredDeposit(o.max_seats) + 1)

Administer ==
  \E caller \in Account :
    \/ OptInAsset(caller)
    \/ \E new_admin \in Operators \cup {ZeroAddress} : SetAdmin(caller, new_admin)
    \/ \E value \in BOOLEAN : SetPaused(caller, value)
    \/ \E o \in Offers : \E deposit \in Deposits(o) :
         CreateAgreement(caller, o, deposit)

Call(id) ==
  \/ \E caller \in Payers, p \in Payments : Join(caller, id, p)
  \/ \E caller \in Account, h \in Hash \cup {ZeroHash} : ReleaseHash(caller, id, h)
  \/ ReleaseQuorum(id)
  \/ \E caller \in Account : Expire(caller, id)
  \/ \E count \in 0..(BatchCeiling + 1) : RefundNext(id, count)
  \/ \E seat \in 0..SeatsCeiling : ClaimRefund(id, seat)
  \/ Close(id)

Environment ==
  \/ Tick
  \/ \E acct \in Fickle : LoseHolding(acct) \/ RegainHolding(acct)
  \/ RaiseMinFee

Next ==
  \/ Administer
  \/ \E id \in Live : Call(id)
  \/ Environment

Spec == Init /\ [][Next]_vars

-----------------------------------------------------------------------------
(* What must be true.                                                      *)

Returning == {"EXPIRED", "REFUNDING", "REFUNDED"}

\* What the record says is held is what the roster says is owed: until the
\* release every seat with an amount is held for, after it nothing is.  join,
\* refund_next and claim_refund each keep the two in step by hand.
HeldIsOwed ==
  \A id \in Live :
    agreements[id].total_held =
      IF agreements[id].state = "RELEASED" THEN 0 ELSE Worth(id, Unpaid(id))

\* unclaimed_seats counts exactly the seats the cursor passed and left owed,
\* whatever mix of refund_next and claim_refund calls ran, in any order.
UnclaimedIsSkipped ==
  \A id \in Live :
    agreements[id].unclaimed_seats =
      Cardinality({seat \in Unpaid(id) : seat < agreements[id].refund_cursor})

\* One account holds every agreement's USDC, and it holds what the records say,
\* no less and no more.
UsdcConserved ==
  usdc[App] = SumFunction([id \in Live |-> agreements[id].total_held])

\* One payer, one seat: a quorum counts distinct payers.
DistinctPayers ==
  \A id \in Live : \A s, t \in Occupied(id) :
    roster[id][s].payer = roster[id][t].payer => s = t

\* Deposit left for an agreement: box MBR plus the fees it has not yet spent.
RemainingDeposit(id) ==
  LET a == agreements[id]
      used == IF a.state = "RELEASED" THEN 1
              ELSE Cardinality(Occupied(id) \ Unpaid(id))
  IN  BoxMbr(a.max_seats) + FeeReserve(a.max_seats) - used * minFee

\* ALGO conservation, for as long as the minimum fee stays what it was: beyond
\* what it was deployed with, the application holds exactly the deposits its
\* live agreements have left, so no agreement pays its fees, or the refund of
\* its deposit, with another's.  create_agreement prices, _pay and close spend.
AlgoConserved ==
  minFee = InitialFee =>
    algo = Funding + SumFunction([id \in Live |-> RemainingDeposit(id)])

\* Conservation, the headline of the contract's specification: both balances
\* of the one account are what the boxes of the live agreements add up to.
Conserved == UsdcConserved /\ AlgoConserved

ReleaseCanPass(id) ==
  \/ ReleaseQuorumPasses(id)
  \/ \E caller \in Account, h \in Hash : ReleaseHashPasses(caller, id, h)

ExpireCanPass(id) == \E caller \in Account : ExpirePasses(caller, id)

\* release and expire are never both open, so the order transactions land in
\* cannot decide between the beneficiary and the payers.
ReleaseOrExpire == \A id \in Live : ~(ReleaseCanPass(id) /\ ExpireCanPass(id))

\* Past the deadline no share is trapped: while any is held, a call open to
\* everyone can move the agreement on, unless the only shares left are behind
\* the cursor and belong to payers who cannot receive.  Pausing, a change of
\* admin, one dead wallet or another agreement's fees never close every exit.
NoTrappedShare ==
  \A id \in Live :
    agreements[id].total_held > 0 /\ now >= agreements[id].deadline =>
      \/ ReleaseQuorumPasses(id)
      \/ ExpireCanPass(id)
      \/ \E count \in 1..BatchCeiling : RefundNextPasses(id, count)
      \/ \E seat \in Unpaid(id) : ClaimRefundPasses(id, seat)
      \/ \A seat \in Unpaid(id) : /\ seat < agreements[id].refund_cursor
                                  /\ roster[id][seat].payer \notin canReceive

\* A roster is deleted only when nobody on it is owed anything: close looks at
\* two counters, this looks at the seats.
ClosedOwesNobody ==
  [][\A id \in Live : id \notin DOMAIN agreements' =>
       agreements[id].state = "RELEASED" \/ Unpaid(id) = {}]_vars

\* The accounting of one agreement with record a and roster r, as an inductive
\* invariant: what every call leaves true of the boxes it writes.  Beyond the
\* properties above it says how far each state lets the cursor be, that seats
\* ahead of the cursor are untouched, and that an amount is the price or zero.
Owed(a, r) == {seat \in 0..(a.seats - 1) : r[seat].amount > 0}

Staged(a) ==
  /\ a.share_price > 0
  /\ a.min_seats > 0
  /\ a.min_seats = a.max_seats
  /\ a.seats <= a.max_seats
  /\ a.refund_cursor <= a.seats
  /\ a.state = "OPEN" => a.seats < a.min_seats
  /\ a.state \in {"FUNDED", "FILLED"} => a.seats = a.min_seats
  /\ a.state = "FUNDED" => a.condition = "hash"
  /\ a.state = "FILLED" => a.condition = "quorum"
  /\ a.state \notin {"REFUNDING", "REFUNDED"} => a.refund_cursor = 0
  /\ a.state = "REFUNDED" => a.refund_cursor = a.seats

Seating(a, r) ==
  /\ \A s \in 0..(a.seats - 1) :
       r[s].payer \in Account /\ r[s].amount \in {0, a.share_price}
  /\ \A s \in a.refund_cursor..(a.seats - 1) : r[s].amount = a.share_price
  /\ \A s, t \in 0..(a.seats - 1) : r[s].payer = r[t].payer => s = t

HeldExact(a, r) ==
  a.total_held = IF a.state = "RELEASED" THEN 0
                 ELSE a.share_price * Cardinality(Owed(a, r))

SkipsExact(a, r) ==
  a.unclaimed_seats = Cardinality({s \in Owed(a, r) : s < a.refund_cursor})

Sound(a, r) ==
  Staged(a) /\ Seating(a, r) /\ HeldExact(a, r) /\ SkipsExact(a, r)

Accounting == \A id \in Live : Sound(agreements[id], roster[id])

\* The escrow implements EscrowPromise: every call takes, delivers or returns
\* shares as the promise allows, to the account it is owed to and once, or
\* moves no money.  A seat is held for while its amount stands and the
\* agreement is not released.
PromiseStage(state) ==
  IF state = "OPEN" THEN "gathering"
  ELSE IF state \in {"FUNDED", "FILLED"} THEN "ready"
  ELSE IF state = "RELEASED" THEN "delivered" ELSE "returning"

PromiseDeals ==
  [id \in Live |->
     [quota |-> agreements[id].min_seats,
      price |-> agreements[id].share_price,
      beneficiary |-> agreements[id].beneficiary,
      stage |-> PromiseStage(agreements[id].state),
      held |-> IF agreements[id].state = "RELEASED" THEN {}
               ELSE {roster[id][seat].payer : seat \in Unpaid(id)}]]

Promise == INSTANCE EscrowPromise WITH
  Person <- Account, Purse <- App, MaxDeals <- MaxAgreements,
  offered <- agreement_count, deals <- PromiseDeals, wallet <- usdc

KeepsPromise == Promise!Spec

-----------------------------------------------------------------------------
(* What must happen.                                                       *)
(*                                                                         *)
(* No code schedules these calls: they are open to everyone, and the       *)
(* contract counts on whoever is owed making them.  So the clock advances, *)
(* somebody settles an agreement that can be settled and moves the refund  *)
(* cursor on, and the payer of a skipped seat keeps claiming it.  Nothing  *)
(* is asked of the admin or the verifier, and nobody has to join.          *)

Settle(id) == ReleaseQuorum(id) \/ \E caller \in Account : Expire(caller, id)

Fairness ==
  /\ WF_vars(Tick)
  /\ \A id \in Ids :
       /\ WF_vars(Settle(id))
       /\ WF_vars(\E count \in 1..BatchCeiling : RefundNext(id, count))
       /\ \A seat \in 0..(SeatsCeiling - 1) : SF_vars(ClaimRefund(id, seat))

FairSpec == Spec /\ Fairness

Funded(id) == id \in Live /\ agreements[id].seats > 0

Decided(id) == id \notin Live \/ agreements[id].state \in {"RELEASED", "REFUNDED"}

\* Money that came in never just sits: past its deadline an agreement is
\* released or its cursor finishes the pass, however holdings come and go,
\* whether or not the contract is paused, with no call by the operator.
EveryAgreementDecided == \A id \in Ids : Funded(id) ~> Decided(id)

OwedTo(id, acct) ==
  /\ id \in Live
  /\ agreements[id].state \in Returning
  /\ \E seat \in Unpaid(id) : roster[id][seat].payer = acct

\* A payer who can receive again and again is refunded in the end, whether the
\* cursor reaches their seat while they can, or they claim it afterwards.
EveryPayerRefunded ==
  \A id \in Ids, acct \in Payers :
    []<>(acct \in canReceive) => (OwedTo(id, acct) ~> ~OwedTo(id, acct))
=============================================================================
